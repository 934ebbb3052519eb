---------------------------- MODULE MCEventCodec ----------------------------
(***************************************************************************)
(* EventCodec with fields of six bytes in user space: every message of up  *)
(* to MaxText bytes, as the start or the end of a span or as a message,    *)
(* from files whose names do or do not fit, in memory filled with any of   *)
(* the bytes.                                                              *)
(***************************************************************************)
EXTENDS EventCodec

CONSTANTS MaxText

MCTexts == UNION {[1 .. k -> Bytes \ {"nul"}] : k \in 0 .. MaxText}

\* No name, a short one, one that begins with a longer character, and two that are cut,
\* the second one within a character.
MCFiles ==
    {<< >>, <<"ascii">>, <<"lead", "cont", "ascii">>,
     [i \in 1 .. 7 |-> "ascii"], <<"ascii", "ascii", "ascii", "ascii", "lead", "cont">>}

MCEmitted ==
    {e \in [kind : Kinds, level : {0, 5}, cpu : {0, 65535}, content : MCTexts,
            file : MCFiles, line : {<<"ascii", "lead", "cont", "nul">>}] :
        /\ e.level = IF e.kind = "span_end" THEN 0 ELSE 5
        /\ e.cpu = IF e.kind = "msg" THEN 0 ELSE 65535}

MCRoom == 36

MCStale == {[i \in 1 .. MCRoom |-> b] : b \in Bytes}

=============================================================================
