----------------------------- MODULE LiveConfig -----------------------------
(***************************************************************************)
(* What the holder (config/holder.py) and the reload engine promise to     *)
(* whoever reads the live configuration: a reload replaces it, keeps what  *)
(* it may have to go back to until its jobs are reconciled, and goes back  *)
(* to exactly that or not at all.  Outside that window nothing but the     *)
(* next reload, or the next process, changes what is live.                 *)
(***************************************************************************)
CONSTANTS Configs    \* the configurations the file may hold

VARIABLES live,      \* the configuration that holder.current() answers
          fallback   \* what the reload in progress may go back to: none, or one

configVars == <<live, fallback>>

Init == live \in Configs /\ fallback = {}

\* The file is sound: the holder is replaced, one reload at a time.
Replace(c) ==
  /\ fallback = {}
  /\ live' = c
  /\ fallback' = {live}

\* The jobs are reconciled: the new configuration stays.
Keep ==
  /\ fallback # {}
  /\ fallback' = {}
  /\ UNCHANGED live

\* The reconcile raised: the old configuration is put back.
PutBack ==
  /\ live' \in fallback
  /\ fallback' = {}

\* Another process reads the file as it is by then.
StartOver(c) ==
  /\ live' = c
  /\ fallback' = {}

Next == (\E c \in Configs : Replace(c)) \/ Keep \/ PutBack

Spec == Init /\ [][Next]_configVars

\* The same over any number of processes.
LastingSpec == Init /\ [][Next \/ \E c \in Configs : StartOver(c)]_configVars
=============================================================================
