-------------------------------- MODULE Panel --------------------------------
(***************************************************************************)
(* The bot's surfaces (interactive/bot.py, panel.py, dispatch.py and the   *)
(* closures of build_inbound_bot in scheduler/wiring.py): the command      *)
(* panel with its location dropdown, and commands typed into a channel.    *)
(*                                                                         *)
(* All calls run on the gateway loop and interleave where they await:      *)
(* Discord's acknowledgements, the fetch, the last edit.  They share the   *)
(* selected location, which is one cell for the whole process, and read    *)
(* the configuration a reload swaps; the reload's last side effect writes  *)
(* the selection from the main thread.  The operator sees the panel's      *)
(* message, which outlives the process and is drawn anew only by an answer.*)
(***************************************************************************)
EXTENDS ConfigSwap

CONSTANTS Calls,   \* interactions and messages handled at a time
          Listed,  \* Listed[c]: the locations of c, each a name and an id
          First,   \* First[c]: the name of its first location, if it has any
          None

ASSUME ListedAssumption ==
  /\ None \notin Configs
  /\ \A c \in Configs : \A l \in Listed[c] : l.name # None /\ l.id # None
\* assert_unique_names
ASSUME UniqueAssumption ==
  \A c \in Configs : \A l, m \in Listed[c] : l.name = m.name \/ l.id = m.id => l = m
ASSUME FirstAssumption ==
  \A c \in Configs : Listed[c] # {} => \E l \in Listed[c] : l.name = First[c]

NamesOf(c) == {l.name : l \in Listed[c]}
Locations == UNION {Listed[c] : c \in Configs}
Names == {l.name : l \in Locations}

VARIABLES
  selection,  \* SelectedContext.value
  calls,      \* calls[x]: the call x handles, up to its next await
  shown,      \* the panel's message: the configuration whose locations it offers,
              \* None while its controls are disabled
  word,       \* history: the choice last confirmed to the operator, or the default;
              \* None after one that overlapped another writer, left a name gone,
              \* or was set and not shown
  dimmed      \* history: the edit that should have enabled the controls was lost

marks == <<word, dimmed>>
panelVars == <<selection, calls, shown, marks>>
allPanelVars == <<swapVars, panelVars>>

Free == [at |-> "free"]
Picks(x) == calls[x].at = "pick"
Picking == \E x \in Calls : Picks(x)
Tapped(x) == calls[x].at \in {"fetch", "edit"} /\ calls[x].kind # "typed"

Begin(x, call) == calls[x] = Free /\ calls' = [calls EXCEPT ![x] = call]
Finish(x) == calls' = [calls EXCEPT ![x] = Free]

\* A clone of the panel lands, drawn from the configuration c.
Draw(c) == shown' = c /\ dimmed' = FALSE

\* A name configuration c does not have, while it has others.
Gone(c, n) == Listed[c] # {} /\ n \notin NamesOf(c)

\* resolve_location: a match of the id wins over a match of the name.
ById(c, n) == {l \in Listed[c] : l.id = n}
Matches(c, n) ==
  IF ById(c, n) # {} THEN ById(c, n) ELSE {l \in Listed[c] : l.name = n}

\* dispatch_spec for location n (none: the first): the location fetched, or
\* None where it is unknown or there is no location at all.
Resolved(c, n) ==
  LET found == Matches(c, IF n = None THEN First[c] ELSE n)
  IN IF Listed[c] = {} \/ found = {} THEN {None} ELSE found

PanelInit ==
  /\ SwapInit
  /\ Listed[config] # {}
  /\ selection = First[config]
  /\ calls = [x \in Calls |-> Free]
  /\ shown = config
  /\ word = selection
  /\ dimmed = FALSE

-----------------------------------------------------------------------------
(* The dropdown: LocationSelect.callback. *)

\* Every choice in progress loses its claim to be the only writer.
Crowd == [x \in Calls |-> IF Picks(x) THEN [calls[x] EXCEPT !.alone = FALSE] ELSE calls[x]]

\* The new value is set before the acknowledgement that shows it.  An
\* interaction without a value is ignored.
Pick(x, n) ==
  /\ calls[x] = Free
  /\ shown # None
  /\ n \in NamesOf(shown)
  /\ selection' = n
  /\ calls' = [Crowd EXCEPT ![x] = [at |-> "pick", value |-> n, before |-> selection,
                                    of |-> config, alone |-> ~Picking]]
  /\ UNCHANGED <<swapVars, shown, marks>>

\* The choice of x ends: the operator can rely on n if nothing else wrote the
\* selection meanwhile and n is there to be chosen.
Settles(x, n, toldOperator) ==
  word' = IF calls[x].alone /\ ~Gone(config, n) THEN toldOperator ELSE None

\* The acknowledgement lands, with the clone made when the choice was set.
PickLands(x) ==
  /\ Picks(x)
  /\ Finish(x)
  /\ Draw(calls[x].of)
  /\ Settles(x, calls[x].value, calls[x].value)
  /\ UNCHANGED <<swapVars, selection>>

\* Mutant of PickFails: the selection stays advanced.
PickFailsAdvanced(x) ==
  /\ Picks(x)
  /\ Finish(x)
  /\ Settles(x, calls[x].before, word)
  /\ UNCHANGED <<swapVars, selection, shown, dimmed>>

\* Discord refuses it: the selection goes back to what it was, and the raise
\* reaches the hub, whose edit with an error and a new clone may land.
PickFails(x) ==
  /\ Picks(x)
  /\ Finish(x)
  /\ selection' = calls[x].before
  /\ Settles(x, calls[x].before, word)
  /\ Draw(config) \/ UNCHANGED <<shown, dimmed>>
  /\ UNCHANGED swapVars

\* Anything else is raised, by the connection or by the clone: the selection
\* stays advanced.  An edit that landed all the same, or the hub's with an
\* error, shows the choice; without one the operator was not told of it.
PickRaises(x) ==
  /\ Picks(x)
  /\ Finish(x)
  /\ \/ /\ \E c \in {calls[x].of, config} : Draw(c)
        /\ Settles(x, calls[x].value, calls[x].value)
     \/ word' = None /\ UNCHANGED <<shown, dimmed>>
  /\ UNCHANGED <<swapVars, selection>>

-----------------------------------------------------------------------------
(* The buttons: on_command of the hub, _dispatch of the application. *)

Kinds == {"command", "forecast", "argless"}

\* The hub acknowledges with a clone whose controls are all disabled (a tap
\* that cannot be acknowledged changes nothing); then _dispatch takes the
\* configuration and the selection, and awaits the fetch.
Tap(x, kind) ==
  /\ shown # None
  /\ \E of \in IF kind = "argless" THEN {None} ELSE Resolved(config, selection) :
       Begin(x, [at |-> "fetch", kind |-> kind, of |-> of,
                 arg |-> IF kind = "argless" THEN None ELSE selection])
  /\ shown' = None
  /\ UNCHANGED <<swapVars, selection, marks>>

\* on_message: an operator's typed command, for a location or, with none, for
\* the first one, whose name is then resolved like any other.
Ask(x, n) ==
  /\ \E of \in Resolved(config, n) :
       Begin(x, [at |-> "fetch", kind |-> "typed", of |-> of,
                 arg |-> IF n = None /\ of # None THEN First[config] ELSE None])
  /\ UNCHANGED <<swapVars, selection, shown, marks>>

\* Mutant of Label: every answer is labelled as the panel stands.
LabelNow(call) == selection

\* _location_label: the name of the first location, or of the one found.
TypedLabel(call) == IF call.arg # None THEN call.arg ELSE call.of.name

\* What the answer says it is about: a command tap the name it was asked with,
\* a forecast tap the selection as it is after the fetch.
Label(call) ==
  CASE call.kind = "command" -> call.arg
    [] call.kind = "forecast" -> selection
    [] OTHER -> TypedLabel(call)

\* The fetch returns: the answer is rendered and its edit or send awaited.
Answer(x) ==
  /\ calls[x].at = "fetch"
  /\ calls[x].of # None
  /\ calls' = [calls EXCEPT ![x] =
       [at |-> "edit", kind |-> @.kind, arg |-> @.arg, of |-> @.of, label |-> Label(@)]]
  /\ UNCHANGED <<swapVars, selection, shown, marks>>

\* An answer about no location: to an argless command, that the location is
\* unknown, or that the fetch or the handler raised.
AnswerPlainly(x) ==
  /\ calls[x].at = "fetch"
  /\ calls' = [calls EXCEPT ![x] =
       [at |-> "edit", kind |-> @.kind, arg |-> None, of |-> None, label |-> None]]
  /\ UNCHANGED <<swapVars, selection, shown, marks>>

\* on_message sends what it has to say, once, and a send that fails is tried
\* with an error; nothing here depends on what becomes of it.
Reply(x) ==
  /\ calls[x].at = "edit"
  /\ ~Tapped(x)
  /\ Finish(x)
  /\ UNCHANGED <<swapVars, selection, shown, marks>>

\* Mutant of EditLands: the answer is edited in without a new clone.
EditLandsAlone(x) ==
  /\ calls[x].at = "edit"
  /\ Tapped(x)
  /\ Finish(x)
  /\ UNCHANGED <<swapVars, selection, shown, marks>>

\* The hub edits the answer to a tap, or its error, in with a fresh clone.
EditLands(x) ==
  /\ calls[x].at = "edit"
  /\ Tapped(x)
  /\ Finish(x)
  /\ Draw(config)
  /\ UNCHANGED <<swapVars, selection, word>>

\* The edit fails, and so does the hub's edit with an error.
EditFails(x) ==
  /\ calls[x].at = "edit"
  /\ Tapped(x)
  /\ Finish(x)
  /\ dimmed' = (dimmed \/ shown = None)
  /\ UNCHANGED <<swapVars, selection, shown, word>>

\* !panel: a new message is posted and pinned before the old one goes.
\* Without the channel or a permission it is refused before anything changes.
Summon ==
  /\ Draw(config)
  /\ UNCHANGED <<swapVars, selection, calls, word>>

Gateway ==
  \/ \E x \in Calls :
       \/ \E n \in Names : Pick(x, n)
       \/ \E n \in Names \cup {None} : Ask(x, n)
       \/ \E kind \in Kinds : Tap(x, kind)
       \/ PickLands(x) \/ PickFails(x) \/ PickRaises(x)
       \/ Answer(x) \/ AnswerPlainly(x) \/ Reply(x) \/ EditLands(x) \/ EditFails(x)
  \/ Summon

-----------------------------------------------------------------------------
(* The main thread. *)

PanelSwap(c) == SwapIn(c) /\ UNCHANGED panelVars

\* No side effect runs, so nothing looks at what was chosen meanwhile.
PanelAbort ==
  /\ GoBack
  /\ word' = IF Gone(reload.old, selection) THEN None ELSE word
  /\ UNCHANGED <<selection, calls, shown, dimmed>>

PanelCommit == SideEffect("swapped", "prune") /\ UNCHANGED panelVars
PanelPrune == SideEffect("prune", "check") /\ UNCHANGED panelVars

\* _reconcile_selection reads the selection ...
PanelCheck ==
  /\ SideEffect("check", IF Gone(config, selection) THEN "reset" ELSE "idle")
  /\ UNCHANGED panelVars

\* ... and sets the default.  A choice made since is lost.
PanelReset ==
  /\ SideEffect("reset", "idle")
  /\ selection' = First[config]
  /\ calls' = Crowd
  /\ word' = IF Gone(config, selection) THEN First[config] ELSE None
  /\ UNCHANGED <<shown, dimmed>>

\* The calls are lost, the panel's message stays as it is, and the new
\* process answers for it.  It does not start without a location.
PanelRestart(c) ==
  /\ Listed[c] # {}
  /\ StartOver(c)
  /\ selection' = First[c]
  /\ word' = First[c]
  /\ calls' = [x \in Calls |-> Free]
  /\ dimmed' = (shown = None)
  /\ UNCHANGED shown

PanelNext ==
  \/ Gateway
  \/ \E c \in Configs : PanelSwap(c) \/ PanelRestart(c)
  \/ PanelAbort \/ PanelCommit \/ PanelPrune \/ PanelCheck \/ PanelReset

PanelSpec == PanelInit /\ [][PanelNext]_allPanelVars

-----------------------------------------------------------------------------
\* What a call in progress is.
Call ==
  {Free}
  \cup [at : {"pick"}, value : Names, before : Names, of : Configs, alone : BOOLEAN]
  \cup [at : {"fetch"}, kind : Kinds \cup {"typed"}, arg : Names \cup {None},
        of : Locations \cup {None}]
  \cup [at : {"edit"}, kind : Kinds \cup {"typed"}, arg : Names \cup {None},
        of : Locations \cup {None}, label : Names \cup {None}]

PanelTypeOK ==
  /\ config \in Configs
  /\ reload \in [step : ReloadSteps, old : Configs]
  /\ selection \in Names
  /\ calls \in [Calls -> Call]
  /\ shown \in Configs \cup {None}
  /\ word \in Names \cup {None}
  /\ dimmed \in BOOLEAN

(* An answer that names a location is about that location; except a forecast *)
(* tap whose selection changed during the fetch, and a name that is the id   *)
(* of another location.                                                      *)
LabelTrue ==
  \A x \in Calls : calls[x].at = "edit" /\ calls[x].label # None =>
    LET call == calls[x] IN
      \/ call.label = call.of.name
      \/ call.label = call.of.id
      \/ call.kind = "forecast" /\ call.label # call.arg

(* Between reloads, with no choice awaiting its acknowledgement, the         *)
(* selection is what the operator was last shown to have chosen, or the      *)
(* default, and the live configuration has it; except after a choice that    *)
(* overlapped another one or a reset, that was made from a list drawn before *)
(* a reload or of a rejected one, whose failure fell back to a name a reload *)
(* has removed, or whose acknowledgement raised with nothing to show it.     *)
SelectionStands ==
  Settled /\ ~Picking /\ word # None => selection = word /\ ~Gone(config, selection)

(* With no tap in progress the panel's controls work, unless the edit that   *)
(* ends a tap was lost, with all that follows it, or the process died before *)
(* it.                                                                       *)
PanelUsable ==
  (\A x \in Calls : ~Tapped(x)) /\ ~dimmed => shown # None
=============================================================================
