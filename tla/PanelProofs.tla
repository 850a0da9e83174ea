----------------------------- MODULE PanelProofs -----------------------------
(* Proofs of Panel's type invariant and of its safety properties.           *)
EXTENDS Panel, TLAPS

\* What resolve_location finds is a location of the configuration, by the
\* name or by the id it was asked for.
LEMMA ResolvedSound ==
  ASSUME NEW c \in Configs, NEW n, NEW of \in Resolved(c, n), of # None
  PROVE  /\ of \in Listed[c]
         /\ LET asked == IF n = None THEN First[c] ELSE n
            IN  of.name = asked \/ of.id = asked
BY DEF Resolved, Matches, ById

LEMMA FirstNamed ==
  ASSUME NEW c \in Configs, Listed[c] # {}
  PROVE  First[c] \in NamesOf(c) /\ First[c] \in Names
BY FirstAssumption DEF NamesOf, Names, Locations

LEMMA NamedIsName ==
  ASSUME NEW c \in Configs, NEW n \in NamesOf(c)
  PROVE  n \in Names
BY DEF NamesOf, Names, Locations

LEMMA ListedIsLocation ==
  ASSUME NEW c \in Configs, NEW l \in Listed[c]
  PROVE  l \in Locations /\ l.name \in Names
BY DEF Names, Locations

LEMMA NoneApart == None \notin Configs /\ None \notin Names
BY ListedAssumption DEF Names, Locations

-----------------------------------------------------------------------------
\* Crowding a call changes at most whether it is alone.
LEMMA CrowdKeeps ==
  ASSUME PanelTypeOK, NEW y \in Calls
  PROVE  /\ Crowd[y] \in Call
         /\ Crowd[y].at = calls[y].at
         /\ ~Picks(y) => Crowd[y] = calls[y]
         /\ Picks(y) => /\ Crowd[y].value = calls[y].value
                        /\ Crowd[y].before = calls[y].before
                        /\ Crowd[y].alone = FALSE
<1>1. calls[y] \in Call
  BY DEF PanelTypeOK
<1>2. CASE Picks(y)
  <2>1. calls[y] \in [at : {"pick"}, value : Names, before : Names, of : Configs, alone : BOOLEAN]
    BY <1>1, <1>2 DEF Call, Picks, Free
  <2>2. Crowd[y] = [calls[y] EXCEPT !.alone = FALSE]
    BY <1>2 DEF Crowd
  <2>3. Crowd[y] \in [at : {"pick"}, value : Names, before : Names, of : Configs, alone : BOOLEAN]
    BY <2>1, <2>2
  <2> QED BY <1>2, <2>1, <2>2, <2>3 DEF Call
<1>3. CASE ~Picks(y)
  BY <1>1, <1>3 DEF Crowd
<1> QED BY <1>2, <1>3

\* A reset is due only where there is a default to set.
DefaultDue == reload.step = "reset" => Listed[config] # {}

LEMMA DefaultStep ==
  PanelTypeOK /\ DefaultDue /\ [PanelNext]_allPanelVars => DefaultDue'
BY DEF DefaultDue, PanelTypeOK, PanelNext, allPanelVars, panelVars, swapVars, Gateway, Pick,
       Ask, Tap, PickLands, PickFails, PickRaises, Answer, AnswerPlainly, Reply, EditLands,
       EditFails, Summon,
       PanelSwap, PanelRestart, PanelAbort, PanelCommit, PanelPrune, PanelCheck, PanelReset,
       SwapIn, StartOver, GoBack, SideEffect, NoReload, Gone

\* Every step keeps the types.
LEMMA PanelTypeStep ==
  PanelTypeOK /\ DefaultDue /\ [PanelNext]_allPanelVars => PanelTypeOK'
<1> SUFFICES ASSUME PanelTypeOK, DefaultDue, [PanelNext]_allPanelVars PROVE PanelTypeOK'
  OBVIOUS
<1> USE DEF swapVars, panelVars, marks, PanelTypeOK, ReloadSteps
<1>1. ASSUME NEW x \in Calls, NEW n \in Names, Pick(x, n) PROVE PanelTypeOK'
  <2>1. calls[x]' \in Call /\ \A y \in Calls : Crowd[y] \in Call
    <3>1. [at |-> "pick", value |-> n, before |-> selection, of |-> config, alone |-> ~Picking] \in Call
      BY <1>1 DEF Call
    <3> QED BY <1>1, <3>1, CrowdKeeps DEF Pick, Crowd
  <2> QED BY <1>1, <2>1 DEF Pick, Crowd
<1>2. ASSUME NEW x \in Calls, NEW n \in Names \cup {None}, Ask(x, n) PROVE PanelTypeOK'
  <2>1. PICK of \in Resolved(config, n) :
          Begin(x, [at |-> "fetch", kind |-> "typed", of |-> of,
                    arg |-> IF n = None /\ of # None THEN First[config] ELSE None])
    BY <1>2 DEF Ask
  <2>2. of # None => of \in Locations /\ First[config] \in Names
    BY ResolvedSound, ListedIsLocation, FirstNamed
  <2>3. calls' \in [Calls -> Call]
    BY <2>1, <2>2 DEF Begin, Call
  <2> QED BY <1>2, <2>3 DEF Ask
<1>3. ASSUME NEW x \in Calls, NEW kind \in Kinds, Tap(x, kind) PROVE PanelTypeOK'
  <2>1. PICK of \in IF kind = "argless" THEN {None} ELSE Resolved(config, selection) :
          Begin(x, [at |-> "fetch", kind |-> kind, of |-> of,
                    arg |-> IF kind = "argless" THEN None ELSE selection])
    BY <1>3 DEF Tap
  <2>2. of # None => of \in Locations
    BY <2>1, ResolvedSound, ListedIsLocation
  <2>3. calls' \in [Calls -> Call]
    BY <2>1, <2>2 DEF Begin, Call
  <2> QED BY <1>3, <2>3 DEF Tap
<1>4. ASSUME NEW x \in Calls, PickLands(x) \/ PickFails(x) \/ PickRaises(x) PROVE PanelTypeOK'
  <2>1. /\ calls[x].value \in Names
        /\ calls[x].before \in Names
        /\ calls[x].of \in Configs
    BY <1>4 DEF PickLands, PickFails, PickRaises, Picks, Call, Free
  <2>2. calls' \in [Calls -> Call]
    BY <1>4 DEF PickLands, PickFails, PickRaises, Finish, Call
  <2> QED BY <1>4, <2>1, <2>2 DEF PickLands, PickFails, PickRaises, Settles, Draw
<1>5. ASSUME NEW x \in Calls, Answer(x) \/ AnswerPlainly(x) PROVE PanelTypeOK'
  <2>1. /\ calls[x].kind \in Kinds \cup {"typed"}
        /\ calls[x].arg \in Names \cup {None}
        /\ calls[x].of \in Locations \cup {None}
    BY <1>5 DEF Answer, AnswerPlainly, Call, Free
  <2>2. calls[x].of # None => Label(calls[x]) \in Names \cup {None}
    BY <2>1 DEF Label, TypedLabel, Names
  <2>3. calls' \in [Calls -> Call]
    BY <1>5, <2>1, <2>2 DEF Answer, AnswerPlainly, Call
  <2> QED BY <1>5, <2>3 DEF Answer, AnswerPlainly
<1>6. ASSUME NEW x \in Calls, Reply(x) \/ EditLands(x) \/ EditFails(x) PROVE PanelTypeOK'
  <2>1. calls' \in [Calls -> Call]
    BY <1>6 DEF Reply, EditLands, EditFails, Finish, Call
  <2> QED BY <1>6, <2>1 DEF Reply, EditLands, EditFails, Draw
<1>7. CASE Summon
  BY <1>7 DEF Summon, Draw
<1>8. ASSUME NEW c \in Configs, PanelSwap(c) PROVE PanelTypeOK'
  BY <1>8 DEF PanelSwap, SwapIn
<1>9. ASSUME NEW c \in Configs, PanelRestart(c) PROVE PanelTypeOK'
  <2>1. calls' \in [Calls -> Call]
    BY <1>9 DEF PanelRestart, Call
  <2> QED BY <1>9, <2>1, FirstNamed DEF PanelRestart, StartOver, NoReload
<1>10. CASE PanelAbort
  BY <1>10 DEF PanelAbort, GoBack, NoReload
<1>11. CASE PanelCommit \/ PanelPrune \/ PanelCheck
  BY <1>11 DEF PanelCommit, PanelPrune, PanelCheck, SideEffect
<1>12. CASE PanelReset
  <2>1. \A y \in Calls : Crowd[y] \in Call
    BY CrowdKeeps
  <2>2. selection' \in Names /\ word' \in Names \cup {None}
    BY <1>12, FirstNamed DEF PanelReset, SideEffect, DefaultDue
  <2> QED BY <1>12, <2>1, <2>2 DEF PanelReset, SideEffect, Crowd
<1>13. CASE UNCHANGED allPanelVars
  BY <1>13 DEF allPanelVars
<1> QED BY <1>1, <1>2, <1>3, <1>4, <1>5, <1>6, <1>7, <1>8, <1>9, <1>10, <1>11, <1>12, <1>13
        DEF PanelNext, Gateway

(* Panel's variables keep their types, whatever the calls and reloads do.    *)
THEOREM PanelTypes == PanelSpec => []PanelTypeOK
<1>1. PanelInit => PanelTypeOK /\ DefaultDue
  <2> SUFFICES ASSUME PanelInit PROVE PanelTypeOK /\ DefaultDue
    OBVIOUS
  <2>1. calls \in [Calls -> Call]
    BY DEF PanelInit, Call
  <2> QED BY <2>1, FirstNamed
          DEF PanelInit, SwapInit, PanelTypeOK, NoReload, ReloadSteps, DefaultDue
<1> QED BY <1>1, PanelTypeStep, DefaultStep, PTL DEF PanelSpec

-----------------------------------------------------------------------------
\* A call that fetches a location was asked for it, by its name or its id.
AskedFor ==
  \A x \in Calls : calls[x].at = "fetch" /\ calls[x].of # None /\ calls[x].arg # None =>
    calls[x].of.name = calls[x].arg \/ calls[x].of.id = calls[x].arg

LabelInv == AskedFor /\ LabelTrue

LEMMA LabelStep ==
  PanelTypeOK /\ LabelInv /\ [PanelNext]_allPanelVars => LabelInv'
<1> SUFFICES ASSUME PanelTypeOK, LabelInv, [PanelNext]_allPanelVars PROVE LabelInv'
  OBVIOUS
<1> USE DEF LabelInv, AskedFor, LabelTrue
<1>0. calls \in [Calls -> Call] /\ config \in Configs /\ selection \in Names
  BY DEF PanelTypeOK
<1>1. ASSUME NEW x \in Calls, NEW n \in Names, Pick(x, n) PROVE LabelInv'
  <2>1. calls'[x].at = "pick" /\ \A y \in Calls \ {x} : calls'[y] = Crowd[y]
    BY <1>0, <1>1 DEF Pick, Crowd
  <2>2. \A y \in Calls : calls[y].at \in {"fetch", "edit"} => ~Picks(y)
    BY DEF Picks
  <2>3. \A y \in Calls : calls'[y].at \in {"fetch", "edit"} => calls'[y] = calls[y]
    BY <2>1, <2>2, CrowdKeeps
  <2> QED BY <2>3
<1>2. ASSUME NEW x \in Calls, NEW n \in Names \cup {None}, Ask(x, n) PROVE LabelInv'
  <2>1. PICK of \in Resolved(config, n) :
          Begin(x, [at |-> "fetch", kind |-> "typed", of |-> of,
                    arg |-> IF n = None /\ of # None THEN First[config] ELSE None])
    BY <1>2 DEF Ask
  <2>2. of # None /\ n = None => of.name = First[config] \/ of.id = First[config]
    BY <1>0, ResolvedSound
  <2> QED BY <1>0, <2>1, <2>2 DEF Begin
<1>3. ASSUME NEW x \in Calls, NEW kind \in Kinds, Tap(x, kind) PROVE LabelInv'
  <2>1. PICK of \in IF kind = "argless" THEN {None} ELSE Resolved(config, selection) :
          Begin(x, [at |-> "fetch", kind |-> kind, of |-> of,
                    arg |-> IF kind = "argless" THEN None ELSE selection])
    BY <1>3 DEF Tap
  <2>2. selection # None
    BY <1>0, NoneApart
  <2>3. of # None => kind # "argless" /\ (of.name = selection \/ of.id = selection)
    BY <1>0, <2>1, <2>2, ResolvedSound
  <2> QED BY <1>0, <2>1, <2>3 DEF Begin
<1>4. ASSUME NEW x \in Calls, Finish(x) PROVE LabelInv'
  BY <1>0, <1>4 DEF Finish, Free
<1>5. ASSUME NEW x \in Calls, Answer(x) PROVE LabelInv'
  <2>1. /\ calls'[x].at = "edit" /\ calls'[x].kind = calls[x].kind
        /\ calls'[x].arg = calls[x].arg /\ calls'[x].of = calls[x].of
        /\ calls'[x].label = Label(calls[x])
        /\ \A y \in Calls \ {x} : calls'[y] = calls[y]
    BY <1>0, <1>5 DEF Answer
  <2>2. calls[x].arg # None =>
          calls[x].of.name = calls[x].arg \/ calls[x].of.id = calls[x].arg
    BY <1>5 DEF Answer
  <2>3. \/ Label(calls[x]) = None
        \/ Label(calls[x]) = calls[x].of.name
        \/ Label(calls[x]) = calls[x].of.id
        \/ calls[x].kind = "forecast" /\ Label(calls[x]) # calls[x].arg
    BY <2>2, <1>0, NoneApart DEF Label, TypedLabel
  <2> QED BY <2>1, <2>3
<1>6. ASSUME NEW x \in Calls, AnswerPlainly(x) PROVE LabelInv'
  BY <1>0, <1>6 DEF AnswerPlainly
<1>7. ASSUME NEW c \in Configs, PanelRestart(c) PROVE LabelInv'
  BY <1>7 DEF PanelRestart, Free
<1>8. CASE PanelReset
  <2>1. \A y \in Calls : calls'[y] = Crowd[y]
    BY <1>8 DEF PanelReset
  <2>2. \A y \in Calls : calls[y].at \in {"fetch", "edit"} => ~Picks(y)
    BY DEF Picks
  <2>3. \A y \in Calls : calls'[y].at \in {"fetch", "edit"} => calls'[y] = calls[y]
    BY <2>1, <2>2, CrowdKeeps
  <2> QED BY <2>3
<1>9. CASE UNCHANGED calls
  BY <1>9
<1> QED
  BY <1>1, <1>2, <1>3, <1>4, <1>5, <1>6, <1>7, <1>8, <1>9
  DEF PanelNext, Gateway, PickLands, PickFails, PickRaises, Reply, EditLands, EditFails, Summon,
      PanelSwap, PanelAbort, PanelCommit, PanelPrune, PanelCheck, allPanelVars, panelVars

(* An answer that names a location is about it, but for the two known ways.  *)
THEOREM LabelTrueHolds == PanelSpec => []LabelTrue
<1>1. PanelInit => LabelInv
  BY DEF PanelInit, Free, LabelInv, AskedFor, LabelTrue
<1> QED BY <1>1, LabelStep, PanelTypes, PTL DEF PanelSpec, LabelInv

-----------------------------------------------------------------------------
\* A choice that is alone has written the selection last, nobody else is
\* choosing, and what it goes back to is what the operator was last told.
AloneInv ==
  \A x \in Calls : Picks(x) /\ calls[x].alone =>
    /\ selection = calls[x].value
    /\ word # None => calls[x].before = word
    /\ \A y \in Calls : Picks(y) => y = x

\* With nobody choosing the operator was told the selection.
ToldInv == ~Picking /\ word # None => selection = word

SelectionInv == AloneInv /\ ToldInv /\ SelectionStands

LEMMA SelectionStep ==
  PanelTypeOK /\ DefaultDue /\ SelectionInv /\ [PanelNext]_allPanelVars => SelectionInv'
<1> SUFFICES ASSUME PanelTypeOK, DefaultDue, SelectionInv, [PanelNext]_allPanelVars
             PROVE  SelectionInv'
  OBVIOUS
<1> USE DEF SelectionInv, AloneInv, ToldInv, SelectionStands
<1>0. calls \in [Calls -> Call] /\ config \in Configs /\ selection \in Names
  BY DEF PanelTypeOK
<1>1. ASSUME NEW x \in Calls, NEW n \in Names, Pick(x, n) PROVE SelectionInv'
  <2>1. /\ Picks(x)' /\ calls'[x].value = n /\ calls'[x].before = selection
        /\ calls'[x].alone = ~Picking
        /\ \A y \in Calls \ {x} : calls'[y] = Crowd[y]
        /\ selection' = n /\ word' = word
    BY <1>0, <1>1 DEF Pick, Crowd, Picks, marks
  <2>2. \A y \in Calls \ {x} : Picks(y)' => Picks(y) /\ calls'[y].alone = FALSE
    BY <2>1, CrowdKeeps DEF Picks
  <2>3. Picking'
    BY <2>1 DEF Picking
  <2> QED BY <2>1, <2>2, <2>3 DEF Picking
<1>2. ASSUME NEW x \in Calls, PickLands(x) PROVE SelectionInv'
  <2>1. \A y \in Calls : Picks(y)' => Picks(y) /\ y # x /\ calls'[y] = calls[y]
    BY <1>0, <1>2 DEF PickLands, Finish, Picks, Free
  <2>2. CASE calls[x].alone /\ ~Gone(config, calls[x].value)
    BY <1>2, <2>1, <2>2 DEF PickLands, Settles, Picking, swapVars
  <2>3. CASE ~(calls[x].alone /\ ~Gone(config, calls[x].value))
    <3>1. word' = None
      BY <1>2, <2>3 DEF PickLands, Settles
    <3> QED BY <1>2, <2>1, <3>1 DEF PickLands
  <2> QED BY <2>2, <2>3
<1>3. ASSUME NEW x \in Calls, PickFails(x) PROVE SelectionInv'
  <2>1. \A y \in Calls : Picks(y)' => Picks(y) /\ y # x /\ calls'[y] = calls[y]
    BY <1>0, <1>3 DEF PickFails, Finish, Picks, Free
  <2>2. CASE calls[x].alone /\ ~Gone(config, calls[x].before)
    BY <1>3, <2>1, <2>2 DEF PickFails, Settles, Picking, swapVars
  <2>3. CASE ~(calls[x].alone /\ ~Gone(config, calls[x].before))
    <3>1. word' = None
      BY <1>3, <2>3 DEF PickFails, Settles
    <3>2. \A y \in Calls : Picks(y)' => calls'[y].alone = FALSE
      BY <1>0, <1>3, <2>1 DEF PickFails, Call, Picks, Free
    <3> QED BY <1>3, <2>1, <3>1, <3>2 DEF PickFails
  <2> QED BY <2>2, <2>3
<1>a. ASSUME NEW x \in Calls, PickRaises(x) PROVE SelectionInv'
  <2>1. \A y \in Calls : Picks(y)' => Picks(y) /\ y # x /\ calls'[y] = calls[y]
    BY <1>0, <1>a DEF PickRaises, Finish, Picks, Free
  <2>2. CASE word' = None
    BY <1>a, <2>1, <2>2 DEF PickRaises
  <2>3. CASE word' # None
    <3>1. calls[x].alone /\ ~Gone(config, calls[x].value) /\ word' = calls[x].value
      BY <1>a, <2>3 DEF PickRaises, Settles
    <3> QED BY <1>a, <2>1, <3>1 DEF PickRaises, Picking, swapVars
  <2> QED BY <2>2, <2>3
<1>4. ASSUME NEW x \in Calls, NEW call, calls' = [calls EXCEPT ![x] = call],
             ~Picks(x), call.at # "pick", UNCHANGED <<swapVars, selection, word>>
      PROVE  SelectionInv'
  <2>1. \A y \in Calls : (Picks(y)' <=> Picks(y)) /\ (Picks(y) => calls'[y] = calls[y])
    BY <1>0, <1>4 DEF Picks
  <2> QED BY <1>4, <2>1 DEF Picking, Settled, swapVars
<1>5. ASSUME NEW x \in Calls, NEW n \in Names \cup {None}, Ask(x, n) PROVE SelectionInv'
  <2>1. PICK of :
          Begin(x, [at |-> "fetch", kind |-> "typed", of |-> of,
                    arg |-> IF n = None /\ of # None THEN First[config] ELSE None])
    BY <1>5 DEF Ask
  <2>2. ~Picks(x)
    BY <2>1 DEF Begin, Picks, Free
  <2> DEFINE call == [at |-> "fetch", kind |-> "typed", of |-> of,
                      arg |-> IF n = None /\ of # None THEN First[config] ELSE None]
  <2>3. calls' = [calls EXCEPT ![x] = call] /\ call.at # "pick"
    BY <2>1 DEF Begin
  <2>4. UNCHANGED <<swapVars, selection, word>>
    BY <1>5 DEF Ask, marks
  <2> HIDE DEF call
  <2> QED BY <1>4, <2>2, <2>3, <2>4
<1>6. ASSUME NEW x \in Calls, NEW kind \in Kinds, Tap(x, kind) PROVE SelectionInv'
  <2>1. PICK of :
          Begin(x, [at |-> "fetch", kind |-> kind, of |-> of,
                    arg |-> IF kind = "argless" THEN None ELSE selection])
    BY <1>6 DEF Tap
  <2>2. ~Picks(x)
    BY <2>1 DEF Begin, Picks, Free
  <2> DEFINE call == [at |-> "fetch", kind |-> kind, of |-> of,
                      arg |-> IF kind = "argless" THEN None ELSE selection]
  <2>3. calls' = [calls EXCEPT ![x] = call] /\ call.at # "pick"
    BY <2>1 DEF Begin
  <2>4. UNCHANGED <<swapVars, selection, word>>
    BY <1>6 DEF Tap, marks
  <2> HIDE DEF call
  <2> QED BY <1>4, <2>2, <2>3, <2>4
<1>7. ASSUME NEW x \in Calls, Answer(x) \/ AnswerPlainly(x) PROVE SelectionInv'
  BY <1>4, <1>7 DEF Answer, AnswerPlainly, Picks, marks
<1>8. ASSUME NEW x \in Calls, Reply(x) \/ EditLands(x) \/ EditFails(x) PROVE SelectionInv'
  BY <1>4, <1>8 DEF Reply, EditLands, EditFails, Finish, Free, Picks, marks
<1>9. CASE UNCHANGED <<selection, calls, word>> /\ (Settled' => UNCHANGED config /\ Settled)
  BY <1>9 DEF Picking, Picks
<1>10. CASE PanelAbort
  <2>1. UNCHANGED <<selection, calls>> /\ config' = reload.old
    BY <1>10 DEF PanelAbort, GoBack
  <2>2. word' # None => word' = word /\ ~Gone(config', selection)
    BY <1>10, <2>1 DEF PanelAbort
  <2> QED BY <2>1, <2>2 DEF Picking, Picks
<1>11. CASE PanelCheck
  <2>1. UNCHANGED <<selection, calls, word, config>>
    BY <1>11 DEF PanelCheck, SideEffect, panelVars, marks
  <2>2. Settled' => ~Gone(config, selection)
    BY <1>11 DEF PanelCheck, SideEffect, Settled
  <2> QED BY <2>1, <2>2 DEF Picking, Picks
<1>12. CASE PanelReset
  <2>1. \A y \in Calls : Picks(y)' => calls'[y].alone = FALSE
    BY <1>12, CrowdKeeps DEF PanelReset, Picks
  <2>2. UNCHANGED config /\ selection' = First[config] /\ word' \in {First[config], None}
    BY <1>12 DEF PanelReset, SideEffect
  <2>3. ~Gone(config, First[config])
    BY <1>0, FirstNamed DEF Gone
  <2> QED BY <2>1, <2>2, <2>3
<1>13. ASSUME NEW c \in Configs, PanelRestart(c) PROVE SelectionInv'
  <2>1. \A y \in Calls : ~Picks(y)'
    BY <1>13 DEF PanelRestart, Picks, Free
  <2>2. ~Gone(c, First[c])
    BY FirstNamed DEF Gone
  <2> QED BY <1>13, <2>1, <2>2 DEF PanelRestart, StartOver
<1>14. ASSUME NEW c \in Configs, PanelSwap(c) PROVE SelectionInv'
  <2>1. UNCHANGED <<selection, calls, word>> /\ ~Settled'
    BY <1>14 DEF PanelSwap, SwapIn, Settled, panelVars, marks
  <2> QED BY <2>1, <1>9
<1>15. CASE PanelCommit \/ PanelPrune
  <2>1. UNCHANGED <<selection, calls, word>> /\ ~Settled'
    BY <1>15 DEF PanelCommit, PanelPrune, SideEffect, Settled, panelVars, marks
  <2> QED BY <2>1, <1>9
<1>16. CASE Summon \/ UNCHANGED allPanelVars
  <2>1. UNCHANGED <<selection, calls, word, config, reload>>
    BY <1>16 DEF Summon, allPanelVars, panelVars, marks, swapVars
  <2>2. Settled' => Settled
    BY <2>1 DEF Settled
  <2> QED BY <2>1, <2>2, <1>9
<1> QED
  BY <1>1, <1>2, <1>3, <1>a, <1>5, <1>6, <1>7, <1>8, <1>10, <1>11, <1>12, <1>13, <1>14, <1>15,
     <1>16
  DEF PanelNext, Gateway

(* Between reloads the selection is what the operator was last told, and the *)
(* live configuration has it, but for the known overlaps and stale lists.    *)
THEOREM SelectionStandsHolds == PanelSpec => []SelectionStands
<1>1. PanelInit => SelectionInv /\ DefaultDue
  <2> SUFFICES ASSUME PanelInit PROVE SelectionInv /\ DefaultDue
    OBVIOUS
  <2>1. \A x \in Calls : ~Picks(x)
    BY DEF PanelInit, Picks, Free
  <2>2. ~Gone(config, First[config]) /\ reload.step = "idle"
    BY FirstNamed DEF PanelInit, SwapInit, NoReload, Gone
  <2> QED BY <2>1, <2>2 DEF PanelInit, SelectionInv, AloneInv, ToldInv, SelectionStands, DefaultDue
<1> QED BY <1>1, SelectionStep, DefaultStep, PanelTypes, PTL DEF PanelSpec, SelectionInv

-----------------------------------------------------------------------------
LEMMA UsableStep ==
  PanelTypeOK /\ PanelUsable /\ [PanelNext]_allPanelVars => PanelUsable'
<1> SUFFICES ASSUME PanelTypeOK, PanelUsable, [PanelNext]_allPanelVars PROVE PanelUsable'
  OBVIOUS
<1> USE DEF PanelUsable
<1>0. calls \in [Calls -> Call] /\ config \in Configs
  BY DEF PanelTypeOK
<1>1. ASSUME NEW x \in Calls, NEW n \in Names, Pick(x, n) PROVE PanelUsable'
  BY <1>1 DEF Pick
<1>2. ASSUME NEW x \in Calls, PickLands(x) PROVE PanelUsable'
  <2>1. calls[x].of \in Configs
    BY <1>0, <1>2 DEF PickLands, Picks, Call, Free
  <2> QED BY <1>2, <2>1, NoneApart DEF PickLands, Draw
<1>3. ASSUME NEW x \in Calls, NEW call, calls' = [calls EXCEPT ![x] = call],
             Tapped(x) => Tapped(x)', UNCHANGED <<shown, dimmed>>
      PROVE  PanelUsable'
  <2>1. \A y \in Calls : Tapped(y) => Tapped(y)'
    BY <1>0, <1>3 DEF Tapped
  <2> QED BY <1>3, <2>1
<1>4. ASSUME NEW x \in Calls, PickFails(x) \/ PickRaises(x) PROVE PanelUsable'
  <2>1. ~Tapped(x) /\ calls[x].of \in Configs
    BY <1>0, <1>4 DEF PickFails, PickRaises, Picks, Tapped, Call, Free
  <2>2. shown' \in Configs \/ UNCHANGED <<shown, dimmed>>
    BY <1>0, <1>4, <2>1 DEF PickFails, PickRaises, Draw
  <2>3. Finish(x)
    BY <1>4 DEF PickFails, PickRaises
  <2> QED BY <1>3, <2>1, <2>2, <2>3, NoneApart DEF Finish
<1>5. ASSUME NEW x \in Calls, NEW n \in Names \cup {None}, Ask(x, n) PROVE PanelUsable'
  <2>1. ~Tapped(x)
    BY <1>5 DEF Ask, Begin, Tapped, Free
  <2> QED BY <1>3, <1>5, <2>1 DEF Ask, Begin, marks
<1>6. ASSUME NEW x \in Calls, NEW kind \in Kinds, Tap(x, kind) PROVE PanelUsable'
  <2>1. Tapped(x)'
    BY <1>0, <1>6 DEF Tap, Begin, Tapped, Kinds
  <2> QED BY <2>1
<1>7. ASSUME NEW x \in Calls, Answer(x) \/ AnswerPlainly(x) PROVE PanelUsable'
  <2>1. Tapped(x) => Tapped(x)'
    BY <1>0, <1>7 DEF Answer, AnswerPlainly, Tapped
  <2> QED BY <1>3, <1>7, <2>1 DEF Answer, AnswerPlainly, marks
<1>8. ASSUME NEW x \in Calls, EditLands(x) \/ Reply(x) PROVE PanelUsable'
  <2>1. CASE EditLands(x)
    BY <1>0, <2>1, NoneApart DEF EditLands, Draw
  <2>2. CASE Reply(x)
    BY <1>3, <2>2 DEF Reply, Finish, marks
  <2> QED BY <1>8, <2>1, <2>2
<1>9. ASSUME NEW x \in Calls, EditFails(x) PROVE PanelUsable'
  BY <1>9 DEF EditFails
<1>10. CASE Summon
  BY <1>0, <1>10, NoneApart DEF Summon, Draw
<1>11. ASSUME NEW c \in Configs, PanelRestart(c) PROVE PanelUsable'
  BY <1>11 DEF PanelRestart
<1>12. CASE PanelReset
  <2>1. \A y \in Calls : Tapped(y) => Tapped(y)'
    BY <1>12, CrowdKeeps DEF PanelReset, Tapped, Picks
  <2> QED BY <1>12, <2>1 DEF PanelReset
<1>13. CASE UNCHANGED <<calls, shown, dimmed>>
  BY <1>13 DEF Tapped
<1> QED
  BY <1>1, <1>2, <1>4, <1>5, <1>6, <1>7, <1>8, <1>9, <1>10, <1>11, <1>12, <1>13
  DEF PanelNext, Gateway, PanelSwap, PanelAbort, PanelCommit, PanelPrune, PanelCheck,
      allPanelVars, panelVars, marks

(* With no tap in progress the panel works, unless the edit was lost.        *)
THEOREM PanelUsableHolds == PanelSpec => []PanelUsable
<1>1. PanelInit => PanelUsable
  BY NoneApart DEF PanelInit, SwapInit, PanelUsable
<1> QED BY <1>1, UsableStep, PanelTypes, PTL DEF PanelSpec

-----------------------------------------------------------------------------
(* The configuration the bot's calls read moves as the holder promises.        *)
THEOREM PanelHolderKept == PanelSpec => ImplementsHolder
<1>1. PanelInit => Holder!Init
  BY DEF PanelInit, SwapInit, NoReload, Holder!Init
<1>2. PanelTypeOK /\ [PanelNext]_allPanelVars => [Holder!Next \/ \E c \in Configs : Holder!StartOver(c)]_(Holder!configVars)
  <2> SUFFICES ASSUME PanelTypeOK, [PanelNext]_allPanelVars
               PROVE  [Holder!Next \/ \E c \in Configs : Holder!StartOver(c)]_(Holder!configVars)
    OBVIOUS
  <2> USE DEF Holder!configVars, PanelTypeOK
  <2>1. CASE UNCHANGED swapVars
    BY <2>1 DEF swapVars
  <2>2. ASSUME NEW c \in Configs, SwapIn(c) PROVE Holder!Replace(c)
    BY <2>2 DEF SwapIn, Settled, Holder!Replace
  <2>3. ASSUME GoBack PROVE Holder!PutBack
    BY <2>3 DEF GoBack, NoReload, Holder!PutBack
  <2>4. ASSUME SideEffect("swapped", "prune") PROVE Holder!Keep
    BY <2>4 DEF SideEffect, Holder!Keep
  <2>5. ASSUME NEW from \in {"prune", "check", "reset"}, NEW to \in {"check", "reset", "idle"},
               SideEffect(from, to)
        PROVE  UNCHANGED Holder!configVars
    BY <2>5 DEF SideEffect
  <2>6. ASSUME NEW c \in Configs, StartOver(c) PROVE Holder!StartOver(c)
    BY <2>6 DEF StartOver, NoReload, Holder!StartOver
  <2>7. QED
    <3>1. CASE Gateway
      BY <2>1, <3>1 DEF Gateway, Pick, Ask, Tap, PickLands, PickFails, Answer,
                        AnswerPlainly, PickRaises, Reply, EditLands, EditFails, Summon, swapVars
    <3>2. CASE \E c \in Configs : PanelSwap(c) \/ PanelRestart(c)
      BY <2>2, <2>6, <3>2 DEF PanelSwap, PanelRestart, Holder!Next
    <3>3. CASE PanelAbort \/ PanelCommit
      BY <2>3, <2>4, <3>3 DEF PanelAbort, PanelCommit, Holder!Next
    <3>4. CASE PanelPrune \/ PanelCheck \/ PanelReset
      BY <2>5, <3>4 DEF PanelPrune, PanelCheck, PanelReset
    <3>5. QED
      BY <2>1, <3>1, <3>2, <3>3, <3>4 DEF PanelNext, allPanelVars, swapVars
<1>3. QED
  BY <1>1, <1>2, PanelTypes, PTL DEF PanelSpec, Holder!LastingSpec, ImplementsHolder
=============================================================================
