----------------------------- MODULE ShellProofs -----------------------------
(***************************************************************************)
(* For any number of terminals, places and restarts: the count compared    *)
(* with SHELL_MAX is exact, the cap holds, and a shell that lives keeps    *)
(* its route.                                                              *)
(***************************************************************************)
EXTENDS Shell, FiniteSetTheorems, TLAPS

(* Every step keeps the types.                                             *)
LEMMA ShellTypeStep == ShellTypeOK /\ [ShellNext]_shellVars => ShellTypeOK'
<1> SUFFICES ASSUME ShellTypeOK, [ShellNext]_shellVars
             PROVE  ShellTypeOK'
  OBVIOUS
<1> USE DEF ShellTypeOK
<1>1. ASSUME NEW t \in Term, RunnerStep(t) \/ ShellEnds(t) \/ StrayEnds(t) \/ ForgetShell(t)
      PROVE  ShellTypeOK'
  <2>1. shell' \in [Term -> ShellPhase]
    BY <1>1 DEF RunnerStep, ShellStart, ShellOpens, ShellFails, ReaderUncounts,
                ShellEnds, StrayEnds, IdlePasses, Reap, ForgetShell, ShellMoves, ShellPhase
  <2>2. busy' \in Nat
    BY <1>1 DEF RunnerStep, ShellStart, ShellOpens, ShellFails, ReaderUncounts,
                ShellEnds, StrayEnds, IdlePasses, Reap, ForgetShell, AddBusy
  <2>3. read' \in [Term -> BOOLEAN]
    BY <1>1 DEF RunnerStep, ShellStart, ShellOpens, ShellFails, ReaderUncounts,
                ShellEnds, StrayEnds, IdlePasses, Reap, ForgetShell
  <2>4. UNCHANGED <<start, routes, term, pageOpen, poll, killing, restarts>>
    BY <1>1 DEF RunnerStep, ShellStart, ShellOpens, ShellFails, ReaderUncounts,
                ShellEnds, StrayEnds, IdlePasses, Reap, ForgetShell, pageVars
  <2>5. QED BY <2>1, <2>2, <2>3, <2>4
<1>2. ASSUME NEW t \in Term, StartArrives(t) \/ StartAnswered(t) \/ StartFails(t)
      PROVE  ShellTypeOK'
  BY <1>2 DEF StartArrives, StartAnswered, StartFails, runnerVars, pageVars
<1>3. ASSUME NEW t \in Term, PollArrives(t)
      PROVE  ShellTypeOK'
  <2>1. read' \in [Term -> BOOLEAN]
    <3>1. read' = read \/ read' = [read EXCEPT ![t] = @ \/ shell[t] \in Listed]
      BY <1>3 DEF PollArrives
    <3>2. (read[t] \/ shell[t] \in Listed) \in BOOLEAN
      OBVIOUS
    <3>3. QED BY <3>1, <3>2
  <2>2. poll' \in [Term -> {"no", "sent", "asking", "more", "done", "error"}]
    BY <1>3 DEF PollArrives
  <2>3. QED BY <1>3, <2>1, <2>2 DEF PollArrives, pageVars
<1>4. ASSUME NEW t \in Term,
             PollAnswered(t) \/ PollFails(t) \/ PollReplied(t) \/ PollUnheard(t)
      PROVE  ShellTypeOK'
  BY <1>4 DEF PollAnswered, PollFails, PollReplied, PollUnheard, runnerVars, pageVars
<1>5. ASSUME NEW t \in Term, KillArrives(t)
      PROVE  ShellTypeOK'
  <2>1. shell' \in [Term -> ShellPhase]
    BY <1>5 DEF KillArrives, ShellMoves, ShellPhase
  <2>2. QED BY <1>5, <2>1 DEF KillArrives, pageVars
<1>6. ASSUME NEW t \in Term, StartReplied(t) \/ OpenShell(t) \/ CloseTerminal(t)
      PROVE  ShellTypeOK'
  BY <1>6 DEF StartReplied, OpenShell, CloseTerminal, runnerVars
<1>7. CASE ClosePage
  BY <1>7 DEF ClosePage, runnerVars
<1>8. CASE RunnerRestarts
  BY <1>8, ShellAssumption DEF RunnerRestarts, ShellAssumption, ShellPhase, pageVars
<1>9. CASE GatewayRestarts
  BY <1>9, ShellAssumption DEF GatewayRestarts, ShellAssumption, runnerVars, pageVars
<1>10. CASE UNCHANGED shellVars
  BY <1>10 DEF shellVars, runnerVars, pageVars
<1>11. QED
  BY <1>1, <1>2, <1>3, <1>4, <1>5, <1>6, <1>7, <1>8, <1>9, <1>10
     DEF ShellNext, RelayStep

(* The variables keep their types.                                         *)
THEOREM ShellTypeCorrect == ShellSpec => []ShellTypeOK
<1>1. ShellInit => ShellTypeOK
  BY ShellAssumption DEF ShellInit, ShellTypeOK, ShellPhase, ShellAssumption
<1>2. QED BY <1>1, ShellTypeStep, PTL DEF ShellSpec

-----------------------------------------------------------------------------
(* The cap.                                                                *)

LEMMA CountedFinite == IsFiniteSet(ShellsIn(Counted))
<1>1. ShellsIn(Counted) \subseteq Term
  BY DEF ShellsIn
<1>2. QED BY <1>1, ShellAssumption, FS_Subset DEF ShellAssumption

(* A shell that goes on changes the count as it changes the counted ones.  *)
LEMMA CountStep ==
  ASSUME ShellTypeOK, ShellAccounting, NEW t \in Term, NEW from, NEW to,
         ShellMoves(t, from, to),
         \/ busy' = busy /\ (\A p \in from : p \in Counted <=> to \in Counted)
         \/ busy < ShellMax /\ AddBusy(1) /\ to \in Counted /\ from \cap Counted = {}
         \/ AddBusy(-1) /\ to \notin Counted /\ from \subseteq Counted
  PROVE  ShellAccounting'
<1>1. /\ shell[t] \in from
      /\ \A u \in Term : shell'[u] = IF u = t THEN to ELSE shell[u]
  BY DEF ShellMoves, ShellTypeOK
<1>2. /\ busy = Cardinality(ShellsIn(Counted)) /\ busy <= ShellMax
      /\ busy \in Nat /\ ShellMax \in Nat
      /\ IsFiniteSet(ShellsIn(Counted))
  BY CountedFinite, ShellAssumption DEF ShellAccounting, ShellTypeOK, ShellAssumption
<1>3. CASE busy' = busy /\ (\A p \in from : p \in Counted <=> to \in Counted)
  <2>1. ShellsIn(Counted)' = ShellsIn(Counted)
    BY <1>1, <1>3 DEF ShellsIn
  <2>2. QED BY <1>2, <1>3, <2>1 DEF ShellAccounting
<1>4. CASE busy < ShellMax /\ AddBusy(1) /\ to \in Counted /\ from \cap Counted = {}
  <2>1. ShellsIn(Counted)' = ShellsIn(Counted) \cup {t} /\ t \notin ShellsIn(Counted)
    BY <1>1, <1>4 DEF ShellsIn
  <2>2. busy' = busy + 1
    BY <1>2, <1>4 DEF AddBusy
  <2>3. Cardinality(ShellsIn(Counted)') = Cardinality(ShellsIn(Counted)) + 1
    BY <1>2, <2>1, FS_AddElement
  <2>4. QED BY <1>2, <1>4, <2>2, <2>3 DEF ShellAccounting
<1>5. CASE AddBusy(-1) /\ to \notin Counted /\ from \subseteq Counted
  <2>1. ShellsIn(Counted)' = ShellsIn(Counted) \ {t} /\ t \in ShellsIn(Counted)
    BY <1>1, <1>5 DEF ShellsIn
  <2>2. busy # 0
    BY <1>2, <2>1, FS_EmptySet
  <2>3. busy' = busy - 1
    BY <1>2, <1>5, <2>2 DEF AddBusy
  <2>4. Cardinality(ShellsIn(Counted)') = Cardinality(ShellsIn(Counted)) - 1
    BY <1>2, <2>1, FS_RemoveElement
  <2>5. QED BY <1>2, <2>3, <2>4 DEF ShellAccounting
<1>6. QED BY <1>3, <1>4, <1>5

(* The count compared with SHELL_MAX is the number of shells not yet given *)
(* back, and never passes the cap, however starts, ends and restarts fall. *)
THEOREM ShellCapHolds == ShellSpec => []ShellAccounting
<1>1. ShellInit => ShellAccounting
  <2> SUFFICES ASSUME ShellInit PROVE ShellAccounting
    OBVIOUS
  <2>1. ShellsIn(Counted) = {} /\ busy = 0
    BY DEF ShellInit, ShellsIn, Counted
  <2>2. QED
    BY <2>1, FS_EmptySet, ShellAssumption DEF ShellAccounting, ShellAssumption
<1>2. ShellTypeOK /\ ShellAccounting /\ [ShellNext]_shellVars => ShellAccounting'
  <2> SUFFICES ASSUME ShellTypeOK, ShellAccounting, [ShellNext]_shellVars
               PROVE  ShellAccounting'
    OBVIOUS
  <2>0. busy \in Nat /\ ShellMax \in Nat
    BY ShellAssumption DEF ShellTypeOK, ShellAssumption
  <2>1. ASSUME NEW t \in Term, ShellStart(t)
        PROVE  ShellAccounting'
    <3>1. CASE busy >= ShellMax
      <4>1. ShellMoves(t, {"none"}, "refused") /\ busy' = busy
        BY <2>1, <3>1 DEF ShellStart
      <4>2. QED BY <4>1, CountStep DEF Counted
    <3>2. CASE busy < ShellMax
      <4>1. ShellMoves(t, {"none"}, "claimed") /\ AddBusy(1)
        BY <2>0, <2>1, <3>2 DEF ShellStart
      <4>2. "claimed" \in Counted /\ {"none"} \cap Counted = {}
        BY DEF Counted
      <4>3. QED BY <4>1, <4>2, <3>2, CountStep
    <3>3. QED BY <2>0, <3>1, <3>2
  <2>2. ASSUME NEW t \in Term, ShellFails(t)
        PROVE  ShellAccounting'
    <3>1. PICK to \in {"refused", "unlisted", "stray"} : ShellMoves(t, {"claimed"}, to)
      BY <2>2 DEF ShellFails
    <3>2. to \notin Counted /\ {"claimed"} \subseteq Counted
      BY DEF Counted
    <3>3. QED BY <2>2, <3>1, <3>2, CountStep DEF ShellFails
  <2>3. ASSUME NEW t \in Term, ReaderUncounts(t)
        PROVE  ShellAccounting'
    <3>1. "uncounted" \notin Counted /\ {"finished"} \subseteq Counted
      BY DEF Counted
    <3>2. QED BY <2>3, <3>1, CountStep DEF ReaderUncounts
  <2>4. ASSUME NEW t \in Term, ShellOpens(t)
        PROVE  ShellAccounting'
    BY <2>4, CountStep DEF ShellOpens, Counted
  <2>5. ASSUME NEW t \in Term, ShellEnds(t)
        PROVE  ShellAccounting'
    BY <2>5, CountStep DEF ShellEnds, Counted
  <2>6. ASSUME NEW t \in Term, ForgetShell(t)
        PROVE  ShellAccounting'
    BY <2>6, CountStep DEF ForgetShell, Counted
  <2>7. ASSUME NEW t \in Term, Reap(t)
        PROVE  ShellAccounting'
    <3>1. busy' = busy
      BY <2>7 DEF Reap
    <3>2. CASE ShellMoves(t, {"open"}, "signalled")
      BY <3>1, <3>2, CountStep DEF Counted
    <3>3. CASE ShellMoves(t, {"stray"}, "abandoned")
      BY <3>1, <3>3, CountStep DEF Counted
    <3>4. QED BY <2>7, <3>2, <3>3 DEF Reap
  <2>8. ASSUME NEW t \in Term, KillArrives(t)
        PROVE  ShellAccounting'
    <3>1. busy' = busy
      BY <2>8 DEF KillArrives
    <3>2. CASE ShellMoves(t, {"open"}, "signalled")
      BY <3>1, <3>2, CountStep DEF Counted
    <3>3. CASE shell' = shell
      BY <3>1, <3>3 DEF ShellAccounting, ShellsIn
    <3>4. QED BY <2>8, <3>2, <3>3 DEF KillArrives
  <2>12. ASSUME NEW t \in Term, StrayEnds(t)
         PROVE  ShellAccounting'
    BY <2>12, CountStep DEF StrayEnds, Counted
  <2>9. CASE RunnerRestarts
    <3>1. ShellsIn(Counted)' = {} /\ busy' = 0
      BY <2>9 DEF RunnerRestarts, ShellsIn, Counted
    <3>2. QED BY <2>0, <3>1, FS_EmptySet DEF ShellAccounting
  <2>10. CASE UNCHANGED <<shell, busy>>
    BY <2>10 DEF ShellAccounting, ShellsIn
  <2>11. QED
    BY <2>1, <2>2, <2>3, <2>4, <2>5, <2>6, <2>7, <2>8, <2>9, <2>10, <2>12
       DEF ShellNext, RunnerStep, RelayStep, IdlePasses, StartArrives,
           StartAnswered, StartFails, PollArrives, PollAnswered, PollFails,
           PollUnheard, StartReplied, PollReplied, OpenShell, CloseTerminal,
           ClosePage, GatewayRestarts, runnerVars, shellVars
<1>3. QED BY <1>1, <1>2, ShellTypeCorrect, PTL DEF ShellSpec

(* Only the poll that reports the end takes a route away.                  *)
THEOREM RoutesKept == ShellSpec => ShellKeepsRoute
<1>1. ShellTypeOK /\ [ShellNext]_shellVars
        => [\A t \in Term : (t \in routes /\ t \notin routes')
              => shell[t] \notin {"open", "signalled"} \/ restarts' # restarts]_shellVars
  <2> SUFFICES ASSUME ShellTypeOK, [ShellNext]_shellVars,
                      NEW t \in Term, t \in routes, t \notin routes'
               PROVE  shell[t] \notin {"open", "signalled"} \/ restarts' # restarts
    OBVIOUS
  <2>1. ASSUME NEW u \in Term, PollAnswered(u)
        PROVE  shell[t] \notin {"open", "signalled"}
    BY <2>1 DEF PollAnswered
  <2>2. CASE GatewayRestarts
    BY <2>2, ShellAssumption DEF GatewayRestarts, ShellTypeOK, ShellAssumption
  <2>3. ASSUME NEW u \in Term, StartAnswered(u)
        PROVE  FALSE
    BY <2>3 DEF StartAnswered
  <2>4. routes' # routes
    OBVIOUS
  <2>5. QED
    BY <2>1, <2>2, <2>3, <2>4
       DEF ShellNext, RunnerStep, RelayStep, ShellStart, ShellOpens, ShellFails,
           ReaderUncounts, ShellEnds, StrayEnds, ForgetShell, Reap, KillArrives,
           RunnerRestarts, IdlePasses, StartArrives, StartFails, PollArrives,
           PollFails, PollUnheard, StartReplied, PollReplied, OpenShell,
           CloseTerminal, ClosePage, shellVars
<1>2. QED BY <1>1, ShellTypeCorrect, PTL DEF ShellSpec, ShellKeepsRoute

=============================================================================
