-------------------------- MODULE CardRacesProofs --------------------------
(***************************************************************************)
(* CardRaces for any number of processes, tickets, dispatches and faults:  *)
(* renaming whole files keeps every card sound, every card names only      *)
(* dispatches of its own ticket, and a write over a file that did not      *)
(* change is lawful, whatever overlaps and whoever dies.  With one command *)
(* at a time, in pieces beside the workers, TicketFsm is implemented.      *)
(***************************************************************************)
EXTENDS CardRaces, CardsProofs

\* A state a process may be in between two of its steps.
Good(s) ==
  /\ s \in Busy
  /\ CardOK(s.card)
  /\ NamesOwn(s.ticket, s.card)
  /\ s.pc \in {"awaits", "deps", "launch"} => CanDispatch(s.card)
  /\ \A doc \in s.docs :
       CardOK(doc.card) /\ NamesOwn(doc.ticket, doc.card) /\ CanReconcile(doc.card)

\* The inductive invariant: what a process holds is as sound as what is on
\* disk, and fit for the step that process takes next.
Inv ==
  /\ TypeOK
  /\ \A t \in Tickets : CardOK(cards[t]) /\ NamesOwn(t, cards[t])
  /\ \A p \in Procs : procs[p] # Idle => Good(procs[p])

LEMMA InitInv == Init => Inv
<1> SUFFICES ASSUME Init PROVE Inv
  OBVIOUS
<1>1. TypeOK
  BY NewCardOK DEF Init, TypeOK
<1>2. \A t \in Tickets : NamesOwn(t, NewCard)
  BY DEF NamesOwn, Ours, NewCard, NoResult
<1> QED BY <1>1, <1>2, NewCardOK DEF Init, Inv

-----------------------------------------------------------------------------
(* Names are inherited by a command's card, and survive new dispatches.     *)

LEMMA NamesInherited ==
  ASSUME NEW t, NEW c, NEW w, NamesOwn(t, c),
         w.dispatchId \in {c.dispatchId, Nil}, w.result \in {c.result, NoResult}
  PROVE  NamesOwn(t, w)
<1>1. NoResult.by = Nil
  BY DEF NoResult
<1> QED BY <1>1 DEF NamesOwn, Ours

LEMMA NamesSurvive ==
  ASSUME Dispatches \subseteq Dispatches',
         \A d \in Dispatches : workers'[d].ticket = workers[d].ticket
  PROVE  /\ \A t, c : NamesOwn(t, c) => NamesOwn(t, c)'
         /\ \A s : Good(s) => Good(s)'
<1>1. ASSUME NEW t, NEW c, NamesOwn(t, c) PROVE NamesOwn(t, c)'
  BY <1>1 DEF NamesOwn, Ours
<1>2. ASSUME NEW s, Good(s) PROVE Good(s)'
  BY <1>1, <1>2 DEF Good
<1> QED BY <1>1, <1>2

\* A process moves on to a good state while the disk stays as it is.
LEMMA MovesOn ==
  ASSUME Inv, NEW p \in Procs, NEW s, s = Idle \/ Good(s), Becomes(p, s),
         fresh' \in [Procs -> SUBSET Tickets], UNCHANGED <<cards, workers>>
  PROVE  Inv'
<1>1. s \in Busy \cup {Idle}
  BY DEF Good
<1>2. TypeOK'
  BY <1>1 DEF Inv, TypeOK, Becomes
<1>3. Dispatches' = Dispatches
  BY DEF Dispatches
<1>4. \A t \in Tickets : NamesOwn(t, cards[t]) => NamesOwn(t, cards[t])'
  BY <1>3 DEF NamesOwn, Ours
<1>5. \A r : Good(r) => Good(r)'
  BY <1>3, NamesSurvive
<1>6. \A q \in Procs : procs'[q] = IF q = p THEN s ELSE procs[q]
  BY DEF Inv, TypeOK, Becomes
<1>7. ASSUME NEW q \in Procs, procs'[q] # Idle PROVE Good(procs[q])'
  BY <1>5, <1>6, <1>7 DEF Inv
<1> QED BY <1>2, <1>4, <1>7 DEF Inv

\* A sound card replaces the file of t; the processes are in good states.
LEMMA Replaces ==
  ASSUME Inv, NEW t \in Tickets, NEW w \in Card, CardOK(w), NamesOwn(t, w),
         Rename(t, w), UNCHANGED workers,
         procs' \in [Procs -> Busy \cup {Idle}],
         fresh' \in [Procs -> SUBSET Tickets],
         \A q \in Procs : procs'[q] # Idle => \E s : s = procs'[q] /\ Good(s)
  PROVE  Inv'
<1>1. TypeOK'
  BY DEF Inv, TypeOK, Rename
<1>2. Dispatches' = Dispatches
  BY DEF Dispatches
<1>3. \A u \in Tickets : cards'[u] = IF u = t THEN w ELSE cards[u]
  BY DEF Inv, TypeOK, Rename
<1>4. (\A u, c : NamesOwn(u, c) => NamesOwn(u, c)') /\ (\A s : Good(s) => Good(s)')
  BY <1>2, NamesSurvive
<1>5. ASSUME NEW u \in Tickets PROVE CardOK(cards'[u]) /\ NamesOwn(u, cards[u])'
  BY <1>3, <1>4 DEF Inv, NamesOwn, Ours
<1>6. ASSUME NEW q \in Procs, procs'[q] # Idle PROVE Good(procs[q])'
  BY <1>4, <1>6
<1> QED BY <1>1, <1>5, <1>6 DEF Inv

-----------------------------------------------------------------------------
(* One lemma for each kind of step.                                         *)

\* A command on one card only has to edit the copy it read soundly.
LEMMA EditKeepsInv ==
  ASSUME Inv, NEW p \in Procs, NEW t \in Tickets, NEW command \in Transition,
         NEW allowed, NEW w \in Card, Edit(p, command, t, allowed, w),
         CardOK(w), NamesOwn(t, w)
  PROVE  Inv'
<1> DEFINE s == [pc |-> "write", command |-> command, ticket |-> t, card |-> w,
                 gates |-> {}, docs |-> {}]
<1>1. s \in Busy
  BY DEF Busy
<1>2. Good(s)
  BY <1>1 DEF Good
<1>3. Becomes(p, s) /\ UNCHANGED <<cards, workers>>
  BY DEF Edit
<1>4. fresh' \in [Procs -> SUBSET Tickets]
  BY DEF Edit, Inv, TypeOK
<1> HIDE DEF s
<1> QED BY <1>2, <1>3, <1>4, MovesOn

\* What one command on a card, reconcile included, may make of it.
EditStep(c, w) ==
  \/ c.status = "dispatched" /\ (Reconciles(c, w) \/ Moves(c, w, "open"))
  \/ /\ c.status \in {"failed", "blocked", "done"}
     /\ w.status = "open" /\ Keeps(c, w)
     /\ w.attempts = IF c.status = "failed" THEN c.attempts + 1 ELSE c.attempts
  \/ c.status \in {"open", "failed"} /\ Moves(c, w, "blocked")
  \/ c.status \in {"open", "failed", "done"} /\ Moves(c, w, "closed")

LEMMA CommandEdits ==
  ASSUME Inv, NEW p \in Procs, NEW t \in Tickets,
         \/ Complete(p, t) \/ Fail(p, t) \/ Cancel(p, t)
         \/ Reopen(p, t) \/ Block(p, t) \/ Close(p, t)
  PROVE  \E command \in Transition, w \in Card :
           Edit(p, command, t, TRUE, w) /\ CardOK(w) /\ EditStep(cards[t], w)
<1> DEFINE c == cards[t]
<1>1. c \in Card /\ CardOK(c)
  BY DEF Inv, TypeOK
<1> HIDE DEF c
<1>2. CASE Complete(p, t)
  <2>1. CanComplete(c) /\ Edit(p, "complete", t, TRUE, CompleteCard(c))
    BY <1>2 DEF Complete, Edit, c
  <2>2. /\ CompleteCard(c) \in Card /\ CardOK(CompleteCard(c))
        /\ EditStep(c, CompleteCard(c))
    BY <1>1, <2>1, CompleteKeepsCardOK DEF CanComplete, EditStep, Reconciles
  <2> QED BY <2>1, <2>2 DEF Transition, c
<1>3. CASE Fail(p, t)
  <2>1. CanFail(c) /\ Edit(p, "fail", t, TRUE, FailCard(c))
    BY <1>3 DEF Fail, Edit, c
  <2>2. /\ FailCard(c) \in Card /\ CardOK(FailCard(c))
        /\ EditStep(c, FailCard(c))
    BY <1>1, <2>1, FailKeepsCardOK DEF CanFail, EditStep, Reconciles
  <2> QED BY <2>1, <2>2 DEF Transition, c
<1>4. CASE Cancel(p, t)
  <2>1. CanCancel(c) /\ Edit(p, "cancel", t, TRUE, CancelCard(c))
    BY <1>4 DEF Cancel, Edit, c
  <2>2. /\ CancelCard(c) \in Card /\ CardOK(CancelCard(c))
        /\ EditStep(c, CancelCard(c))
    BY <1>1, <2>1, CancelKeepsCardOK DEF CanCancel, EditStep
  <2> QED BY <2>1, <2>2 DEF Transition, c
<1>5. CASE Reopen(p, t)
  <2>1. CanReopen(c) /\ Edit(p, "reopen", t, TRUE, ReopenCard(c))
    BY <1>5 DEF Reopen, Edit, c
  <2>2. c.status \in {"failed", "blocked", "done"}
    BY <1>1, <2>1, WhereApplies DEF CanReopen, Card
  <2>3. /\ ReopenCard(c) \in Card /\ CardOK(ReopenCard(c))
        /\ EditStep(c, ReopenCard(c))
    BY <1>1, <2>1, <2>2, ReopenKeepsCardOK DEF EditStep
  <2> QED BY <2>1, <2>3 DEF Transition, c
<1>6. CASE Block(p, t)
  <2>1. CanBlock(c) /\ Edit(p, "block", t, TRUE, BlockCard(c))
    BY <1>6 DEF Block, Edit, c
  <2>2. /\ BlockCard(c) \in Card /\ CardOK(BlockCard(c))
        /\ EditStep(c, BlockCard(c))
    BY <1>1, <2>1, BlockKeepsCardOK DEF CanBlock, EditStep
  <2> QED BY <2>1, <2>2 DEF Transition, c
<1>7. CASE Close(p, t)
  <2>1. CanClose(c) /\ Edit(p, "close", t, TRUE, CloseCard(c))
    BY <1>7 DEF Close, Edit, c
  <2>2. c.status \in {"open", "failed", "done"}
    BY <1>1, <2>1, WhereApplies DEF CanClose, Card
  <2>3. /\ CloseCard(c) \in Card /\ CardOK(CloseCard(c))
        /\ EditStep(c, CloseCard(c))
    BY <1>1, <2>1, <2>2, CloseKeepsCardOK DEF EditStep
  <2> QED BY <2>1, <2>3 DEF Transition, c
<1> QED BY <1>2, <1>3, <1>4, <1>5, <1>6, <1>7

LEMMA CommandKeepsInv ==
  ASSUME Inv, NEW p \in Procs, NEW t \in Tickets,
         \/ Complete(p, t) \/ Fail(p, t) \/ Cancel(p, t)
         \/ Reopen(p, t) \/ Block(p, t) \/ Close(p, t)
  PROVE  Inv'
<1>1. PICK command \in Transition, w \in Card :
        Edit(p, command, t, TRUE, w) /\ CardOK(w) /\ EditStep(cards[t], w)
  BY CommandEdits
<1>2. w.dispatchId \in {cards[t].dispatchId, Nil} /\ w.result \in {cards[t].result, NoResult}
  BY <1>1 DEF EditStep, Reconciles, Moves, Keeps, CardOK, DispatchFieldsMatchStatus
<1>3. NamesOwn(t, w)
  BY <1>2, NamesInherited DEF Inv
<1> QED BY <1>1, <1>3, EditKeepsInv

LEMMA StopsKeepsInv ==
  ASSUME Inv, NEW p \in Procs, Stops(p), UNCHANGED <<cards, workers>>
  PROVE  Inv'
<1>1. Becomes(p, Idle) /\ fresh' \in [Procs -> SUBSET Tickets]
  BY DEF Stops, Inv, TypeOK
<1> QED BY <1>1, MovesOn

LEMMA StartDispatchKeepsInv ==
  ASSUME Inv, NEW p \in Procs, NEW t \in Tickets, StartDispatch(p, t)
  PROVE  Inv'
<1> DEFINE s == [pc |-> "awaits", command |-> "dispatch", ticket |-> t,
                 card |-> cards[t], gates |-> Awaits[t], docs |-> {}]
<1>1. cards[t] \in Card /\ CardOK(cards[t]) /\ NamesOwn(t, cards[t])
  BY DEF Inv, TypeOK
<1>2. s \in Busy
  BY <1>1, DependenciesAssumption DEF Busy, Transition
<1>3. Good(s)
  BY <1>1, <1>2 DEF Good, StartDispatch
<1>4. Becomes(p, s) /\ UNCHANGED <<cards, workers>>
  BY DEF StartDispatch
<1>5. fresh' \in [Procs -> SUBSET Tickets]
  BY DEF StartDispatch, Inv, TypeOK
<1> HIDE DEF s
<1> QED BY <1>3, <1>4, <1>5, MovesOn

LEMMA GateKeepsInv ==
  ASSUME Inv, NEW p \in Procs, ReadAwaited(p) \/ ReadDependency(p)
  PROVE  Inv'
<1> DEFINE c == procs[p]
<1>1. c # Idle /\ Good(c) /\ c.pc \in {"awaits", "deps"}
  BY DEF ReadAwaited, ReadDependency, Gate, Is, Inv
<1>2. c \in Busy /\ DependsOn[c.ticket] \subseteq Tickets
  BY <1>1, DependenciesAssumption DEF Good, Busy
<1>3. UNCHANGED <<cards, workers>>
  BY DEF ReadAwaited, ReadDependency, Gate
<1>4. \/ Stops(p)
      \/ /\ UNCHANGED fresh
         /\ \/ \E g \in c.gates : Becomes(p, [c EXCEPT !.gates = @ \ {g}])
            \/ Becomes(p, [c EXCEPT !.pc = "deps", !.gates = DependsOn[c.ticket]])
            \/ Becomes(p, [c EXCEPT !.pc = "launch", !.gates = {}])
  BY DEF ReadAwaited, ReadDependency, Gate
<1> HIDE DEF c
<1>5. ASSUME NEW pc \in {"awaits", "deps", "launch"}, NEW gates \in SUBSET Tickets
      PROVE  Good([c EXCEPT !.pc = pc, !.gates = gates])
  BY <1>1, <1>2 DEF Good, Busy
<1>6. ASSUME NEW gates \in SUBSET Tickets PROVE Good([c EXCEPT !.gates = gates])
  BY <1>1, <1>2 DEF Good, Busy
<1>7. c.gates \subseteq Tickets /\ fresh \in [Procs -> SUBSET Tickets]
  BY <1>2 DEF Busy, Inv, TypeOK
<1>8. CASE Stops(p)
  BY <1>3, <1>8, StopsKeepsInv
<1>9. CASE /\ UNCHANGED fresh
           /\ \E g \in c.gates : Becomes(p, [c EXCEPT !.gates = @ \ {g}])
  <2>1. PICK g \in c.gates : Becomes(p, [c EXCEPT !.gates = c.gates \ {g}])
    BY <1>9
  <2>2. Good([c EXCEPT !.gates = c.gates \ {g}])
    BY <1>6, <1>7
  <2> QED BY <1>3, <1>7, <1>9, <2>1, <2>2, MovesOn
<1>10. CASE /\ UNCHANGED fresh
            /\ \/ Becomes(p, [c EXCEPT !.pc = "deps", !.gates = DependsOn[c.ticket]])
               \/ Becomes(p, [c EXCEPT !.pc = "launch", !.gates = {}])
  BY <1>2, <1>3, <1>5, <1>7, <1>10, MovesOn
<1> QED BY <1>4, <1>8, <1>9, <1>10

\* The new dispatch belongs to the ticket whose copy is about to name it.
LEMMA LaunchKeepsInv ==
  ASSUME Inv, NEW p \in Procs, LaunchWorker(p)
  PROVE  Inv'
<1>1. PICK c \in Busy : c = procs[p] /\ Good(c) /\ c.pc = "launch"
  BY DEF LaunchWorker, Is, Inv, Good
<1>2. PICK t \in Tickets : t = c.ticket
  BY DEF Busy
<1>3. c.card \in Card /\ CanDispatch(c.card)
  BY <1>1 DEF Good, Busy
<1>4. Launch(t) /\ UNCHANGED <<cards, fresh>> /\ workers \in Seq(Worker)
  BY <1>1, <1>2 DEF LaunchWorker, Inv, TypeOK
<1>5. /\ workers' \in Seq(Worker)
      /\ Dispatches' = Dispatches \cup {NextDispatch}
      /\ NextDispatch \in DispatchId
      /\ \A d \in Dispatches : workers'[d] = workers[d]
      /\ workers'[NextDispatch].ticket = t
  BY <1>4, LaunchAppends
<1>6. (\A u, x : NamesOwn(u, x) => NamesOwn(u, x)') /\ (\A r : Good(r) => Good(r)')
  BY <1>5, NamesSurvive
<1>7. PICK session \in BOOLEAN :
        Becomes(p, [c EXCEPT !.pc = "write",
                             !.card = DispatchCard(c.card, NextDispatch, session)])
  BY <1>1 DEF LaunchWorker
<1>8. /\ DispatchCard(c.card, NextDispatch, session) \in Card
      /\ CardOK(DispatchCard(c.card, NextDispatch, session))
      /\ Moves(c.card, DispatchCard(c.card, NextDispatch, session), "dispatched")
      /\ DispatchCard(c.card, NextDispatch, session).dispatchId = NextDispatch
  BY <1>1, <1>3, <1>5, DispatchKeepsCardOK DEF Good
<1>9. PICK w \in Card : w = DispatchCard(c.card, NextDispatch, session)
  BY <1>8
<1>10. /\ CardOK(w) /\ w.dispatchId = NextDispatch
       /\ w.result \in {c.card.result, NoResult}
  BY <1>8, <1>9 DEF Moves, Keeps
<1> DEFINE s == [c EXCEPT !.pc = "write", !.card = w]
<1>11. s \in Busy
  BY DEF Busy
<1>12. s.pc = "write" /\ s.card = w /\ s.ticket = t /\ s.docs = c.docs
  BY <1>2 DEF Busy
<1>13. Becomes(p, s)
  BY <1>7, <1>9
<1> HIDE DEF s
<1>14. Good(s)'
  <2>1. Ours(t, w.dispatchId)'
    BY <1>5, <1>10 DEF Ours
  <2>2. Ours(t, c.card.result.by)'
    BY <1>1, <1>2, <1>6 DEF Good, NamesOwn
  <2>3. Ours(t, NoResult.by)'
    BY DEF Ours, NoResult
  <2>4. Ours(t, w.result.by)'
    BY <1>10, <2>2, <2>3
  <2>5. \A doc \in c.docs :
          (CardOK(doc.card) /\ NamesOwn(doc.ticket, doc.card) /\ CanReconcile(doc.card))'
    BY <1>1, <1>6 DEF Good
  <2> QED BY <1>10, <1>11, <1>12, <2>1, <2>4, <2>5 DEF Good, NamesOwn
<1>15. \A q \in Procs : procs'[q] = IF q = p THEN s ELSE procs[q]
  BY <1>13 DEF Inv, TypeOK, Becomes
<1>16. TypeOK'
  BY <1>4, <1>5, <1>11, <1>13 DEF Inv, TypeOK, Becomes
<1>17. \A u \in Tickets : (CardOK(cards[u]) /\ NamesOwn(u, cards[u]))'
  BY <1>4, <1>6 DEF Inv
<1>18. ASSUME NEW q \in Procs, procs'[q] # Idle PROVE Good(procs[q])'
  BY <1>6, <1>14, <1>15, <1>18 DEF Inv
<1> QED BY <1>16, <1>17, <1>18 DEF Inv

LEMMA StartReconcileKeepsInv ==
  ASSUME Inv, NEW p \in Procs, StartReconcile(p)
  PROVE  Inv'
<1> DEFINE dispatched == {t \in Tickets : CanReconcile(cards[t])}
           docs == {[ticket |-> u, card |-> cards[u]] : u \in dispatched}
           s(t) == [pc |-> "scan", command |-> "reconcile", ticket |-> t,
                    card |-> cards[t], gates |-> {}, docs |-> docs]
<1>1. PICK t \in dispatched : Becomes(p, s(t))
  BY DEF StartReconcile
<1>2. \A u \in Tickets : cards[u] \in Card /\ CardOK(cards[u]) /\ NamesOwn(u, cards[u])
  BY DEF Inv, TypeOK
<1>3. \A doc \in docs :
        /\ doc \in Doc
        /\ CardOK(doc.card) /\ NamesOwn(doc.ticket, doc.card) /\ CanReconcile(doc.card)
  BY <1>2 DEF Doc
<1> HIDE DEF docs
<1>4. s(t) \in Busy
  BY <1>2, <1>3 DEF Busy
<1>5. Good(s(t))
  BY <1>2, <1>3, <1>4 DEF Good
<1>6. fresh' \in [Procs -> SUBSET Tickets] /\ UNCHANGED <<cards, workers>>
  BY DEF StartReconcile, Inv, TypeOK
<1> HIDE DEF s
<1> QED BY <1>1, <1>5, <1>6, MovesOn

LEMMA AskKeepsInv ==
  ASSUME Inv, NEW p \in Procs, Ask(p)
  PROVE  Inv'
<1> DEFINE c == procs[p]
<1>1. c # Idle /\ Good(c)
  BY DEF Ask, Is, Inv
<1>2. PICK doc \in c.docs : \E answer \in StatusAnswers(doc.card.dispatchId) :
        Becomes(p, [c EXCEPT
          !.pc = IF ReconcileWrites(doc.card, answer) THEN "write" ELSE "scan",
          !.ticket = doc.ticket,
          !.card = ReconcileCard(doc.card, answer),
          !.docs = c.docs \ {doc}])
  BY DEF Ask
<1>0. PICK answer \in StatusAnswers(doc.card.dispatchId) :
        Becomes(p, [c EXCEPT
          !.pc = IF ReconcileWrites(doc.card, answer) THEN "write" ELSE "scan",
          !.ticket = doc.ticket,
          !.card = ReconcileCard(doc.card, answer),
          !.docs = c.docs \ {doc}])
  BY <1>2
<1> DEFINE w == ReconcileCard(doc.card, answer)
           pc == IF ReconcileWrites(doc.card, answer) THEN "write" ELSE "scan"
           s == [c EXCEPT !.pc = pc, !.ticket = doc.ticket, !.card = w,
                          !.docs = c.docs \ {doc}]
<1>3. answer \in Answer
  BY AnswersAreAnswers
<1>4. c \in Busy /\ doc \in Doc /\ doc.card \in Card /\ doc.ticket \in Tickets
  BY <1>1 DEF Good, Busy, Doc
<1>5. CardOK(doc.card) /\ NamesOwn(doc.ticket, doc.card) /\ CanReconcile(doc.card)
  BY <1>1 DEF Good
<1>6. w \in Card /\ CardOK(w) /\ Reconciles(doc.card, w)
  BY <1>3, <1>4, <1>5, ReconcileKeepsCardOK
<1>7. NamesOwn(doc.ticket, w)
  <2>1. w.dispatchId \in {doc.card.dispatchId, Nil} /\ w.result \in {doc.card.result, NoResult}
    BY <1>6 DEF Reconciles, Moves, Keeps
  <2> QED BY <1>5, <2>1, NamesInherited
<1>8. UNCHANGED <<cards, workers>> /\ fresh' \in [Procs -> SUBSET Tickets]
  BY DEF Ask, Inv, TypeOK
<1>9. Becomes(p, s)
  BY <1>0
<1>10. pc \in {"write", "scan"}
  OBVIOUS
<1> HIDE DEF w, pc, c
<1>11. s \in Busy
  BY <1>4, <1>6, <1>10 DEF Busy
<1>12. /\ s.pc = pc /\ s.card = w /\ s.ticket = doc.ticket
       /\ s.docs = c.docs \ {doc}
  BY <1>4 DEF Busy
<1> HIDE DEF s
<1>13. Good(s)
  BY <1>1, <1>6, <1>7, <1>10, <1>11, <1>12 DEF Good
<1> QED BY <1>8, <1>9, <1>13, MovesOn

LEMMA WriteKeepsInv ==
  ASSUME Inv, NEW p \in Procs, Write(p)
  PROVE  Inv'
<1> DEFINE c == procs[p]
           s == IF c.docs = {} THEN Idle ELSE [c EXCEPT !.pc = "scan"]
<1>1. c # Idle /\ Good(c)
  BY DEF Write, Is, Inv
<1>2. c \in Busy /\ c.ticket \in Tickets /\ c.card \in Card
      /\ CardOK(c.card) /\ NamesOwn(c.ticket, c.card)
  BY <1>1 DEF Good, Busy
<1>3. Rename(c.ticket, c.card) /\ Becomes(p, s) /\ UNCHANGED workers
  BY DEF Write
<1>4. fresh' \in [Procs -> SUBSET Tickets]
  BY DEF Write, Outdated, Inv, TypeOK
<1> HIDE DEF c
<1>5. s = Idle \/ Good(s)
  BY <1>1, <1>2 DEF Good, Busy
<1>6. s \in Busy \cup {Idle}
  BY <1>5 DEF Good
<1> HIDE DEF s
<1>7. /\ procs' \in [Procs -> Busy \cup {Idle}]
      /\ \A q \in Procs : procs'[q] = IF q = p THEN s ELSE procs[q]
  BY <1>3, <1>6 DEF Inv, TypeOK, Becomes
<1>8. \A q \in Procs : procs'[q] # Idle => \E r : r = procs'[q] /\ Good(r)
  BY <1>5, <1>7 DEF Inv
<1> QED BY <1>2, <1>3, <1>4, <1>7, <1>8, Replaces

LEMMA WorkerKeepsInv ==
  ASSUME Inv, NEW d \in Dispatches, WorkerWrites(d) \/ WorkerEnds(d)
  PROVE  Inv'
<1> DEFINE t == workers[d].ticket
<1>0. workers \in Seq(Worker)
  BY DEF Inv, TypeOK
<1>1. CASE WorkerWrites(d)
  <2>1. TextsOf(d) \subseteq Text /\ t \in Tickets
    BY <1>0, TextsAreTexts
  <2>2. PICK text \in TextsOf(d) :
          Rename(t, [cards[t] EXCEPT !.result = text]) /\ fresh' = Outdated(t)
    BY <1>1 DEF WorkerWrites
  <2> DEFINE c == cards[t]
             w == [c EXCEPT !.result = text]
  <2>3. c \in Card /\ CardOK(c) /\ NamesOwn(t, c)
    BY <2>1 DEF Inv, TypeOK
  <2>4. text.by = d /\ text \in Text
    BY <2>1 DEF TextsOf
  <2> HIDE DEF c
  <2>5. w \in Card /\ CardOK(w)
    BY <2>3, <2>4, ResultKeepsCardOK
  <2>6. w.dispatchId = c.dispatchId /\ w.result = text
    BY <2>3 DEF Card
  <2>7. NamesOwn(t, w)
    BY <2>3, <2>4, <2>6 DEF NamesOwn, Ours
  <2>8. fresh' \in [Procs -> SUBSET Tickets] /\ UNCHANGED <<workers, procs>>
    BY <1>1, <2>2 DEF WorkerWrites, Outdated, Inv, TypeOK
  <2>9. \A q \in Procs : procs'[q] # Idle => \E s : s = procs'[q] /\ Good(s)
    BY <2>8 DEF Inv
  <2>10. procs' \in [Procs -> Busy \cup {Idle}]
    BY <2>8 DEF Inv, TypeOK
  <2>11. Rename(t, w)
    BY <2>2 DEF c
  <2> HIDE DEF w, t
  <2> QED BY <2>1, <2>5, <2>7, <2>8, <2>9, <2>10, <2>11, Replaces
<1>2. CASE WorkerEnds(d)
  <2>1. /\ workers' \in Seq(Worker) /\ Dispatches' = Dispatches
        /\ \A e \in Dispatches : workers'[e].ticket = workers[e].ticket
        /\ UNCHANGED <<cards, procs, fresh>>
    BY <1>0, <1>2, EndSteps DEF WorkerEnds
  <2>2. (\A u, x : NamesOwn(u, x) => NamesOwn(u, x)') /\ (\A r : Good(r) => Good(r)')
    BY <2>1, NamesSurvive
  <2>3. TypeOK'
    BY <2>1 DEF Inv, TypeOK
  <2>4. \A u \in Tickets : (CardOK(cards[u]) /\ NamesOwn(u, cards[u]))'
    BY <2>1, <2>2 DEF Inv
  <2>5. \A q \in Procs : (procs[q] # Idle => Good(procs[q]))'
    BY <2>1, <2>2 DEF Inv
  <2> QED BY <2>3, <2>4, <2>5 DEF Inv
<1> QED BY <1>1, <1>2

-----------------------------------------------------------------------------
LEMMA NextInv == Inv /\ [Next]_vars => Inv'
<1> SUFFICES ASSUME Inv, [Next]_vars PROVE Inv'
  OBVIOUS
<1>1. ASSUME NEW p \in Procs, Process(p) PROVE Inv'
  <2>1. CASE \E t \in Tickets :
               \/ Complete(p, t) \/ Fail(p, t) \/ Cancel(p, t)
               \/ Reopen(p, t) \/ Block(p, t) \/ Close(p, t)
    BY <2>1, CommandKeepsInv
  <2>2. CASE \E t \in Tickets : StartDispatch(p, t)
    BY <2>2, StartDispatchKeepsInv
  <2>3. CASE ReadAwaited(p) \/ ReadDependency(p)
    BY <2>3, GateKeepsInv
  <2>4. CASE LaunchWorker(p)
    BY <2>4, LaunchKeepsInv
  <2>5. CASE StartReconcile(p)
    BY <2>5, StartReconcileKeepsInv
  <2>6. CASE Ask(p)
    BY <2>6, AskKeepsInv
  <2>7. CASE ReconcileEnds(p) \/ Dies(p)
    BY <2>7, StopsKeepsInv DEF ReconcileEnds, Dies
  <2>8. CASE Write(p)
    BY <2>8, WriteKeepsInv
  <2> QED BY <1>1, <2>1, <2>2, <2>3, <2>4, <2>5, <2>6, <2>7, <2>8 DEF Process
<1>2. ASSUME NEW d \in Dispatches, WorkerWrites(d) \/ WorkerEnds(d) PROVE Inv'
  BY <1>2, WorkerKeepsInv
<1>3. CASE UNCHANGED vars
  <2>1. Dispatches' = Dispatches
    BY <1>3 DEF vars, Dispatches
  <2>2. (\A u, x : NamesOwn(u, x) => NamesOwn(u, x)') /\ (\A r : Good(r) => Good(r)')
    BY <1>3, <2>1, NamesSurvive DEF vars
  <2> QED BY <1>3, <2>2 DEF vars, Inv, TypeOK
<1> QED BY <1>1, <1>2, <1>3 DEF Next

\* The types of everything on disk and in the processes.
THEOREM RacesTypeOK == Spec => []TypeOK
<1>1. Inv => TypeOK
  BY DEF Inv
<1> QED BY InitInv, NextInv, <1>1, PTL DEF Spec

\* No interleaving and no crash leaves a card on disk, or in a process, that
\* a command could not have written.
THEOREM RacesCardsOK == Spec => []CardsOK
<1>1. Inv => CardsOK
  BY DEF Inv, CardsOK, Good
<1> QED BY InitInv, NextInv, <1>1, PTL DEF Spec

\* A dispatch, and the author of a Result, is always one of the ticket's own.
THEOREM RacesNameOwnDispatches == Spec => []CardsNameOwnDispatches
<1>1. Inv => CardsNameOwnDispatches
  BY DEF Inv, CardsNameOwnDispatches, Good
<1> QED BY InitInv, NextInv, <1>1, PTL DEF Spec

-----------------------------------------------------------------------------
(* Fresh copies: what a write makes of a file nobody else has written since. *)

StartStep(c, w) == c.status = "open" /\ Moves(c, w, "dispatched")

\* Every edit is an edge of the table of transitions, and keeps what workers
\* wrote.
LEMMA StepsAreLawful ==
  ASSUME NEW c \in Card, NEW w, EditStep(c, w) \/ StartStep(c, w)
  PROVE  Lawful(c, w) /\ Kept(c, w)
<1>1. Kept(c, w)
  BY DEF EditStep, StartStep, Reconciles, Moves, Keeps, Kept
<1>2. ASSUME NEW t \in Transition, Applies(c.status, t),
             Apply(c.status, t).to = w.status,
             "incrementAttempts" \notin Apply(c.status, t).flags,
             w.attempts = c.attempts
      PROVE  Lawful(c, w)
  BY <1>2 DEF Lawful, If
<1>3. c.status \in Status /\ c.attempts \in Nat
  BY DEF Card
<1>4. CASE StartStep(c, w)
  <2>1. /\ Applies(c.status, "dispatch") /\ Apply(c.status, "dispatch").to = "dispatched"
        /\ "incrementAttempts" \notin Apply(c.status, "dispatch").flags
    BY <1>3, <1>4, WhereApplies, Table DEF StartStep, Definition
  <2> QED BY <1>1, <1>2, <1>4, <2>1 DEF StartStep, Moves, Transition
<1>5. CASE c.status = "dispatched" /\ Moves(c, w, "dispatched")
  BY <1>1, <1>5 DEF Moves, Lawful
<1>6. CASE c.status = "dispatched" /\ Moves(c, w, "done")
  <2>1. /\ Applies(c.status, "complete") /\ Apply(c.status, "complete").to = "done"
        /\ "incrementAttempts" \notin Apply(c.status, "complete").flags
    BY <1>6, WhereApplies, Table DEF Definition, Status
  <2> QED BY <1>1, <1>2, <1>6, <2>1 DEF Moves, Transition
<1>7. CASE c.status = "dispatched" /\ Moves(c, w, "open")
  <2>1. /\ Applies(c.status, "cancel") /\ Apply(c.status, "cancel").to = "open"
        /\ "incrementAttempts" \notin Apply(c.status, "cancel").flags
    BY <1>7, WhereApplies, Table DEF Definition, Status
  <2> QED BY <1>1, <1>2, <1>7, <2>1 DEF Moves, Transition
<1>8. CASE /\ c.status = "dispatched"
           /\ Moves(c, w, IF c.attempts + 1 < MaxRetry THEN "failed" ELSE "blocked")
  <2>1. /\ Applies(c.status, "fail") /\ Apply(c.status, "fail").to = "failed"
        /\ "incrementAttempts" \notin Apply(c.status, "fail").flags
    BY <1>8, WhereApplies, Table DEF Definition, Status
  <2>2. ShouldAutoBlock(c.attempts) <=> ~(c.attempts + 1 < MaxRetry)
    BY <1>3, MaxRetryPositive DEF ShouldAutoBlock
  <2>3. "fail" \in Transition
    BY DEF Transition
  <2> QED BY <1>1, <1>8, <2>1, <2>2, <2>3 DEF Lawful, If, Moves
<1>9. CASE /\ c.status \in {"failed", "blocked", "done"} /\ w.status = "open"
           /\ w.attempts = IF c.status = "failed" THEN c.attempts + 1 ELSE c.attempts
  <2>1. /\ Applies(c.status, "reopen") /\ Apply(c.status, "reopen").to = "open"
        /\ "incrementAttempts" \in Apply(c.status, "reopen").flags <=> c.status = "failed"
    BY <1>9, WhereApplies, Table DEF Definition, Status
  <2>2. "reopen" \in Transition
    BY DEF Transition
  <2> QED BY <1>1, <1>9, <2>1, <2>2 DEF Lawful, If
<1>10. CASE c.status \in {"open", "failed"} /\ Moves(c, w, "blocked")
  <2>1. /\ Applies(c.status, "block") /\ Apply(c.status, "block").to = "blocked"
        /\ "incrementAttempts" \notin Apply(c.status, "block").flags
    BY <1>10, WhereApplies, Table DEF Definition, Status
  <2> QED BY <1>1, <1>2, <1>10, <2>1 DEF Moves, Transition
<1>11. CASE c.status \in {"open", "failed", "done"} /\ Moves(c, w, "closed")
  <2>1. /\ Applies(c.status, "close") /\ Apply(c.status, "close").to = "closed"
        /\ "incrementAttempts" \notin Apply(c.status, "close").flags
    BY <1>11, WhereApplies, Table DEF Definition, Status
  <2> QED BY <1>1, <1>2, <1>11, <2>1 DEF Moves, Transition
<1> QED
  BY <1>1, <1>4, <1>5, <1>6, <1>7, <1>8, <1>9, <1>10, <1>11 DEF EditStep, Reconciles

\* What a process holds of ticket t, when c is what the file of t has: the
\* copy it read, or what one command makes of it.
Agrees(s, t, c) ==
  /\ s.ticket = t /\ s.pc \in {"awaits", "deps", "launch"} => s.card = c
  /\ s.ticket = t /\ s.pc = "write" => Lawful(c, s.card) /\ Kept(c, s.card)
  /\ \A doc \in s.docs : doc.ticket = t => doc.card = c

\* The history variable says what it is meant to say: as long as nobody else
\* has written the card of t, the copy of a process is still right.
FreshCopiesAgree ==
  \A p \in Procs : procs[p] # Idle =>
    \A t \in fresh[p] : Agrees(procs[p], t, cards[t])

\* A process moves on, with copies that agree.
LEMMA FreshMovesOn ==
  ASSUME Inv, FreshCopiesAgree, NEW p \in Procs, NEW s, Becomes(p, s), UNCHANGED cards,
         \A q \in Procs \ {p} : fresh'[q] = fresh[q],
         s = Idle \/ \A t \in fresh'[p] : Agrees(s, t, cards[t])
  PROVE  FreshCopiesAgree'
<1>1. \A q \in Procs : procs'[q] = IF q = p THEN s ELSE procs[q]
  BY DEF Inv, TypeOK, Becomes
<1> QED BY <1>1 DEF FreshCopiesAgree

\* A file is replaced: no process has a fresh copy of it any more, and none
\* comes to hold anything new of another.
LEMMA FreshReplaces ==
  ASSUME Inv, FreshCopiesAgree, NEW t \in Tickets, NEW w, Rename(t, w),
         \A q \in Procs : fresh'[q] \subseteq fresh[q] \ {t},
         \A q \in Procs : procs'[q] # Idle =>
           /\ procs[q] # Idle
           /\ \A u, c : Agrees(procs[q], u, c) => Agrees(procs'[q], u, c)
  PROVE  FreshCopiesAgree'
<1>1. \A u \in Tickets \ {t} : cards'[u] = cards[u]
  BY DEF Inv, TypeOK, Rename
<1>2. \A q \in Procs : fresh[q] \subseteq Tickets
  BY DEF Inv, TypeOK
<1> QED BY <1>1, <1>2 DEF FreshCopiesAgree

LEMMA FreshStops ==
  ASSUME Inv, FreshCopiesAgree, NEW p \in Procs, Stops(p), UNCHANGED cards
  PROVE  FreshCopiesAgree'
<1>1. Becomes(p, Idle) /\ \A q \in Procs \ {p} : fresh'[q] = fresh[q]
  BY DEF Stops, Inv, TypeOK
<1> QED BY <1>1, FreshMovesOn

LEMMA FreshCommand ==
  ASSUME Inv, FreshCopiesAgree, NEW p \in Procs, NEW t \in Tickets,
         \/ Complete(p, t) \/ Fail(p, t) \/ Cancel(p, t)
         \/ Reopen(p, t) \/ Block(p, t) \/ Close(p, t)
  PROVE  FreshCopiesAgree'
<1>1. PICK command \in Transition, w \in Card :
        Edit(p, command, t, TRUE, w) /\ EditStep(cards[t], w)
  BY CommandEdits
<1> DEFINE s == [pc |-> "write", command |-> command, ticket |-> t, card |-> w,
                 gates |-> {}, docs |-> {}]
<1>2. /\ Becomes(p, s) /\ UNCHANGED cards
      /\ \A q \in Procs : fresh'[q] = IF q = p THEN {t} ELSE fresh[q]
  BY <1>1 DEF Edit, Inv, TypeOK
<1>3. Lawful(cards[t], w) /\ Kept(cards[t], w)
  BY <1>1, StepsAreLawful DEF Inv, TypeOK
<1>4. Agrees(s, t, cards[t])
  BY <1>3 DEF Agrees
<1> HIDE DEF s
<1> QED BY <1>2, <1>4, FreshMovesOn

LEMMA FreshStartDispatch ==
  ASSUME Inv, FreshCopiesAgree, NEW p \in Procs, NEW t \in Tickets, StartDispatch(p, t)
  PROVE  FreshCopiesAgree'
<1> DEFINE s == [pc |-> "awaits", command |-> "dispatch", ticket |-> t,
                 card |-> cards[t], gates |-> Awaits[t], docs |-> {}]
<1>1. /\ Becomes(p, s) /\ UNCHANGED cards
      /\ \A q \in Procs : fresh'[q] = IF q = p THEN {t} ELSE fresh[q]
  BY DEF StartDispatch, Inv, TypeOK
<1>2. Agrees(s, t, cards[t])
  BY DEF Agrees
<1> HIDE DEF s
<1> QED BY <1>1, <1>2, FreshMovesOn

LEMMA FreshGate ==
  ASSUME Inv, FreshCopiesAgree, NEW p \in Procs, ReadAwaited(p) \/ ReadDependency(p)
  PROVE  FreshCopiesAgree'
<1>1. PICK c \in Busy : c = procs[p] /\ c # Idle /\ c.pc \in {"awaits", "deps"}
  BY DEF ReadAwaited, ReadDependency, Gate, Is, Inv, Good
<1>2. UNCHANGED cards
  BY DEF ReadAwaited, ReadDependency, Gate
<1>3. CASE Stops(p)
  BY <1>2, <1>3, FreshStops
<1>4. CASE ~Stops(p)
  <2>0. PICK pc \in {"awaits", "deps", "launch"} : \E gates :
          Becomes(p, [c EXCEPT !.pc = pc, !.gates = gates]) /\ UNCHANGED fresh
    <3>1. \A gates : [c EXCEPT !.gates = gates] = [c EXCEPT !.pc = c.pc, !.gates = gates]
      BY DEF Busy
    <3>2. \/ \E g : Becomes(p, [c EXCEPT !.gates = c.gates \ {g}])
          \/ Becomes(p, [c EXCEPT !.pc = "deps", !.gates = DependsOn[c.ticket]])
          \/ Becomes(p, [c EXCEPT !.pc = "launch", !.gates = {}])
      BY <1>1, <1>4 DEF ReadAwaited, ReadDependency, Gate
    <3>3. UNCHANGED fresh
      BY <1>4 DEF ReadAwaited, ReadDependency, Gate
    <3> QED BY <1>1, <3>1, <3>2, <3>3
  <2>1. PICK gates :
          Becomes(p, [c EXCEPT !.pc = pc, !.gates = gates]) /\ UNCHANGED fresh
    BY <2>0
  <2>2. ASSUME NEW t \in fresh[p]
        PROVE  Agrees([c EXCEPT !.pc = pc, !.gates = gates], t, cards[t])
    <3>1. Agrees(c, t, cards[t])
      BY <1>1, <2>2 DEF FreshCopiesAgree
    <3> QED BY <1>1, <3>1 DEF Agrees, Busy
  <2> QED BY <1>2, <2>1, <2>2, FreshMovesOn
<1> QED BY <1>3, <1>4

LEMMA FreshLaunch ==
  ASSUME Inv, FreshCopiesAgree, NEW p \in Procs, LaunchWorker(p)
  PROVE  FreshCopiesAgree'
<1>1. PICK c \in Busy : c = procs[p] /\ Good(c) /\ c # Idle /\ c.pc = "launch"
  BY DEF LaunchWorker, Is, Inv, Good
<1>2. PICK session \in BOOLEAN :
        Becomes(p, [c EXCEPT !.pc = "write",
                             !.card = DispatchCard(c.card, NextDispatch, session)])
  BY <1>1 DEF LaunchWorker
<1>3. c.card \in Card /\ c.card.status = "open" /\ NextDispatch \in DispatchId
  BY <1>1 DEF Good, Busy, CanDispatch, NextDispatch, DispatchId, Nil, Inv, TypeOK
<1>4. PICK w : /\ w = DispatchCard(c.card, NextDispatch, session)
               /\ StartStep(c.card, w)
  BY <1>1, <1>3, DispatchKeepsCardOK DEF Good, StartStep
<1>5. Lawful(c.card, w) /\ Kept(c.card, w)
  BY <1>3, <1>4, StepsAreLawful
<1>6. ASSUME NEW t \in fresh[p]
      PROVE  Agrees([c EXCEPT !.pc = "write", !.card = w], t, cards[t])
  <2>1. Agrees(c, t, cards[t])
    BY <1>1, <1>6 DEF FreshCopiesAgree
  <2> QED BY <1>1, <1>5, <2>1 DEF Agrees, Busy
<1>7. UNCHANGED <<cards, fresh>>
  BY DEF LaunchWorker
<1> QED BY <1>2, <1>4, <1>6, <1>7, FreshMovesOn

LEMMA FreshStartReconcile ==
  ASSUME Inv, FreshCopiesAgree, NEW p \in Procs, StartReconcile(p)
  PROVE  FreshCopiesAgree'
<1> DEFINE docs == {[ticket |-> u, card |-> cards[u]] :
                      u \in {v \in Tickets : CanReconcile(cards[v])}}
           s(t) == [pc |-> "scan", command |-> "reconcile", ticket |-> t,
                    card |-> cards[t], gates |-> {}, docs |-> docs]
<1>1. PICK t \in Tickets : Becomes(p, s(t))
  BY DEF StartReconcile
<1>2. \A u : Agrees(s(t), u, cards[u])
  BY DEF Agrees
<1>3. UNCHANGED cards /\ \A q \in Procs \ {p} : fresh'[q] = fresh[q]
  BY DEF StartReconcile, Inv, TypeOK
<1> HIDE DEF s
<1> QED BY <1>1, <1>2, <1>3, FreshMovesOn

LEMMA FreshAsk ==
  ASSUME Inv, FreshCopiesAgree, NEW p \in Procs, Ask(p)
  PROVE  FreshCopiesAgree'
<1>1. PICK c \in Busy : c = procs[p] /\ Good(c) /\ c # Idle
  BY DEF Ask, Is, Inv, Good
<1>2. PICK doc \in c.docs, answer \in Answer, pc \in {"write", "scan"} :
        Becomes(p, [c EXCEPT !.pc = pc, !.ticket = doc.ticket,
                             !.card = ReconcileCard(doc.card, answer),
                             !.docs = c.docs \ {doc}])
  BY <1>1, AnswersAreAnswers DEF Ask
<1>3. doc.card \in Card /\ CardOK(doc.card) /\ CanReconcile(doc.card)
  BY <1>1 DEF Good, Busy, Doc
<1>4. PICK w : w = ReconcileCard(doc.card, answer) /\ Reconciles(doc.card, w)
  BY <1>3, ReconcileKeepsCardOK
<1>5. Lawful(doc.card, w) /\ Kept(doc.card, w)
  BY <1>3, <1>4, StepsAreLawful DEF EditStep, CanReconcile
<1> DEFINE s == [c EXCEPT !.pc = pc, !.ticket = doc.ticket, !.card = w,
                          !.docs = c.docs \ {doc}]
<1>6. /\ s.pc = pc /\ s.ticket = doc.ticket /\ s.card = w
      /\ s.docs = c.docs \ {doc}
  BY DEF Busy
<1>7. Becomes(p, s)
  BY <1>2, <1>4
<1> HIDE DEF s
<1>8. ASSUME NEW t \in fresh[p] PROVE Agrees(s, t, cards[t])
  <2>1. \A d \in c.docs : d.ticket = t => d.card = cards[t]
    BY <1>1, <1>8 DEF FreshCopiesAgree, Agrees
  <2> QED BY <1>5, <1>6, <2>1 DEF Agrees
<1>9. UNCHANGED <<cards, fresh>>
  BY DEF Ask
<1> QED BY <1>7, <1>8, <1>9, FreshMovesOn

LEMMA FreshWrite ==
  ASSUME Inv, FreshCopiesAgree, NEW p \in Procs, Write(p)
  PROVE  FreshCopiesAgree'
<1>1. PICK c \in Busy : c = procs[p] /\ c # Idle
  BY DEF Write, Is, Inv, Good
<1>2. c.ticket \in Tickets /\ Rename(c.ticket, c.card)
  BY <1>1 DEF Write, Busy
<1>3. \A q \in Procs : fresh'[q] \subseteq fresh[q] \ {c.ticket}
  BY <1>1 DEF Write, Outdated
<1>4. \A q \in Procs :
        procs'[q] \in {procs[q], Idle} \/ (q = p /\ procs'[q] = [c EXCEPT !.pc = "scan"])
  BY <1>1 DEF Write, Becomes, Inv, TypeOK
<1>5. \A u, x : Agrees(c, u, x) => Agrees([c EXCEPT !.pc = "scan"], u, x)
  BY DEF Agrees, Busy
<1> QED BY <1>1, <1>2, <1>3, <1>4, <1>5, FreshReplaces

LEMMA FreshWorker ==
  ASSUME Inv, FreshCopiesAgree, NEW d \in Dispatches, WorkerWrites(d) \/ WorkerEnds(d)
  PROVE  FreshCopiesAgree'
<1>1. CASE WorkerWrites(d)
  <2>0. PICK t \in Tickets :
          (\E w : Rename(t, w)) /\ fresh' = Outdated(t) /\ UNCHANGED procs
    BY <1>1, TextsAreTexts DEF WorkerWrites, Inv, TypeOK
  <2>1. PICK w : Rename(t, w) /\ fresh' = Outdated(t) /\ UNCHANGED procs
    BY <2>0
  <2>2. \A q \in Procs : fresh'[q] \subseteq fresh[q] \ {t}
    BY <2>1 DEF Outdated
  <2> QED BY <2>1, <2>2, FreshReplaces
<1>2. CASE WorkerEnds(d)
  BY <1>2 DEF WorkerEnds, FreshCopiesAgree
<1> QED BY <1>1, <1>2

LEMMA NextFresh == Inv /\ FreshCopiesAgree /\ [Next]_vars => FreshCopiesAgree'
<1> SUFFICES ASSUME Inv, FreshCopiesAgree, [Next]_vars PROVE FreshCopiesAgree'
  OBVIOUS
<1>1. ASSUME NEW p \in Procs, Process(p) PROVE FreshCopiesAgree'
  <2>1. CASE \E t \in Tickets :
               \/ Complete(p, t) \/ Fail(p, t) \/ Cancel(p, t)
               \/ Reopen(p, t) \/ Block(p, t) \/ Close(p, t)
    BY <2>1, FreshCommand
  <2>2. CASE \E t \in Tickets : StartDispatch(p, t)
    BY <2>2, FreshStartDispatch
  <2>3. CASE ReadAwaited(p) \/ ReadDependency(p)
    BY <2>3, FreshGate
  <2>4. CASE LaunchWorker(p)
    BY <2>4, FreshLaunch
  <2>5. CASE StartReconcile(p)
    BY <2>5, FreshStartReconcile
  <2>6. CASE Ask(p)
    BY <2>6, FreshAsk
  <2>7. CASE ReconcileEnds(p) \/ Dies(p)
    BY <2>7, FreshStops DEF ReconcileEnds, Dies
  <2>8. CASE Write(p)
    BY <2>8, FreshWrite
  <2> QED BY <1>1, <2>1, <2>2, <2>3, <2>4, <2>5, <2>6, <2>7, <2>8 DEF Process
<1>2. ASSUME NEW d \in Dispatches, WorkerWrites(d) \/ WorkerEnds(d) PROVE FreshCopiesAgree'
  BY <1>2, FreshWorker
<1>3. CASE UNCHANGED vars
  BY <1>3 DEF vars, FreshCopiesAgree
<1> QED BY <1>1, <1>2, <1>3 DEF Next

\* However many commands overlap and whichever die: a write over a file that
\* nobody has written since it was read is one transition of the table, with
\* the budget observed, and loses nothing a worker wrote.
THEOREM RacesFreshWrites == Spec => FreshWritesAreLawful
<1> DEFINE FreshWriteIsLawful ==
      \A p \in Procs :
        Write(p) /\ procs[p].ticket \in fresh[p] =>
          LET t == procs[p].ticket IN
          Lawful(cards[t], cards'[t]) /\ Kept(cards[t], cards'[t])
<1>1. Init => FreshCopiesAgree
  BY DEF Init, FreshCopiesAgree
<1>2. Inv /\ FreshCopiesAgree => FreshWriteIsLawful
  <2> SUFFICES ASSUME Inv, FreshCopiesAgree, NEW p \in Procs, Write(p),
                      procs[p].ticket \in fresh[p]
               PROVE  LET t == procs[p].ticket IN
                      Lawful(cards[t], cards'[t]) /\ Kept(cards[t], cards'[t])
    BY Zenon
  <2>1. PICK c \in Busy : c = procs[p] /\ c # Idle /\ c.pc = "write"
    BY DEF Write, Is, Inv, Good
  <2>2. Agrees(c, c.ticket, cards[c.ticket])
    BY <2>1 DEF FreshCopiesAgree
  <2>3. cards'[c.ticket] = c.card
    BY <2>1 DEF Write, Rename, Busy, Inv, TypeOK
  <2> QED BY <2>1, <2>2, <2>3 DEF Agrees
<1>3. Inv /\ FreshCopiesAgree /\ [Next]_vars => [FreshWriteIsLawful]_vars
  BY <1>2
<1> QED
  BY InitInv, NextInv, NextFresh, <1>1, <1>3, PTL DEF Spec, FreshWritesAreLawful

-----------------------------------------------------------------------------
(* One command at a time.  What a process knows of the tickets stays true   *)
(* but for the Results, which workers write when they like, and those       *)
(* TicketFsm does not see.                                                  *)

Solo == \A p, q \in Procs : p = q

\* The card c shows what TicketFsm sees of ticket t.
Current(c, t) == c.status = Statuses[t] /\ c.attempts = Tries[t]

AwaitsMet(t, unread) == \A a \in Awaits[t] \ unread : IsTerminal(Statuses[a])
NeedsMet(t, unread) == \A d \in DependsOn[t] \ unread : Statuses[d] = "done"

\* What process state s rests on: its copies are current, the gates it has
\* read are met, and its next write is one command's.
Informed(s) ==
  /\ s.pc \in {"awaits", "deps", "launch"} => Current(s.card, s.ticket) /\ s.docs = {}
  /\ s.pc = "awaits" => AwaitsMet(s.ticket, s.gates)
  /\ s.pc = "deps" => AwaitsMet(s.ticket, {}) /\ NeedsMet(s.ticket, s.gates)
  /\ s.pc = "launch" => AwaitsMet(s.ticket, {}) /\ NeedsMet(s.ticket, {})
  /\ s.pc = "write" =>
       /\ \E c \in Card :
            /\ Current(c, s.ticket)
            /\ \/ EditStep(c, s.card)
               \/ /\ StartStep(c, s.card)
                  /\ AwaitsMet(s.ticket, {}) /\ NeedsMet(s.ticket, {})
       /\ \A doc \in s.docs : doc.ticket # s.ticket
  /\ \A doc \in s.docs : Current(doc.card, doc.ticket)
  /\ \A doc1, doc2 \in s.docs : doc1.ticket = doc2.ticket => doc1 = doc2

AllInformed == \A p \in Procs : procs[p] # Idle => Informed(procs[p])

\* The process moves on, and TicketFsm sees nothing.
LEMMA InformedMovesOn ==
  ASSUME Solo, Inv, NEW p \in Procs, NEW s, Becomes(p, s),
         UNCHANGED <<Statuses, Tries>>, s = Idle \/ Informed(s)
  PROVE  AllInformed'
<1>1. \A q \in Procs : procs'[q] = s
  BY DEF Solo, Inv, TypeOK, Becomes
<1>2. Informed(s) => Informed(s)'
  BY DEF Informed, Current, AwaitsMet, NeedsMet
<1> QED BY <1>1, <1>2 DEF AllInformed

LEMMA Unseen ==
  ASSUME UNCHANGED cards
  PROVE  UNCHANGED <<Statuses, Tries>>
BY DEF Statuses, Tries

LEMMA InformedStops ==
  ASSUME Solo, Inv, NEW p \in Procs, Stops(p), UNCHANGED cards
  PROVE  AllInformed'
BY Unseen, InformedMovesOn DEF Stops

LEMMA CurrentOnDisk ==
  ASSUME NEW t \in Tickets
  PROVE  Current(cards[t], t)
BY DEF Current, Statuses, Tries

LEMMA InformedCommand ==
  ASSUME Solo, Inv, NEW p \in Procs, NEW t \in Tickets,
         \/ Complete(p, t) \/ Fail(p, t) \/ Cancel(p, t)
         \/ Reopen(p, t) \/ Block(p, t) \/ Close(p, t)
  PROVE  AllInformed' /\ UNCHANGED <<Statuses, Tries>>
<1>1. PICK command \in Transition, w \in Card :
        Edit(p, command, t, TRUE, w) /\ EditStep(cards[t], w)
  BY CommandEdits
<1> DEFINE s == [pc |-> "write", command |-> command, ticket |-> t, card |-> w,
                 gates |-> {}, docs |-> {}]
<1>2. Becomes(p, s) /\ UNCHANGED cards
  BY <1>1 DEF Edit
<1>3. cards[t] \in Card /\ Current(cards[t], t)
  BY CurrentOnDisk DEF Inv, TypeOK
<1>4. Informed(s)
  BY <1>1, <1>3 DEF Informed
<1> HIDE DEF s
<1> QED BY <1>2, <1>4, Unseen, InformedMovesOn

LEMMA InformedStartDispatch ==
  ASSUME Solo, Inv, NEW p \in Procs, NEW t \in Tickets, StartDispatch(p, t)
  PROVE  AllInformed' /\ UNCHANGED <<Statuses, Tries>>
<1> DEFINE s == [pc |-> "awaits", command |-> "dispatch", ticket |-> t,
                 card |-> cards[t], gates |-> Awaits[t], docs |-> {}]
<1>1. Becomes(p, s) /\ UNCHANGED cards
  BY DEF StartDispatch
<1>2. Informed(s)
  BY CurrentOnDisk DEF Informed, AwaitsMet
<1> HIDE DEF s
<1> QED BY <1>1, <1>2, Unseen, InformedMovesOn

\* A gate that is left behind is met, and the last one leaves none unread.
LEMMA InformedGate ==
  ASSUME Solo, Inv, AllInformed, NEW p \in Procs, ReadAwaited(p) \/ ReadDependency(p)
  PROVE  AllInformed' /\ UNCHANGED <<Statuses, Tries>>
<1>1. PICK c \in Busy : c = procs[p] /\ c # Idle /\ Informed(c)
  BY DEF ReadAwaited, ReadDependency, Gate, Is, Inv, Good, AllInformed
<1>2. UNCHANGED cards
  BY DEF ReadAwaited, ReadDependency, Gate
<1>3. CASE Stops(p)
  BY <1>2, <1>3, Unseen, InformedStops
<1>4. ASSUME NEW s, Informed(s), Becomes(p, s)
      PROVE  AllInformed' /\ UNCHANGED <<Statuses, Tries>>
  BY <1>2, <1>4, Unseen, InformedMovesOn
<1>5. CASE ReadAwaited(p) /\ ~Stops(p)
  <2>1. c.pc = "awaits" /\ Current(c.card, c.ticket) /\ AwaitsMet(c.ticket, c.gates)
    BY <1>1, <1>5 DEF ReadAwaited, Gate, Is, Informed
  <2>2. CASE \E g \in c.gates : /\ g \in Tickets /\ IsTerminal(cards[g].status)
                                /\ Becomes(p, [c EXCEPT !.gates = c.gates \ {g}])
    <3>1. PICK g \in c.gates : /\ g \in Tickets /\ IsTerminal(cards[g].status)
                               /\ Becomes(p, [c EXCEPT !.gates = c.gates \ {g}])
      BY <2>2
    <3>2. AwaitsMet(c.ticket, c.gates \ {g})
      BY <2>1, <3>1 DEF AwaitsMet, Statuses
    <3>3. Informed([c EXCEPT !.gates = c.gates \ {g}])
      BY <1>1, <2>1, <3>2 DEF Informed, Busy
    <3> QED BY <1>4, <3>1, <3>3
  <2>3. CASE c.gates = {} /\ Becomes(p, [c EXCEPT !.pc = "deps", !.gates = DependsOn[c.ticket]])
    <3>1. NeedsMet(c.ticket, DependsOn[c.ticket])
      BY DEF NeedsMet
    <3>2. Informed([c EXCEPT !.pc = "deps", !.gates = DependsOn[c.ticket]])
      BY <1>1, <2>1, <2>3, <3>1 DEF Informed, Busy
    <3> QED BY <1>4, <2>3, <3>2
  <2> QED BY <1>1, <1>5, <2>2, <2>3 DEF ReadAwaited, Gate
<1>6. CASE ReadDependency(p) /\ ~Stops(p)
  <2>1. /\ c.pc = "deps" /\ Current(c.card, c.ticket)
        /\ AwaitsMet(c.ticket, {}) /\ NeedsMet(c.ticket, c.gates)
    BY <1>1, <1>6 DEF ReadDependency, Gate, Is, Informed
  <2>2. CASE \E g \in c.gates : /\ g \in Tickets /\ cards[g].status = "done"
                                /\ Becomes(p, [c EXCEPT !.gates = c.gates \ {g}])
    <3>1. PICK g \in c.gates : /\ g \in Tickets /\ cards[g].status = "done"
                               /\ Becomes(p, [c EXCEPT !.gates = c.gates \ {g}])
      BY <2>2
    <3>2. NeedsMet(c.ticket, c.gates \ {g})
      BY <2>1, <3>1 DEF NeedsMet, Statuses
    <3>3. Informed([c EXCEPT !.gates = c.gates \ {g}])
      BY <1>1, <2>1, <3>2 DEF Informed, Busy
    <3> QED BY <1>4, <3>1, <3>3
  <2>3. CASE c.gates = {} /\ Becomes(p, [c EXCEPT !.pc = "launch", !.gates = {}])
    <3>1. Informed([c EXCEPT !.pc = "launch", !.gates = {}])
      BY <1>1, <2>1, <2>3 DEF Informed, Busy
    <3> QED BY <1>4, <2>3, <3>1
  <2> QED BY <1>1, <1>6, <2>2, <2>3 DEF ReadDependency, Gate
<1> QED BY <1>3, <1>5, <1>6

LEMMA InformedLaunch ==
  ASSUME Solo, Inv, AllInformed, NEW p \in Procs, LaunchWorker(p)
  PROVE  AllInformed' /\ UNCHANGED <<Statuses, Tries>>
<1>1. PICK c \in Busy : c = procs[p] /\ Good(c) /\ Informed(c) /\ c # Idle /\ c.pc = "launch"
  BY DEF LaunchWorker, Is, Inv, Good, AllInformed
<1>2. PICK session \in BOOLEAN :
        Becomes(p, [c EXCEPT !.pc = "write",
                             !.card = DispatchCard(c.card, NextDispatch, session)])
  BY <1>1 DEF LaunchWorker
<1>3. c.card \in Card /\ c.card.status = "open" /\ NextDispatch \in DispatchId
  BY <1>1 DEF Good, Busy, CanDispatch, NextDispatch, DispatchId, Nil, Inv, TypeOK
<1>4. PICK w : /\ w = DispatchCard(c.card, NextDispatch, session)
               /\ StartStep(c.card, w)
  BY <1>1, <1>3, DispatchKeepsCardOK DEF Good, StartStep
<1> DEFINE s == [c EXCEPT !.pc = "write", !.card = w]
<1>5. s.pc = "write" /\ s.card = w /\ s.ticket = c.ticket /\ s.docs = c.docs
  BY DEF Busy
<1>6. Becomes(p, s)
  BY <1>2, <1>4
<1> HIDE DEF s
<1>7. c.docs = {}
  BY <1>1 DEF Informed
<1>8. Informed(s)
  BY <1>1, <1>3, <1>4, <1>5, <1>7 DEF Informed
<1>9. UNCHANGED cards
  BY DEF LaunchWorker
<1> QED BY <1>6, <1>8, <1>9, Unseen, InformedMovesOn

LEMMA InformedStartReconcile ==
  ASSUME Solo, Inv, NEW p \in Procs, StartReconcile(p)
  PROVE  AllInformed' /\ UNCHANGED <<Statuses, Tries>>
<1> DEFINE docs == {[ticket |-> u, card |-> cards[u]] :
                      u \in {v \in Tickets : CanReconcile(cards[v])}}
           s(t) == [pc |-> "scan", command |-> "reconcile", ticket |-> t,
                    card |-> cards[t], gates |-> {}, docs |-> docs]
<1>1. PICK t \in Tickets : Becomes(p, s(t))
  BY DEF StartReconcile
<1>2. \A doc \in docs : doc.ticket \in Tickets /\ doc.card = cards[doc.ticket]
                        /\ doc = [ticket |-> doc.ticket, card |-> cards[doc.ticket]]
  OBVIOUS
<1> HIDE DEF docs
<1>3. Informed(s(t))
  BY <1>2, CurrentOnDisk DEF Informed
<1>4. UNCHANGED cards
  BY DEF StartReconcile
<1> HIDE DEF s
<1> QED BY <1>1, <1>3, <1>4, Unseen, InformedMovesOn

LEMMA InformedAsk ==
  ASSUME Solo, Inv, AllInformed, NEW p \in Procs, Ask(p)
  PROVE  AllInformed' /\ UNCHANGED <<Statuses, Tries>>
<1>1. PICK c \in Busy : c = procs[p] /\ Good(c) /\ Informed(c) /\ c # Idle
  BY DEF Ask, Is, Inv, Good, AllInformed
<1>2. PICK doc \in c.docs, answer \in Answer, pc \in {"write", "scan"} :
        Becomes(p, [c EXCEPT !.pc = pc, !.ticket = doc.ticket,
                             !.card = ReconcileCard(doc.card, answer),
                             !.docs = c.docs \ {doc}])
  BY <1>1, AnswersAreAnswers DEF Ask
<1>3. doc.card \in Card /\ CardOK(doc.card) /\ CanReconcile(doc.card)
  BY <1>1 DEF Good, Busy, Doc
<1>4. PICK w : w = ReconcileCard(doc.card, answer) /\ EditStep(doc.card, w)
  BY <1>3, ReconcileKeepsCardOK DEF EditStep, CanReconcile
<1> DEFINE s == [c EXCEPT !.pc = pc, !.ticket = doc.ticket, !.card = w,
                          !.docs = c.docs \ {doc}]
<1>5. /\ s.pc = pc /\ s.ticket = doc.ticket /\ s.card = w
      /\ s.docs = c.docs \ {doc}
  BY DEF Busy
<1>6. Becomes(p, s)
  BY <1>2, <1>4
<1> HIDE DEF s
<1>7. Informed(s)
  BY <1>1, <1>3, <1>4, <1>5 DEF Informed
<1>8. UNCHANGED cards
  BY DEF Ask
<1> QED BY <1>6, <1>7, <1>8, Unseen, InformedMovesOn

\* A write is a step of TicketFsm, or one it does not see.
LEMMA WriteRefines ==
  ASSUME Inv, NEW t \in Tickets, NEW c \in Card, NEW w \in Card, Current(c, t),
         \/ EditStep(c, w)
         \/ StartStep(c, w) /\ AwaitsMet(t, {}) /\ NeedsMet(t, {}),
         Rename(t, w)
  PROVE  Abstract!Next \/ (Statuses' = Statuses /\ Tries' = Tries)
<1>1. /\ Statuses' = [Statuses EXCEPT ![t] = w.status]
      /\ Tries' = [Tries EXCEPT ![t] = w.attempts]
      /\ w.attempts = c.attempts => Tries' = Tries
      /\ Statuses[t] = c.status /\ Tries[t] = c.attempts
  <2>1. cards' = [u \in Tickets |-> IF u = t THEN w ELSE cards[u]]
    BY DEF Inv, TypeOK, Rename
  <2> QED BY <2>1 DEF Statuses, Tries, Current
<1>2. CASE StartStep(c, w) /\ AwaitsMet(t, {}) /\ NeedsMet(t, {})
  <2>1. /\ \A d \in DependsOn[t] : Statuses[d] = "done"
        /\ \A a \in Awaits[t] : Statuses[a] \in Abstract!Resting
    BY <1>2 DEF AwaitsMet, NeedsMet, Abstract!Resting, IsTerminal
  <2>2. Abstract!Start(t)
    BY <1>1, <1>2, <2>1 DEF Abstract!Start, Abstract!Move, Moves, StartStep
  <2> QED BY <2>2 DEF Abstract!Next
<1>3. CASE c.status = "dispatched" /\ Moves(c, w, "dispatched")
  BY <1>1, <1>3 DEF Moves, Statuses
<1>4. CASE c.status = "dispatched" /\ Moves(c, w, "done")
  <2>1. Abstract!Finish(t)
    BY <1>1, <1>4 DEF Abstract!Finish, Abstract!Move, Moves
  <2> QED BY <2>1 DEF Abstract!Next
<1>5. CASE /\ c.status = "dispatched"
           /\ Moves(c, w, IF c.attempts + 1 < MaxRetry THEN "failed" ELSE "blocked")
  <2>1. Abstract!Fail(t)
    BY <1>1, <1>5 DEF Abstract!Fail, Abstract!Move, Moves
  <2> QED BY <2>1 DEF Abstract!Next
<1>6. CASE c.status = "dispatched" /\ Moves(c, w, "open")
  <2>1. Abstract!GiveBack(t)
    BY <1>1, <1>6 DEF Abstract!GiveBack, Abstract!Move, Moves
  <2> QED BY <2>1 DEF Abstract!Next
<1>7. CASE c.status = "failed" /\ w.status = "open" /\ w.attempts = c.attempts + 1
  <2>1. Abstract!Retry(t)
    BY <1>1, <1>7 DEF Abstract!Retry, Abstract!Move
  <2> QED BY <2>1 DEF Abstract!Next
<1>8. CASE c.status \in {"done", "blocked"} /\ w.status = "open" /\ w.attempts = c.attempts
  <2>1. Abstract!TakeUpAgain(t)
    BY <1>1, <1>8 DEF Abstract!TakeUpAgain, Abstract!Move
  <2> QED BY <2>1 DEF Abstract!Next
<1>9. CASE c.status \in {"open", "failed"} /\ Moves(c, w, "blocked")
  <2>1. Abstract!Block(t)
    BY <1>1, <1>9 DEF Abstract!Block, Abstract!Move, Moves
  <2> QED BY <2>1 DEF Abstract!Next
<1>10. CASE c.status \in {"open", "failed", "done"} /\ Moves(c, w, "closed")
  <2>1. Abstract!Close(t)
    BY <1>1, <1>10 DEF Abstract!Close, Abstract!Move, Moves
  <2> QED BY <2>1 DEF Abstract!Next
<1> QED
  BY <1>2, <1>3, <1>4, <1>5, <1>6, <1>7, <1>8, <1>9, <1>10 DEF EditStep, Reconciles

LEMMA InformedWrite ==
  ASSUME Solo, Inv, AllInformed, NEW p \in Procs, Write(p)
  PROVE  AllInformed' /\ (Abstract!Next \/ (Statuses' = Statuses /\ Tries' = Tries))
<1>1. PICK c \in Busy : c = procs[p] /\ Good(c) /\ Informed(c) /\ c # Idle /\ c.pc = "write"
  BY DEF Write, Is, Inv, Good, AllInformed
<1>2. PICK t \in Tickets, w \in Card : t = c.ticket /\ w = c.card
  BY DEF Busy
<1>3. Rename(t, w)
  BY <1>1, <1>2 DEF Write
<1>4. Abstract!Next \/ (Statuses' = Statuses /\ Tries' = Tries)
  <2>1. PICK x \in Card :
          /\ Current(x, t)
          /\ \/ EditStep(x, w)
             \/ StartStep(x, w) /\ AwaitsMet(t, {}) /\ NeedsMet(t, {})
    BY <1>1, <1>2 DEF Informed
  <2> QED BY <1>3, <2>1, WriteRefines
<1>5. \A u \in Tickets \ {t} : Statuses'[u] = Statuses[u] /\ Tries'[u] = Tries[u]
  BY <1>3 DEF Rename, Statuses, Tries, Inv, TypeOK
<1>6. \A q \in Procs : procs'[q] \in {Idle, [c EXCEPT !.pc = "scan"]}
  BY <1>1 DEF Write, Becomes, Solo, Inv, TypeOK
<1> DEFINE s == [c EXCEPT !.pc = "scan"]
<1>7. s.pc = "scan" /\ s.docs = c.docs
  BY DEF Busy
<1> HIDE DEF s
<1>8. \A doc \in c.docs : doc.ticket \in Tickets \ {t} /\ Current(doc.card, doc.ticket)
  BY <1>1, <1>2 DEF Informed, Busy, Doc
<1>9. \A doc \in c.docs : Current(doc.card, doc.ticket)'
  BY <1>5, <1>8 DEF Current
<1>10. \A doc1, doc2 \in c.docs : doc1.ticket = doc2.ticket => doc1 = doc2
  BY <1>1 DEF Informed
<1>11. Informed(s)'
  BY <1>7, <1>9, <1>10 DEF Informed
<1>12. AllInformed'
  BY <1>6, <1>11 DEF AllInformed, s
<1> QED BY <1>4, <1>12

LEMMA WorkerUnseen ==
  ASSUME Inv, NEW d \in Dispatches, WorkerWrites(d) \/ WorkerEnds(d)
  PROVE  UNCHANGED <<Statuses, Tries, procs>>
<1>1. CASE WorkerWrites(d)
  <2>1. PICK t \in Tickets, text \in Text : Rename(t, [cards[t] EXCEPT !.result = text])
    BY <1>1, TextsAreTexts DEF WorkerWrites, Inv, TypeOK
  <2> DEFINE w == [cards[t] EXCEPT !.result = text]
  <2>2. cards[t] \in Card
    BY DEF Inv, TypeOK
  <2>3. w.status = cards[t].status /\ w.attempts = cards[t].attempts
    BY <2>2 DEF Card
  <2>4. cards' = [cards EXCEPT ![t] = w]
    BY <2>1 DEF Rename
  <2> HIDE DEF w
  <2> QED BY <1>1, <2>3, <2>4 DEF WorkerWrites, Statuses, Tries, Inv, TypeOK
<1>2. CASE WorkerEnds(d)
  BY <1>2, Unseen DEF WorkerEnds
<1> QED BY <1>1, <1>2

LEMMA SameInformed ==
  ASSUME AllInformed, UNCHANGED <<Statuses, Tries, procs>>
  PROVE  AllInformed'
<1>1. \A s : Informed(s) => Informed(s)'
  BY DEF Informed, Current, AwaitsMet, NeedsMet
<1> QED BY <1>1 DEF AllInformed

LEMMA SoloSteps ==
  ASSUME Solo, Inv, AllInformed, [Next]_vars
  PROVE  AllInformed' /\ [Abstract!Next]_<<Statuses, Tries>>
<1>1. ASSUME NEW p \in Procs, Process(p)
      PROVE  AllInformed' /\ [Abstract!Next]_<<Statuses, Tries>>
  <2>1. CASE \E t \in Tickets :
               \/ Complete(p, t) \/ Fail(p, t) \/ Cancel(p, t)
               \/ Reopen(p, t) \/ Block(p, t) \/ Close(p, t)
    BY <2>1, InformedCommand
  <2>2. CASE \E t \in Tickets : StartDispatch(p, t)
    BY <2>2, InformedStartDispatch
  <2>3. CASE ReadAwaited(p) \/ ReadDependency(p)
    BY <2>3, InformedGate
  <2>4. CASE LaunchWorker(p)
    BY <2>4, InformedLaunch
  <2>5. CASE StartReconcile(p)
    BY <2>5, InformedStartReconcile
  <2>6. CASE Ask(p)
    BY <2>6, InformedAsk
  <2>7. CASE ReconcileEnds(p) \/ Dies(p)
    BY <2>7, InformedStops, Unseen DEF ReconcileEnds, Dies
  <2>8. CASE Write(p)
    BY <2>8, InformedWrite
  <2> QED BY <1>1, <2>1, <2>2, <2>3, <2>4, <2>5, <2>6, <2>7, <2>8 DEF Process
<1>2. ASSUME NEW d \in Dispatches, WorkerWrites(d) \/ WorkerEnds(d)
      PROVE  AllInformed' /\ [Abstract!Next]_<<Statuses, Tries>>
  BY <1>2, WorkerUnseen, SameInformed
<1>3. CASE UNCHANGED vars
  BY <1>3, Unseen, SameInformed DEF vars
<1> QED BY <1>1, <1>2, <1>3 DEF Next

\* One command at a time, taken apart into reads and writes, with workers
\* writing Results in between and deaths anywhere, is an atomic command of
\* TicketFsm: a ticket starts only behind met gates, and the retry budget holds.
THEOREM RacesImplementTicketFsm ==
  ASSUME Solo
  PROVE  Spec => ImplementsTicketFsm
<1>1. Init => AllInformed /\ Abstract!Init
  BY DEF Init, AllInformed, Abstract!Init, NewCard, Statuses, Tries
<1>2. Inv /\ AllInformed /\ [Next]_vars =>
        AllInformed' /\ [Abstract!Next]_<<Statuses, Tries>>
  BY SoloSteps
<1> QED
  BY InitInv, NextInv, <1>1, <1>2, PTL DEF Spec, ImplementsTicketFsm, Abstract!Spec
=============================================================================
