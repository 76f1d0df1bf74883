-------------------------- MODULE LiveClose_proofs --------------------------
(* Proofs about the closing of live positions, for any processes, operator  *)
(* sessions, trades and operations, and any bounds.  The journal's part of  *)
(* the argument is in CloseJournal_proofs, the fence's in Fence_proofs.     *)
EXTENDS LiveClose, CloseJournal_proofs, Fence_proofs

ThreadRecord == [at : Steps, op : Ops \cup {NoOp}, view : View \cup {NoView}]

\* The steps of a close attempt that has a row of its own, and those of them
\* before the request.
OwnSteps == {"commit_intent", "issue_permit", "begin_submit", "check_authority", "claim",
             "recheck", "send", "await", "interpret", "verify", "mark"}
UnsentSteps == {"commit_intent", "issue_permit", "begin_submit", "check_authority", "claim",
                "recheck", "send"}

\* What the place of a thread says of the book.
PlaceInv(p) ==
    /\ thread[p]["cycle"].at \in StartSteps
           => p \notin resident /\ thread[p]["reconciler"] = Idle
    /\ p \in resident => pos[p] \in Position
    /\ thread[p]["cycle"].at \in CloseSteps => pos[p] \in Position
    /\ thread[p]["cycle"].at \in CloseSteps \ OwnSteps => thread[p]["cycle"].view \in View
    /\ At(p, "reconciler", "adjust") =>
           /\ thread[p]["reconciler"].view \in View
           /\ MaxGen > 1
           /\ p \in resident => pos[p].gen < MaxGen

\* What it says of the operation of a close attempt.
CallInv(p) ==
    /\ thread[p]["cycle"].at \in {"reserve"} \cup OwnSteps => memop[p] \in CloseOperation
    /\ thread[p]["cycle"].at \in OwnSteps => Current(p) \in Ops /\ rows[Current(p)] # NoRow
    /\ thread[p]["cycle"].at \in UnsentSteps => wire[Current(p)] = "unsent"
    /\ Cycle(p, "mark") =>
           /\ memop[p].st # "FINALISED"
           /\ memop[p].st = "REJECTED_CONFIRMED" => wire[Current(p)] = "rejected"
           /\ memop[p].st = "FULLY_CONFIRMED" => Closed(rows[Current(p)].trade)

\* ... and of a deletion that has passed its checks.
DeleteInv(p, th) ==
    thread[p][th].at \in {"finalise", "pop"} =>
        /\ Op(p, th) \in Ops
        /\ rows[Op(p, th)] # NoRow
        /\ Closed(rows[Op(p, th)].trade)

ProcInv(p) ==
    /\ PlaceInv(p)
    /\ CallInv(p)
    /\ \A th \in Threads : DeleteInv(p, th)

OneCaller ==
    \A p, q \in Procs :
        /\ thread[p]["cycle"].at \in OwnSteps
        /\ thread[q]["cycle"].at \in OwnSteps
        /\ Current(p) = Current(q)
        => p = q

\* What is written later was true when it was read, and does not stop being so.
ScanInv(s, o) ==
    scan[s][o] # NoRow =>
        /\ rows[o] # NoRow
        /\ scan[s][o] \in Row
        /\ RecoverWrites(scan[s][o])
        /\ scan[s][o].st = "FULLY_CONFIRMED" => Closed(rows[o].trade)

VerdictInv(s) ==
    verdict[s] # NoMem =>
        /\ verdict[s] \in CloseOperation
        /\ verdict[s].op \in Ops
        /\ rows[verdict[s].op] # NoRow
        /\ verdict[s].st \in Unsettled
        /\ verdict[s].st = "FULLY_CONFIRMED" => Closed(rows[verdict[s].op].trade)

\* A row that lets go of its trade belongs to a request that was refused or to
\* a trade that is closed.
RowInv(o) ==
    /\ wire[o] # "unsent" => rows[o] # NoRow
    /\ rows[o].st = "REJECTED_CONFIRMED" => wire[o] = "rejected"
    /\ rows[o].st \in {"FULLY_CONFIRMED", "FINALISED"} => Closed(rows[o].trade)

\* The last trade is durable, and open exactly while the broker holds units.
TradeInv ==
    /\ trade \in Durable
    /\ held > 0 => ~Closed(trade)
    /\ \A t \in Durable : dur[t] \in Position /\ dur[t].trade = t

LiveInv ==
    /\ TypeOK
    /\ JournalInv
    /\ EpochsUnique
    /\ \A o \in Ops : RowInv(o)
    /\ \A p \in Procs : ProcInv(p)
    /\ OneCaller
    /\ \A s \in Sessions, o \in Ops : ScanInv(s, o)
    /\ \A s \in Operators : VerdictInv(s)
    /\ TradeInv
    /\ ExposureAccounted

-----------------------------------------------------------------------------
\* What a step keeps of the rows, of the trades and of the wire.

\* A row never goes away, nor does its trade change.
RowsGrow ==
    \A o \in Ops : rows[o] # NoRow => rows'[o] # NoRow /\ rows'[o].trade = rows[o].trade

ClosedStays == \A t \in Trades : Closed(t) => Closed(t)'

RejectedStays == \A o \in Ops : wire[o] = "rejected" => wire'[o] = "rejected"

\* The requests not yet sent stay unsent, but for that of process p.
UnsentStays(p) ==
    \A q \in Procs \ {p} :
        thread[q]["cycle"].at \in UnsentSteps /\ wire[Current(q)] = "unsent"
            => wire'[Current(q)] = "unsent"

\* Thread th of process p moves to r, and no other thread moves.
Moved(p, th, r) ==
    /\ thread' \in [Procs -> [Threads -> ThreadRecord]]
    /\ thread'[p][th] = r
    /\ \A h \in Threads \ {th} : thread'[p][h] = thread[p][h]
    /\ \A q \in Procs \ {p} : thread'[q] = thread[q]

(* Putting a thread somewhere moves it and no other.                        *)
LEMMA PutMoves ==
    ASSUME TypeOK, NEW p \in Procs, NEW th \in Threads, NEW r \in ThreadRecord,
           thread' = [thread EXCEPT ![p][th] = r]
    PROVE  Moved(p, th, r)
BY DEF TypeOK, Moved, ThreadRecord

(* Leave puts a thread to rest.                                             *)
LEMMA LeaveMoves ==
    ASSUME TypeOK, NEW p \in Procs, NEW th \in Threads, Leave(p, th)
    PROVE  Idle \in ThreadRecord /\ Moved(p, th, Idle)
<1>1. Idle \in ThreadRecord
  BY DEF Idle, ThreadRecord, Steps
<1> QED
  BY <1>1, PutMoves DEF Leave

(* Goto keeps the operation and the view of a thread.                       *)
LEMMA GotoMoves ==
    ASSUME TypeOK, NEW p \in Procs, NEW th \in Threads, NEW step \in Steps, Goto(p, th, step)
    PROVE  \E r \in ThreadRecord :
              /\ Moved(p, th, r)
              /\ r.at = step /\ r.op = Op(p, th) /\ r.view = thread[p][th].view
<1> DEFINE r == [thread[p][th] EXCEPT !.at = step]
<1>1. thread \in [Procs -> [Threads -> ThreadRecord]]
  BY DEF TypeOK, ThreadRecord
<1>2. thread[p][th] \in ThreadRecord
  BY <1>1
<1>3. r \in ThreadRecord /\ r.at = step /\ r.op = Op(p, th) /\ r.view = thread[p][th].view
  BY <1>2 DEF ThreadRecord, Op
<1>4. thread' = [thread EXCEPT ![p][th] = r]
  BY <1>1 DEF Goto
<1> HIDE DEF r
<1> QED
  BY <1>3, <1>4, PutMoves

(* What is so of a process stays so while it does not move and nothing is   *)
(* taken back.                                                              *)
LEMMA ProcessKept ==
    ASSUME LiveInv, NEW p \in Procs, RowsGrow, ClosedStays, RejectedStays,
           thread'[p] = thread[p], memop'[p] = memop[p], pos'[p] = pos[p],
           p \in resident' <=> p \in resident,
           thread[p]["cycle"].at \in UnsentSteps => wire'[Current(p)] = "unsent"
    PROVE  ProcInv(p)'
<1>1. ProcInv(p)
  BY DEF LiveInv
<1>2. PlaceInv(p)'
  BY <1>1 DEF ProcInv, PlaceInv, At
<1>t. \A o \in Ops : rows[o] # NoRow => rows[o].trade \in Trades
  BY RowFacts DEF LiveInv, JournalInv, Row
<1>3. CallInv(p)'
  BY <1>1, <1>t DEF ProcInv, CallInv, RowsGrow, ClosedStays, RejectedStays, Cycle, At, Current, Op, OwnSteps
<1>4. ASSUME NEW th \in Threads
      PROVE  DeleteInv(p, th)'
  BY <1>1, <1>t DEF ProcInv, DeleteInv, RowsGrow, ClosedStays, Op
<1> QED
  BY <1>2, <1>3, <1>4 DEF ProcInv

(* What a session has read stays true.                                      *)
LEMMA ScanKept ==
    ASSUME LiveInv, NEW s \in Sessions, NEW o \in Ops, RowsGrow, ClosedStays,
           scan'[s][o] = scan[s][o]
    PROVE  ScanInv(s, o)'
<1>1. ScanInv(s, o)
  BY DEF LiveInv
<1>2. rows[o] # NoRow => rows[o].trade \in Trades
  BY RowFacts DEF LiveInv, JournalInv, Row
<1> QED
  BY <1>1, <1>2 DEF ScanInv, RowsGrow, ClosedStays

(* What an operator session has decided stays true.                         *)
LEMMA VerdictKept ==
    ASSUME LiveInv, NEW s \in Operators, RowsGrow, ClosedStays, verdict'[s] = verdict[s]
    PROVE  VerdictInv(s)'
<1>1. VerdictInv(s)
  BY DEF LiveInv
<1>2. \A o \in Ops : rows[o] # NoRow => rows[o].trade \in Trades
  BY RowFacts DEF LiveInv, JournalInv, Row
<1> QED
  BY <1>1, <1>2 DEF VerdictInv, RowsGrow, ClosedStays

(* Rows nobody writes stay accounted for.                                   *)
LEMMA RowsKept ==
    ASSUME LiveInv, rows' = rows, ClosedStays, RejectedStays,
           \A o \in Ops : wire'[o] # "unsent" => wire[o] # "unsent"
    PROVE  RowsGrow /\ JournalInv' /\ \A o \in Ops : RowInv(o)'
<1>1. \A o \in Ops : rows[o] # NoRow => rows[o].trade \in Trades
  BY RowFacts DEF LiveInv, JournalInv, Row
<1>2. RowsGrow
  BY DEF RowsGrow
<1>3. JournalInv'
  BY StepJournalInv DEF LiveInv
<1>4. ASSUME NEW o \in Ops
      PROVE  RowInv(o)'
  <2>1. RowInv(o)
    BY DEF LiveInv
  <2>2. rows[o].st \in {"FULLY_CONFIRMED", "FINALISED"} => rows[o] # NoRow
    BY DEF NoRow
  <2> QED
    BY <1>1, <2>1, <2>2 DEF RowInv, ClosedStays, RejectedStays
<1> QED
  BY <1>2, <1>3, <1>4

-----------------------------------------------------------------------------
\* Steps of one process that change its threads, its operation, the rows, the
\* durable positions or a request of its own, and nothing else.

otherState == <<authority, ep, rec, trade, held, fill, closer, pos, resident, quar, withheld,
                scan, verdict>>

(* Such a step keeps the invariant when it leaves its own process right.    *)
LEMMA ProcessStep ==
    ASSUME LiveInv, NEW p \in Procs,
           UNCHANGED otherState,
           thread' \in [Procs -> [Threads -> ThreadRecord]],
           memop' \in [Procs -> CloseOperation \cup {NoMem}],
           \A q \in Procs \ {p} : thread'[q] = thread[q] /\ memop'[q] = memop[q],
           JournalInv', RowsGrow, \A o \in Ops : RowInv(o)',
           wire' \in [Ops -> {"unsent", "sent", "rejected", "filled"}],
           RejectedStays, UnsentStays(p),
           dur' \in [Trades -> Position \cup {NoPos}], TradeInv',
           ProcInv(p)',
           thread'[p]["cycle"].at \in OwnSteps
               => \/ thread[p]["cycle"].at \in OwnSteps /\ Current(p)' = Current(p)
                  \/ rows[Current(p)'] = NoRow
    PROVE  LiveInv'
<1> USE DEF otherState
<1>1. TypeOK'
  BY DEF LiveInv, TypeOK, FenceTypeOK, ThreadRecord, JournalInv
<1>2. ClosedStays
  BY DEF ClosedStays, Closed
<1>3. ASSUME NEW q \in Procs
      PROVE  ProcInv(q)'
  <2>1. CASE q = p
    BY <2>1
  <2>2. CASE q # p
    <3>1. thread[q]["cycle"].at \in UnsentSteps => wire'[Current(q)] = "unsent"
      BY <2>2 DEF LiveInv, ProcInv, CallInv, UnsentStays
    <3> QED
      BY <1>2, <2>2, <3>1, ProcessKept
  <2> QED
    BY <2>1, <2>2
<1>4. OneCaller'
  <2>1. \A q \in Procs : thread[q]["cycle"].at \in OwnSteps => rows[Current(q)] # NoRow
    BY DEF LiveInv, ProcInv, CallInv
  <2> QED
    BY <2>1 DEF LiveInv, OneCaller, Current, Op
<1>5. ASSUME NEW s \in Sessions, NEW o \in Ops
      PROVE  ScanInv(s, o)'
  BY <1>2, ScanKept
<1>6. ASSUME NEW s \in Operators
      PROVE  VerdictInv(s)'
  BY <1>2, VerdictKept
<1>7. ExposureAccounted'
  BY DEF LiveInv, ExposureAccounted, LiveManagementPermitted, AuthorityMatches
<1>8. EpochsUnique'
  BY DEF LiveInv, EpochsUnique
<1> QED
  BY <1>1, <1>3, <1>4, <1>5, <1>6, <1>7, <1>8 DEF LiveInv

\* Where the management cycle of p may go with operation m in memory.
Placed(p, r, m) ==
    /\ r.at \in StartSteps => thread[p]["cycle"].at \in StartSteps
    /\ r.at \in CloseSteps => pos[p] \in Position
    /\ r.at \in CloseSteps \ OwnSteps => r.view \in View
    /\ r.at \in {"reserve"} \cup OwnSteps => m \in CloseOperation
    /\ r.at \in OwnSteps =>
          /\ r.op \in Ops
          /\ rows'[r.op] # NoRow
          /\ (thread[p]["cycle"].at \in OwnSteps /\ r.op = Current(p)) \/ rows[r.op] = NoRow
    /\ r.at \in UnsentSteps => wire'[r.op] = "unsent"
    /\ r.at = "mark" =>
          /\ m.st # "FINALISED"
          /\ m.st = "REJECTED_CONFIRMED" => wire'[r.op] = "rejected"
          /\ m.st = "FULLY_CONFIRMED" => Closed(rows'[r.op].trade)
    /\ r.at \in {"finalise", "pop"} =>
          /\ r.op \in Ops
          /\ rows'[r.op] # NoRow
          /\ Closed(rows'[r.op].trade)

(* A management cycle that goes to such a place keeps the invariant.        *)
LEMMA CycleStep ==
    ASSUME LiveInv, NEW p \in Procs, NEW r \in ThreadRecord, NEW m \in CloseOperation \cup {NoMem},
           Moved(p, "cycle", r), memop' = [memop EXCEPT ![p] = m],
           UNCHANGED otherState,
           JournalInv', RowsGrow, \A o \in Ops : RowInv(o)',
           wire' \in [Ops -> {"unsent", "sent", "rejected", "filled"}],
           RejectedStays, UnsentStays(p),
           dur' \in [Trades -> Position \cup {NoPos}], TradeInv',
           Placed(p, r, m)
    PROVE  LiveInv'
<1> USE DEF otherState
<1>1. memop \in [Procs -> CloseOperation \cup {NoMem}]
  BY DEF LiveInv, TypeOK
<1>2. /\ memop' \in [Procs -> CloseOperation \cup {NoMem}]
      /\ memop'[p] = m
      /\ \A q \in Procs \ {p} : memop'[q] = memop[q]
  BY <1>1
<1>3. /\ thread' \in [Procs -> [Threads -> ThreadRecord]]
      /\ thread'[p]["cycle"] = r
      /\ thread'[p]["reconciler"] = thread[p]["reconciler"]
      /\ \A q \in Procs \ {p} : thread'[q] = thread[q]
  BY DEF Moved, Threads
<1>4. ProcInv(p)
  BY DEF LiveInv
<1>5. PlaceInv(p)'
  BY <1>3, <1>4 DEF ProcInv, PlaceInv, Placed, At
<1>6. CallInv(p)'
  BY <1>2, <1>3 DEF CallInv, Placed, Current, Op, Cycle, At, Closed
<1>7. DeleteInv(p, "cycle")'
  BY <1>3 DEF DeleteInv, Placed, Op, Closed
<1>8. DeleteInv(p, "reconciler")'
  <2>1. DeleteInv(p, "reconciler")
    BY <1>4 DEF ProcInv, Threads
  <2> QED
    BY <1>3, <2>1 DEF DeleteInv, Op, Closed, RowsGrow
<1>9. ProcInv(p)'
  BY <1>5, <1>6, <1>7, <1>8 DEF ProcInv, Threads
<1>10. thread'[p]["cycle"].at \in OwnSteps
          => \/ thread[p]["cycle"].at \in OwnSteps /\ Current(p)' = Current(p)
             \/ rows[Current(p)'] = NoRow
  BY <1>3 DEF Placed, Current, Op
<1> QED
  BY <1>2, <1>3, <1>9, <1>10, ProcessStep

-----------------------------------------------------------------------------
\* Steps of the cycle that change its place and its operation alone.

quietState == <<rows, broker, dur, otherState>>

(* Such a step keeps the invariant when the place is right.                 *)
LEMMA QuietStep ==
    ASSUME LiveInv, NEW p \in Procs, NEW r \in ThreadRecord, NEW m \in CloseOperation \cup {NoMem},
           Moved(p, "cycle", r), memop' = [memop EXCEPT ![p] = m],
           UNCHANGED quietState,
           Placed(p, r, m)
    PROVE  LiveInv'
<1> USE DEF quietState, broker, otherState
<1>1. UNCHANGED otherState
  OBVIOUS
<1>2. ClosedStays /\ RejectedStays /\ UnsentStays(p)
  BY DEF ClosedStays, Closed, RejectedStays, UnsentStays
<1>3. RowsGrow /\ JournalInv' /\ \A o \in Ops : RowInv(o)'
  BY <1>2, RowsKept
<1>4. /\ wire' \in [Ops -> {"unsent", "sent", "rejected", "filled"}]
      /\ dur' \in [Trades -> Position \cup {NoPos}]
  BY DEF LiveInv, TypeOK
<1>5. TradeInv'
  BY DEF LiveInv, TradeInv, Durable, Closed
<1> QED
  BY <1>1, <1>2, <1>3, <1>4, <1>5, CycleStep

(* The process's operation, set to a value of its type.                     *)
LEMMA MemSet ==
    ASSUME LiveInv, NEW p \in Procs
    PROVE  /\ memop[p] \in CloseOperation \cup {NoMem}
           /\ memop = [memop EXCEPT ![p] = memop[p]]
           /\ \A st \in ConfirmationStates :
                 memop[p] \in CloseOperation => [memop[p] EXCEPT !.st = st] \in CloseOperation
BY DEF LiveInv, TypeOK, CloseOperation

(* Leaving the cycle keeps the invariant, whatever is left in memory.       *)
LEMMA LeaveQuietly ==
    ASSUME LiveInv, NEW p \in Procs, NEW m \in CloseOperation \cup {NoMem},
           memop' = [memop EXCEPT ![p] = m], Leave(p, "cycle"), UNCHANGED quietState
    PROVE  LiveInv'
<1>1. Idle \in ThreadRecord /\ Moved(p, "cycle", Idle)
  BY LeaveMoves DEF LiveInv, Threads
<1>2. Placed(p, Idle, m)
  BY DEF Placed, Idle, StartSteps, CloseSteps, OwnSteps, UnsentSteps
<1> QED
  BY <1>1, <1>2, QuietStep

(* What is known of a close attempt that has a row.                         *)
LEMMA AttemptFacts ==
    ASSUME LiveInv, NEW p \in Procs, thread[p]["cycle"].at \in OwnSteps
    PROVE  /\ pos[p] \in Position /\ memop[p] \in CloseOperation
           /\ Current(p) \in Ops /\ rows[Current(p)] # NoRow /\ rows[Current(p)] \in Row
           /\ thread[p]["cycle"].at \in UnsentSteps => wire[Current(p)] = "unsent"
<1>1. ProcInv(p)
  BY DEF LiveInv
<1>2. Current(p) \in Ops /\ rows[Current(p)] # NoRow
  BY <1>1 DEF ProcInv, CallInv
<1>3. rows[Current(p)] \in Row
  BY <1>2, RowFacts DEF LiveInv, JournalInv
<1> QED
  BY <1>1, <1>2, <1>3 DEF ProcInv, PlaceInv, CallInv, CloseSteps, OwnSteps

(* Going on within a close attempt, with another operation in memory.       *)
LEMMA GoOn ==
    ASSUME LiveInv, NEW p \in Procs, thread[p]["cycle"].at \in OwnSteps,
           NEW step \in OwnSteps, Then(p, step),
           NEW m \in CloseOperation, memop' = [memop EXCEPT ![p] = m],
           UNCHANGED quietState,
           step \in UnsentSteps => thread[p]["cycle"].at \in UnsentSteps,
           step = "mark" => /\ m.st # "FINALISED"
                            /\ m.st = "REJECTED_CONFIRMED" => wire[Current(p)] = "rejected"
                            /\ m.st = "FULLY_CONFIRMED" => Closed(rows[Current(p)].trade)
    PROVE  LiveInv'
<1>1. step \in Steps
  BY DEF OwnSteps, Steps, CloseSteps
<1>2. PICK r \in ThreadRecord : Moved(p, "cycle", r) /\ r.at = step /\ r.op = Current(p)
  BY <1>1, GotoMoves DEF Then, LiveInv, Threads, Current
<1>3. Placed(p, r, m)
  BY <1>2, AttemptFacts DEF Placed, OwnSteps, UnsentSteps, CloseSteps, StartSteps, quietState, broker
<1> QED
  BY <1>2, <1>3, QuietStep

(* _mark before _persist: a decision the journal is to record.              *)
LEMMA DecideKeeps ==
    ASSUME LiveInv, NEW p \in Procs, thread[p]["cycle"].at \in OwnSteps,
           NEW st \in ConfirmationStates, Decide(p, st), st # "FINALISED",
           st = "REJECTED_CONFIRMED" => wire[Current(p)] = "rejected",
           st = "FULLY_CONFIRMED" => Closed(rows[Current(p)].trade),
           UNCHANGED quietState
    PROVE  LiveInv'
<1> DEFINE m == [memop[p] EXCEPT !.st = st]
<1>1. memop[p] \in CloseOperation
  BY AttemptFacts
<1>2. m \in CloseOperation /\ m.st = st
  BY <1>1 DEF CloseOperation
<1>3. memop' = [memop EXCEPT ![p] = m]
  BY <1>1 DEF Decide, LiveInv, TypeOK
<1>4. "mark" \in OwnSteps /\ "mark" \notin UnsentSteps
  BY DEF OwnSteps, UnsentSteps
<1> HIDE DEF m
<1>5. Then(p, "mark")
  BY DEF Decide
<1> QED
  BY <1>2, <1>3, <1>4, <1>5, GoOn

(* A step from one place of the attempt to the next.                        *)
LEMMA ThenKeeps ==
    ASSUME LiveInv, NEW p \in Procs, thread[p]["cycle"].at \in OwnSteps,
           NEW step \in OwnSteps \ {"mark"}, Then(p, step), UNCHANGED memop, UNCHANGED quietState,
           step \in UnsentSteps => thread[p]["cycle"].at \in UnsentSteps
    PROVE  LiveInv'
BY AttemptFacts, MemSet, GoOn

-----------------------------------------------------------------------------
\* The cycle before it has a row: LoadBrokerView, StartClose, FindBlocker, ...

\* The definitions that say what such an action leaves alone.
LEMMA Quiet ==
    UNCHANGED <<broker, journal, book, otherProcess>> => UNCHANGED quietState
BY DEF broker, journal, book, otherProcess, quietState, otherState

(* Reading the broker before the start-up sequence keeps the invariant      *)
(* (load_startup_broker_view).                                              *)
LEMMA LoadBrokerViewKeeps ==
    ASSUME LiveInv, NEW p \in Procs, LoadBrokerView(p)
    PROVE  LiveInv'
<1>1. PICK v \in {[trade |-> trade, units |-> held], NoView} :
         thread' = [thread EXCEPT ![p]["cycle"] = [at |-> "start", op |-> NoOp, view |-> v]]
  BY DEF LoadBrokerView
<1> DEFINE r == [at |-> "start", op |-> NoOp, view |-> v]
<1>2. r \in ThreadRecord
  BY DEF LiveInv, TypeOK, ThreadRecord, View, Steps, StartSteps
<1>3. Moved(p, "cycle", r)
  BY <1>1, <1>2, PutMoves DEF LiveInv, Threads
<1>4. r.at = "start"
  OBVIOUS
<1> HIDE DEF r
<1>5. Placed(p, r, memop[p])
  BY <1>4 DEF Placed, LoadBrokerView, At, StartSteps, CloseSteps, OwnSteps, UnsentSteps
<1>6. UNCHANGED memop /\ UNCHANGED quietState
  BY Quiet DEF LoadBrokerView
<1> QED
  BY <1>2, <1>3, <1>5, <1>6, MemSet, QuietStep

(* Beginning to close a position of the book keeps the invariant            *)
(* (run_guarded_live_close).                                                *)
LEMMA StartCloseKeeps ==
    ASSUME LiveInv, NEW p \in Procs, StartClose(p)
    PROVE  LiveInv'
<1> DEFINE v == [trade |-> pos[p].trade, units |-> pos[p].units]
           r == [at |-> "persist_position", op |-> NoOp, view |-> v]
<1>1. pos[p] \in Position
  BY DEF StartClose, ManagementPermitted, LiveInv, ProcInv, PlaceInv
<1>2. v \in View
  BY <1>1 DEF Position, View
<1>3. r \in ThreadRecord /\ r.at = "persist_position" /\ r.view \in View
  BY <1>2 DEF ThreadRecord, Steps, CloseSteps
<1>4. thread' = [thread EXCEPT ![p]["cycle"] = r]
  BY DEF StartClose
<1> HIDE DEF r
<1>5. Moved(p, "cycle", r)
  BY <1>3, <1>4, PutMoves DEF LiveInv, Threads
<1>6. Placed(p, r, memop[p])
  BY <1>1, <1>3 DEF Placed, StartSteps, CloseSteps, OwnSteps, UnsentSteps
<1>7. UNCHANGED memop /\ UNCHANGED quietState
  BY Quiet DEF StartClose
<1> QED
  BY <1>3, <1>5, <1>6, <1>7, MemSet, QuietStep

(* Going on with the operation found keeps the invariant: the deletion      *)
(* checks it again (blocking_trade, _reserve).                              *)
LEMMA FoundKeeps ==
    ASSUME LiveInv, NEW p \in Procs, NEW o \in Ops \cup {NoOp}, NEW st \in ConfirmationStates,
           Found(p, o, st), UNCHANGED memop, UNCHANGED quietState
    PROVE  LiveInv'
<1>1. CASE st = "FULLY_CONFIRMED"
  <2> DEFINE r == [Idle EXCEPT !.at = "delete", !.op = o]
  <2>1. r \in ThreadRecord /\ r.at = "delete"
    BY DEF ThreadRecord, Idle, Steps, DeleteSteps
  <2>2. thread' = [thread EXCEPT ![p]["cycle"] = r]
    BY <1>1 DEF Found
  <2> HIDE DEF r
  <2>3. Moved(p, "cycle", r)
    BY <2>1, <2>2, PutMoves DEF LiveInv, Threads
  <2>4. Placed(p, r, memop[p])
    BY <2>1 DEF Placed, StartSteps, CloseSteps, OwnSteps, UnsentSteps
  <2> QED
    BY <2>1, <2>3, <2>4, MemSet, QuietStep
<1>2. CASE st # "FULLY_CONFIRMED"
  BY <1>2, MemSet, LeaveQuietly DEF Found
<1> QED
  BY <1>1, <1>2

(* Looking for an unsettled operation keeps the invariant.                  *)
LEMMA FindBlockerKeeps ==
    ASSUME LiveInv, NEW p \in Procs, FindBlocker(p)
    PROVE  LiveInv'
<1>0. UNCHANGED quietState
  BY Quiet DEF FindBlocker
<1>1. CASE BlockingTrade(pos[p].trade)
  <2>1. PICK o \in UnresolvedOn(pos[p].trade) : Found(p, o, rows[o].st)
    BY <1>1 DEF FindBlocker
  <2>2. o \in Ops /\ rows[o].st \in ConfirmationStates /\ UNCHANGED memop
    BY <1>1 DEF FindBlocker, UnresolvedOn, Blocking, ConfirmationStates
  <2> QED
    BY <1>0, <2>1, <2>2, FoundKeeps
<1>2. CASE ~BlockingTrade(pos[p].trade) /\ MemBlocks(p)
  <2>1. memop[p].st \in ConfirmationStates /\ memop[p].op \in Ops \cup {NoOp}
    BY <1>2, MemSet DEF MemBlocks, ConfirmationStates, CloseOperation, NoMem
  <2> QED
    BY <1>0, <1>2, <2>1, FoundKeeps DEF FindBlocker
<1>3. CASE ~BlockingTrade(pos[p].trade) /\ ~MemBlocks(p)
  <2> DEFINE m == [NoMem EXCEPT !.st = "PREPARED"]
  <2>1. m \in CloseOperation
    BY DEF NoMem, CloseOperation, ConfirmationStates, Unsettled
  <2>2. memop' = [memop EXCEPT ![p] = m] /\ Then(p, "reserve")
    BY <1>3 DEF FindBlocker
  <2> HIDE DEF m
  <2>3. PICK r \in ThreadRecord : /\ Moved(p, "cycle", r) /\ r.at = "reserve"
                                  /\ r.view = thread[p]["cycle"].view
    BY <2>2, GotoMoves DEF Then, LiveInv, Threads, Steps, CloseSteps
  <2>4. pos[p] \in Position /\ thread[p]["cycle"].view \in View
    <3>1. PlaceInv(p) /\ thread[p]["cycle"].at = "find_blocker"
      BY DEF LiveInv, ProcInv, FindBlocker, Cycle, At
    <3> QED
      BY <3>1 DEF PlaceInv, CloseSteps, OwnSteps
  <2>5. Placed(p, r, m)
    BY <2>1, <2>3, <2>4 DEF Placed, StartSteps, CloseSteps, OwnSteps, UnsentSteps
  <2> QED
    BY <1>0, <2>1, <2>2, <2>3, <2>5, QuietStep
<1> QED
  BY <1>1, <1>2, <1>3

(* A close that is not admitted keeps the invariant (_release_unsent,       *)
(* JournalUnavailable).                                                     *)
LEMMA NotAdmittedKeeps ==
    ASSUME LiveInv, NEW p \in Procs, OrdersDisabled(p) \/ JournalRefuses(p)
    PROVE  LiveInv'
<1>1. CASE OrdersDisabled(p)
  <2>1. memop' = [memop EXCEPT ![p] = NoMem] /\ Leave(p, "cycle") /\ UNCHANGED quietState
    BY <1>1, Quiet DEF OrdersDisabled
  <2> QED
    BY <2>1, LeaveQuietly
<1>2. CASE JournalRefuses(p)
  <2> DEFINE m == [memop[p] EXCEPT !.st = "RECONCILIATION_REQUIRED"]
  <2>1. memop[p] \in CloseOperation
    BY <1>2 DEF JournalRefuses, LiveInv, ProcInv, CallInv, OwnSteps
  <2>2. m \in CloseOperation
    BY <2>1, MemSet DEF ConfirmationStates, Unsettled
  <2>3. memop' = [memop EXCEPT ![p] = m]
    BY <1>2 DEF JournalRefuses, LiveInv, TypeOK
  <2> HIDE DEF m
  <2>4. Leave(p, "cycle") /\ UNCHANGED quietState
    BY <1>2, Quiet DEF JournalRefuses
  <2> QED
    BY <2>2, <2>3, <2>4, LeaveQuietly
<1> QED
  BY <1>1, <1>2

-----------------------------------------------------------------------------
\* The cycle once it has a row: IssuePermit to Verify, and Send.

(* The steps of the submission that only decide where to go keep the        *)
(* invariant (_begin_submit, _submit_position_close_body).                  *)
LEMMA SubmissionKeeps ==
    ASSUME LiveInv, NEW p \in Procs,
           IssuePermit(p) \/ BeginSubmit(p) \/ CheckAuthority(p) \/ ClaimRefused(p) \/ Recheck(p)
    PROVE  LiveInv'
<1>0. UNCHANGED quietState
  BY Quiet DEF IssuePermit, BeginSubmit, CheckAuthority, ClaimRefused, Recheck
<1>1. thread[p]["cycle"].at \in OwnSteps /\ thread[p]["cycle"].at \in UnsentSteps
  BY DEF IssuePermit, BeginSubmit, CheckAuthority, ClaimRefused, Recheck, Cycle, At, OwnSteps,
         UnsentSteps
<1>2. memop[p] \in CloseOperation /\ Current(p) \in Ops
  BY <1>1, AttemptFacts
<1>3. "RECONCILIATION_REQUIRED" \in ConfirmationStates
  BY DEF ConfirmationStates, Unsettled
<1>4. CASE Decide(p, "RECONCILIATION_REQUIRED")
  BY <1>0, <1>1, <1>3, <1>4, DecideKeeps
<1>5. CASE IssuePermit(p)
  <2> DEFINE m == [memop[p] EXCEPT !.op = Current(p)]
  <2>1. m \in CloseOperation
    BY <1>2 DEF CloseOperation
  <2>2. memop' = [memop EXCEPT ![p] = m] /\ Then(p, "begin_submit")
    BY <1>2, <1>5 DEF IssuePermit, LiveInv, TypeOK
  <2> HIDE DEF m
  <2>3. "begin_submit" \in OwnSteps
    BY DEF OwnSteps
  <2> QED
    BY <1>0, <1>1, <2>1, <2>2, <2>3, GoOn
<1>6. ASSUME memop' = [memop EXCEPT ![p].st = "SUBMITTING"], Then(p, "check_authority")
      PROVE  LiveInv'
  <2> DEFINE m == [memop[p] EXCEPT !.st = "SUBMITTING"]
  <2>1. m \in CloseOperation
    BY <1>2, MemSet DEF ConfirmationStates, Unsettled
  <2>2. memop' = [memop EXCEPT ![p] = m]
    BY <1>2, <1>6 DEF LiveInv, TypeOK
  <2> HIDE DEF m
  <2>3. "check_authority" \in OwnSteps /\ Then(p, "check_authority")
    BY <1>6 DEF OwnSteps
  <2> QED
    BY <1>0, <1>1, <2>1, <2>2, <2>3, GoOn
<1>7. ASSUME NEW step \in {"claim", "send"}, Then(p, step), UNCHANGED memop
      PROVE  LiveInv'
  <2>1. step \in OwnSteps \ {"mark"} /\ step \in UnsentSteps
    BY DEF OwnSteps, UnsentSteps
  <2> QED
    BY <1>0, <1>1, <1>7, <2>1, ThenKeeps
<1>8. CASE BeginSubmit(p)
  BY <1>4, <1>6, <1>8 DEF BeginSubmit
<1>9. CASE CheckAuthority(p)
  BY <1>4, <1>7, <1>9 DEF CheckAuthority
<1>10. CASE ClaimRefused(p)
  BY <1>4, <1>10 DEF ClaimRefused
<1>11. CASE Recheck(p)
  BY <1>4, <1>7, <1>11 DEF Recheck
<1> QED
  BY <1>5, <1>8, <1>9, <1>10, <1>11

(* What the broker's answer, or its absence, is taken for keeps the         *)
(* invariant: only a refused request is called rejected, and only a trade   *)
(* that this request closed is called closed (interpret_close_response,     *)
(* apply_transaction_body).                                                 *)
LEMMA AnswerKeeps ==
    ASSUME LiveInv, NEW p \in Procs, RequestFails(p) \/ Response(p) \/ Interpret(p) \/ Verify(p)
    PROVE  LiveInv'
<1>0. UNCHANGED quietState
  BY Quiet DEF RequestFails, Response, Interpret, Verify
<1>1. thread[p]["cycle"].at \in OwnSteps
  BY DEF RequestFails, Response, Interpret, Verify, Cycle, At, OwnSteps, MayRaise
<1>2. /\ memop[p] \in CloseOperation /\ Current(p) \in Ops /\ rows[Current(p)] \in Row
      /\ memop \in [Procs -> CloseOperation \cup {NoMem}]
  BY <1>1, AttemptFacts DEF LiveInv, TypeOK
<1>3. ASSUME NEW st \in {"OUTCOME_AMBIGUOUS", "RESPONSE_RECEIVED", "RECONCILIATION_REQUIRED",
                         "CONFIRMATION_PENDING", "PARTIALLY_CONFIRMED"},
             Decide(p, st)
      PROVE  LiveInv'
  <2>1. st \in ConfirmationStates /\ st \notin {"FINALISED", "REJECTED_CONFIRMED", "FULLY_CONFIRMED"}
    BY DEF ConfirmationStates, Unsettled
  <2> QED
    BY <1>0, <1>1, <1>3, <2>1, DecideKeeps
<1>4. ASSUME wire[Current(p)] = "rejected", Decide(p, "REJECTED_CONFIRMED")
      PROVE  LiveInv'
  <2>1. "REJECTED_CONFIRMED" \in ConfirmationStates
    BY DEF ConfirmationStates, Resolved
  <2> QED
    BY <1>0, <1>1, <1>4, <2>1, DecideKeeps
<1>5. ASSUME Decide(p, Evidence(Current(p), Current(p)))
      PROVE  LiveInv'
  <2> DEFINE o == Current(p)
  <2>1. CASE Evidence(o, o) = "FULLY_CONFIRMED"
    <3>1. closer[rows[o].trade] = o /\ o # NoOp
      BY <1>2, <2>1, NoOpAssumption DEF Evidence
    <3>2. Closed(rows[o].trade)
      BY <3>1 DEF Closed
    <3>3. "FULLY_CONFIRMED" \in ConfirmationStates
      BY DEF ConfirmationStates, Unsettled
    <3> QED
      BY <1>0, <1>1, <1>5, <2>1, <3>2, <3>3, DecideKeeps
  <2>2. CASE Evidence(o, o) # "FULLY_CONFIRMED"
    <3>1. Evidence(o, o) \in {"PARTIALLY_CONFIRMED", "RECONCILIATION_REQUIRED"}
      BY <2>2 DEF Evidence
    <3> QED
      BY <1>3, <1>5, <3>1
  <2> QED
    BY <2>1, <2>2
<1>6. ASSUME memop' = [memop EXCEPT ![p].tx = Current(p)], Then(p, "verify")
      PROVE  LiveInv'
  <2> DEFINE m == [memop[p] EXCEPT !.tx = Current(p)]
  <2>1. m \in CloseOperation
    BY <1>2, TransactionAssumption DEF CloseOperation
  <2>2. memop' = [memop EXCEPT ![p] = m]
    BY <1>2, <1>6
  <2> HIDE DEF m
  <2>3. "verify" \in OwnSteps /\ "verify" \notin UnsentSteps
    BY DEF OwnSteps, UnsentSteps
  <2> QED
    BY <1>0, <1>1, <1>6, <2>1, <2>2, <2>3, GoOn
<1>7. ASSUME memop' = [memop EXCEPT ![p].tx = Current(p), ![p].st = "RECONCILIATION_REQUIRED"],
             Then(p, "mark")
      PROVE  LiveInv'
  <2> DEFINE m == [[memop[p] EXCEPT !.tx = Current(p)] EXCEPT !.st = "RECONCILIATION_REQUIRED"]
  <2>1. m \in CloseOperation /\ m.st = "RECONCILIATION_REQUIRED"
    BY <1>2, TransactionAssumption DEF CloseOperation, ConfirmationStates, Unsettled
  <2>2. memop' = [memop EXCEPT ![p] = m]
    BY <1>2, <1>7
  <2> HIDE DEF m
  <2>3. "mark" \in OwnSteps /\ "mark" \notin UnsentSteps
    BY DEF OwnSteps, UnsentSteps
  <2> QED
    BY <1>0, <1>1, <1>7, <2>1, <2>2, <2>3, GoOn
<1>8. CASE RequestFails(p) \/ Response(p)
  BY <1>3, <1>8 DEF RequestFails, Response, OutcomeOfException
<1>9. CASE Interpret(p)
  BY <1>3, <1>4, <1>6, <1>7, <1>9 DEF Interpret
<1>10. CASE Verify(p)
  BY <1>3, <1>5, <1>10 DEF Verify
<1> QED
  BY <1>8, <1>9, <1>10

(* Sending the request keeps the invariant: no other attempt has this row.  *)
LEMMA SendKeeps ==
    ASSUME LiveInv, NEW p \in Procs, Send(p)
    PROVE  LiveInv'
<1> USE DEF Send
<1>1. thread[p]["cycle"].at = "send" /\ thread[p]["cycle"].at \in OwnSteps
      /\ thread[p]["cycle"].at \in UnsentSteps
  BY DEF Cycle, At, OwnSteps, UnsentSteps
<1>2. /\ pos[p] \in Position /\ memop[p] \in CloseOperation /\ Current(p) \in Ops
      /\ rows[Current(p)] # NoRow /\ rows[Current(p)] \in Row /\ wire[Current(p)] = "unsent"
  BY <1>1, AttemptFacts
<1>3. wire \in [Ops -> {"unsent", "sent", "rejected", "filled"}]
  BY DEF LiveInv, TypeOK
<1>4. /\ wire' \in [Ops -> {"unsent", "sent", "rejected", "filled"}]
      /\ \A o \in Ops : wire'[o] = IF o = Current(p) THEN "sent" ELSE wire[o]
  BY <1>2, <1>3
<1>5. RejectedStays
  BY <1>2, <1>4 DEF RejectedStays
<1>6. UnsentStays(p)
  <2> SUFFICES ASSUME NEW q \in Procs \ {p}, thread[q]["cycle"].at \in UnsentSteps,
                      wire[Current(q)] = "unsent"
               PROVE  wire'[Current(q)] = "unsent"
    BY DEF UnsentStays
  <2>1. thread[q]["cycle"].at \in OwnSteps
    BY DEF UnsentSteps, OwnSteps
  <2>2. Current(q) # Current(p)
    BY <1>1, <2>1 DEF LiveInv, OneCaller
  <2>3. Current(q) \in Ops
    BY <2>1, AttemptFacts
  <2> QED
    BY <1>4, <2>2, <2>3
<1>7. ClosedStays /\ RowsGrow
  BY DEF ClosedStays, Closed, RowsGrow, journal
<1>8. JournalInv'
  BY StepJournalInv DEF LiveInv, journal
<1>9. ASSUME NEW o \in Ops
      PROVE  RowInv(o)'
  <2>1. RowInv(o)
    BY DEF LiveInv
  <2> QED
    BY <1>2, <1>4, <2>1 DEF RowInv, Closed, journal
<1>10. dur' \in [Trades -> Position \cup {NoPos}] /\ TradeInv'
  BY DEF LiveInv, TypeOK, TradeInv, Durable, Closed, journal
<1>11. PICK r \in ThreadRecord : Moved(p, "cycle", r) /\ r.at = "await" /\ r.op = Current(p)
  BY GotoMoves DEF Then, LiveInv, Threads, Current, Steps, CloseSteps
<1>12. Placed(p, r, memop[p])
  BY <1>1, <1>2, <1>7, <1>11 DEF Placed, RowsGrow, StartSteps, CloseSteps, OwnSteps, UnsentSteps
<1>13. UNCHANGED otherState /\ UNCHANGED memop
  BY DEF journal, book, otherProcess, otherState
<1> QED
  BY <1>2, <1>4, <1>5, <1>6, <1>7, <1>8, <1>9, <1>10, <1>11, <1>12, <1>13, MemSet, CycleStep

-----------------------------------------------------------------------------
\* The cycle's transactions: ReserveRow to Persist, and PersistPosition.

(* A write that keeps the trade of one row, and says rejected or closed     *)
(* only of what is, keeps every row accounted for.                          *)
LEMMA WriteKeepsRows ==
    ASSUME LiveInv, NEW o \in Ops, rows[o] # NoRow, NEW r \in Row,
           rows' = [rows EXCEPT ![o] = r], r.trade = rows[o].trade,
           UNCHANGED <<closer, wire>>,
           r.st = "REJECTED_CONFIRMED" => wire[o] = "rejected",
           r.st \in {"FULLY_CONFIRMED", "FINALISED"} => Closed(r.trade)
    PROVE  RowsGrow /\ \A q \in Ops : RowInv(q)'
<1>1. r # NoRow
  BY DEF Row, NoRow, ConfirmationStates, Resolved, Unsettled
<1>2. \A q \in Ops : rows'[q] = IF q = o THEN r ELSE rows[q]
  BY DEF LiveInv, JournalInv, JournalTypeOK
<1>3. RowsGrow
  BY <1>1, <1>2 DEF RowsGrow
<1>4. ASSUME NEW q \in Ops
      PROVE  RowInv(q)'
  <2>1. RowInv(q)
    BY DEF LiveInv
  <2> QED
    BY <1>1, <1>2, <2>1 DEF RowInv, Closed
<1> QED
  BY <1>3, <1>4

(* Moving within the attempt with its row rewritten keeps the invariant.    *)
LEMMA CycleWrites ==
    ASSUME LiveInv, NEW p \in Procs, NEW r \in ThreadRecord, Moved(p, "cycle", r),
           NEW m \in CloseOperation \cup {NoMem}, memop' = [memop EXCEPT ![p] = m],
           UNCHANGED <<broker, dur, book, otherProcess>>,
           JournalInv', RowsGrow, \A o \in Ops : RowInv(o)', Placed(p, r, m)
    PROVE  LiveInv'
<1>1. UNCHANGED otherState /\ UNCHANGED wire /\ UNCHANGED dur /\ UNCHANGED trade /\ UNCHANGED held
      /\ UNCHANGED closer
  BY DEF broker, book, otherProcess, otherState
<1>2. /\ wire' \in [Ops -> {"unsent", "sent", "rejected", "filled"}]
      /\ dur' \in [Trades -> Position \cup {NoPos}]
  BY <1>1 DEF LiveInv, TypeOK
<1>3. RejectedStays /\ UnsentStays(p)
  BY <1>1 DEF RejectedStays, UnsentStays
<1>4. TradeInv'
  BY <1>1 DEF LiveInv, TradeInv, Durable, Closed
<1> QED
  BY <1>1, <1>2, <1>3, <1>4, CycleStep

(* Reserving a row keeps the invariant: nothing was ever sent for it        *)
(* (reserve).                                                               *)
LEMMA ReserveRowKeeps ==
    ASSUME LiveInv, NEW p \in Procs, NEW o \in Ops, ReserveRow(p, o)
    PROVE  LiveInv'
<1> DEFINE v == thread[p]["cycle"].view
           r == [Idle EXCEPT !.at = "commit_intent", !.op = o]
           d == PreparedRow(pos[p].trade, pos[p].gen, v.units)
<1>1. thread[p]["cycle"].at = "reserve" /\ Reserve(o, pos[p].trade, pos[p].gen, v.units)
  BY DEF ReserveRow, Cycle, At
<1>2. pos[p] \in Position /\ v \in View /\ memop[p] \in CloseOperation
  <2>1. ProcInv(p)
    BY DEF LiveInv
  <2> QED
    BY <1>1, <2>1 DEF ProcInv, PlaceInv, CallInv, CloseSteps, OwnSteps
<1>3. pos[p].trade \in Trades /\ pos[p].gen \in Nat /\ v.units \in Nat
  BY <1>2, BoundAssumption DEF Position, View
<1>4. JournalInv'
  BY <1>1, <1>3, ReserveInv DEF LiveInv
<1>5. d \in Row /\ d # NoRow /\ d.st = "PREPARED"
  BY <1>3 DEF PreparedRow, Row, NoRow, ConfirmationStates, Unsettled
<1>6. rows[o] = NoRow /\ \A q \in Ops : rows'[q] = IF q = o THEN d ELSE rows[q]
  BY <1>1 DEF Reserve, LiveInv, JournalInv, JournalTypeOK
<1>7. UNCHANGED <<broker, dur, book, otherProcess>> /\ UNCHANGED memop
  BY DEF ReserveRow
<1>8. r \in ThreadRecord /\ r.at = "commit_intent" /\ r.op = o
  BY DEF ThreadRecord, Idle, Steps, CloseSteps
<1>9. thread' = [thread EXCEPT ![p]["cycle"] = r]
  BY DEF ReserveRow
<1> HIDE DEF r, d
<1>10. RowsGrow
  BY <1>6 DEF RowsGrow
<1>11. wire[o] = "unsent"
  BY <1>6 DEF LiveInv, TypeOK, RowInv
<1>12. ASSUME NEW q \in Ops
       PROVE  RowInv(q)'
  <2>1. RowInv(q)
    BY DEF LiveInv
  <2> QED
    BY <1>5, <1>6, <1>7, <2>1 DEF RowInv, Closed, broker
<1>13. Moved(p, "cycle", r)
  BY <1>8, <1>9, PutMoves DEF LiveInv, Threads
<1>14. wire' = wire
  BY <1>7 DEF broker
<1>15. Placed(p, r, memop[p])
  BY <1>2, <1>5, <1>6, <1>8, <1>11, <1>14
     DEF Placed, StartSteps, CloseSteps, OwnSteps, UnsentSteps
<1> QED
  BY <1>4, <1>7, <1>8, <1>10, <1>12, <1>13, <1>15, MemSet, CycleWrites

(* Committing the intent and claiming the permit keep the invariant         *)
(* (commit_submission_intent, claim_network_permit).                        *)
LEMMA AuthorizeKeeps ==
    ASSUME LiveInv, NEW p \in Procs, CommitIntent(p) \/ ClaimPermit(p)
    PROVE  LiveInv'
<1> DEFINE o == Current(p)
<1>0. UNCHANGED <<broker, dur, book, otherProcess>> /\ UNCHANGED memop
  BY DEF CommitIntent, ClaimPermit
<1>1. thread[p]["cycle"].at \in OwnSteps /\ thread[p]["cycle"].at \in UnsentSteps
  BY DEF CommitIntent, ClaimPermit, Cycle, At, OwnSteps, UnsentSteps
<1>2. /\ pos[p] \in Position /\ memop[p] \in CloseOperation /\ o \in Ops
      /\ rows[o] # NoRow /\ rows[o] \in Row /\ wire[o] = "unsent" /\ p \in Sessions
  BY <1>1, AttemptFacts, SessionAssumption
<1>3. UNCHANGED closer /\ UNCHANGED wire
  BY <1>0 DEF broker
<1>4. JournalInv' /\ RowsGrow /\ \A q \in Ops : RowInv(q)'
  <2>1. CASE CommitIntent(p)
    <3> DEFINE r == [rows[o] EXCEPT !.intent = TRUE, !.owner = p, !.st = "SUBMITTING"]
    <3>1. rows' = [rows EXCEPT ![o] = r]
      BY <1>2, <2>1 DEF CommitIntent, CommitSubmissionIntent, LiveInv, JournalInv, JournalTypeOK, Row
    <3>2. r \in Row /\ r.trade = rows[o].trade /\ r.st = "SUBMITTING"
      BY <1>2 DEF Row, ConfirmationStates, Unsettled
    <3> HIDE DEF r
    <3>3. JournalInv'
      BY <1>2, <2>1, CommitIntentInv DEF CommitIntent, LiveInv
    <3> QED
      BY <1>2, <1>3, <3>1, <3>2, <3>3, WriteKeepsRows
  <2>2. CASE ClaimPermit(p)
    <3> DEFINE r == [rows[o] EXCEPT !.permit = TRUE]
    <3>1. rows' = [rows EXCEPT ![o] = r]
      BY <1>2, <2>2 DEF ClaimPermit, ClaimNetworkPermit, LiveInv, JournalInv, JournalTypeOK
    <3>2. r \in Row /\ r.trade = rows[o].trade /\ r.st = "SUBMITTING"
      BY <1>2, <2>2 DEF Row, ClaimPermit, ClaimNetworkPermit, MayClaim, SubmissionAuthorized
    <3> HIDE DEF r
    <3>3. JournalInv'
      BY <1>2, <2>2, ClaimPermitInv DEF ClaimPermit, LiveInv
    <3> QED
      BY <1>2, <1>3, <3>1, <3>2, <3>3, WriteKeepsRows
  <2> QED
    BY <2>1, <2>2
<1>5. PICK step \in {"issue_permit", "recheck"} : Then(p, step)
  BY DEF CommitIntent, ClaimPermit
<1>6. PICK r \in ThreadRecord : Moved(p, "cycle", r) /\ r.at = step /\ r.op = Current(p)
  BY <1>5, GotoMoves DEF Then, LiveInv, Threads, Current, Steps, CloseSteps
<1>7. Placed(p, r, memop[p])
  BY <1>1, <1>2, <1>3, <1>4, <1>6
     DEF Placed, RowsGrow, StartSteps, CloseSteps, OwnSteps, UnsentSteps
<1> QED
  BY <1>0, <1>4, <1>6, <1>7, MemSet, CycleWrites

(* What follows a _persist keeps the invariant, written or not.             *)
LEMMA AfterMarkKeeps ==
    ASSUME LiveInv, NEW p \in Procs, Cycle(p, "mark"), AfterMark(p),
           UNCHANGED <<broker, dur, book, otherProcess>>,
           JournalInv', RowsGrow, \A o \in Ops : RowInv(o)'
    PROVE  LiveInv'
<1>1. thread[p]["cycle"].at \in OwnSteps
  BY DEF Cycle, At, OwnSteps
<1>2. /\ pos[p] \in Position /\ memop[p] \in CloseOperation /\ Current(p) \in Ops
      /\ rows[Current(p)] # NoRow
  BY <1>1, AttemptFacts
<1>3. ASSUME NEW step \in {"interpret", "delete"}, Then(p, step), UNCHANGED memop
      PROVE  LiveInv'
  <2>1. PICK r \in ThreadRecord : Moved(p, "cycle", r) /\ r.at = step /\ r.op = Current(p)
    BY <1>3, GotoMoves DEF Then, LiveInv, Threads, Current, Steps, CloseSteps, DeleteSteps
  <2>2. Placed(p, r, memop[p])
    BY <1>1, <1>2, <2>1 DEF Placed, RowsGrow, StartSteps, CloseSteps, OwnSteps, UnsentSteps
  <2> QED
    BY <1>3, <2>1, <2>2, MemSet, CycleWrites
<1>4. ASSUME NEW m \in CloseOperation \cup {NoMem}, memop' = [memop EXCEPT ![p] = m], Leave(p, "cycle")
      PROVE  LiveInv'
  <2>1. Idle \in ThreadRecord /\ Moved(p, "cycle", Idle)
    BY <1>4, LeaveMoves DEF LiveInv, Threads
  <2>2. Placed(p, Idle, m)
    BY DEF Placed, Idle, StartSteps, CloseSteps, OwnSteps, UnsentSteps
  <2> QED
    BY <1>4, <2>1, <2>2, CycleWrites
<1>5. CASE memop[p].st = "RESPONSE_RECEIVED"
  BY <1>3, <1>5 DEF AfterMark
<1>6. CASE memop[p].st = "FULLY_CONFIRMED"
  BY <1>3, <1>6 DEF AfterMark
<1>7. CASE memop[p].st = "REJECTED_CONFIRMED"
  BY <1>4, <1>7 DEF AfterMark
<1>8. CASE memop[p].st \notin {"RESPONSE_RECEIVED", "FULLY_CONFIRMED", "REJECTED_CONFIRMED"}
  BY <1>4, <1>8, MemSet DEF AfterMark
<1> QED
  BY <1>5, <1>6, <1>7, <1>8

(* A mark keeps the rows accounted for when it says rejected or closed only *)
(* of what is (mark).                                                       *)
LEMMA MarkKeepsRows ==
    ASSUME LiveInv, NEW o \in Ops, NEW st \in ConfirmationStates \ {"FINALISED"},
           NEW tx \in Transactions \cup {NoOp}, Mark(o, st, tx),
           UNCHANGED <<closer, wire>>,
           st = "REJECTED_CONFIRMED" => wire[o] = "rejected",
           st = "FULLY_CONFIRMED" => Closed(rows[o].trade)
    PROVE  JournalInv' /\ RowsGrow /\ \A q \in Ops : RowInv(q)'
<1> DEFINE r == [rows[o] EXCEPT !.st = st, !.tx = tx]
<1>1. rows[o] \in Row /\ rows[o] # NoRow
  BY RowFacts DEF Mark, LiveInv, JournalInv
<1>2. rows' = [rows EXCEPT ![o] = r]
  BY <1>1 DEF Mark, LiveInv, JournalInv, JournalTypeOK
<1>3. r \in Row /\ r.trade = rows[o].trade /\ r.st = st
  BY <1>1 DEF Row
<1> HIDE DEF r
<1>4. JournalInv'
  BY MarkInv DEF LiveInv
<1> QED
  BY <1>1, <1>2, <1>3, <1>4, WriteKeepsRows

(* Recording what was decided keeps the invariant, whether the journal      *)
(* takes it or not (_persist).                                              *)
LEMMA PersistKeeps ==
    ASSUME LiveInv, NEW p \in Procs, Persist(p) \/ PersistFails(p)
    PROVE  LiveInv'
<1>1. Cycle(p, "mark") /\ AfterMark(p) /\ UNCHANGED <<broker, dur, book, otherProcess>>
  BY DEF Persist, PersistFails, journal
<1>2. thread[p]["cycle"].at \in OwnSteps
  BY <1>1 DEF Cycle, At, OwnSteps
<1>3. memop[p] \in CloseOperation /\ Current(p) \in Ops
  BY <1>2, AttemptFacts
<1>4. UNCHANGED <<closer, wire>>
  BY <1>1 DEF broker
<1>5. CASE Persist(p)
  <2>1. CallInv(p)
    BY DEF LiveInv, ProcInv
  <2>2. /\ memop[p].st \in ConfirmationStates \ {"FINALISED"}
        /\ memop[p].tx \in Transactions \cup {NoOp}
        /\ memop[p].st = "REJECTED_CONFIRMED" => wire[Current(p)] = "rejected"
        /\ memop[p].st = "FULLY_CONFIRMED" => Closed(rows[Current(p)].trade)
    BY <1>1, <1>3, <2>1 DEF CallInv, CloseOperation
  <2>3. Mark(Current(p), memop[p].st, memop[p].tx)
    BY <1>5 DEF Persist
  <2>4. JournalInv' /\ RowsGrow /\ \A q \in Ops : RowInv(q)'
    BY <1>3, <1>4, <2>2, <2>3, MarkKeepsRows
  <2> QED
    BY <1>1, <2>4, AfterMarkKeeps
<1>6. CASE PersistFails(p)
  <2>1. rows' = rows
    BY <1>6 DEF PersistFails, journal
  <2>2. ClosedStays /\ RejectedStays /\ \A o \in Ops : wire'[o] # "unsent" => wire[o] # "unsent"
    BY <1>4 DEF ClosedStays, Closed, RejectedStays
  <2>3. JournalInv' /\ RowsGrow /\ \A q \in Ops : RowInv(q)'
    BY <2>1, <2>2, RowsKept
  <2> QED
    BY <1>1, <2>3, AfterMarkKeeps
<1> QED
  BY <1>5, <1>6

(* Saving the position keeps the invariant (persist_bot_position).          *)
LEMMA PersistPositionKeeps ==
    ASSUME LiveInv, NEW p \in Procs, PersistPosition(p)
    PROVE  LiveInv'
<1>1. thread[p]["cycle"].at = "persist_position"
  BY DEF PersistPosition, Cycle, At
<1>2. pos[p] \in Position /\ thread[p]["cycle"].view \in View
  <2>1. PlaceInv(p)
    BY DEF LiveInv, ProcInv
  <2> QED
    BY <1>1, <2>1 DEF PlaceInv, CloseSteps, OwnSteps
<1>3. /\ UNCHANGED <<rows, memop, trade, held, closer, wire>>
      /\ UNCHANGED otherState
  BY DEF PersistPosition, broker, book, otherProcess, otherState
<1>4. pos[p].trade \in Trades /\ pos[p] # NoPos
  BY <1>2, TradeAssumption DEF Position, NoPos
<1>5. dur' = dur \/ dur' = [dur EXCEPT ![pos[p].trade] = pos[p]]
  BY DEF PersistPosition
<1>6. dur \in [Trades -> Position \cup {NoPos}]
  BY DEF LiveInv, TypeOK
<1>7. dur' \in [Trades -> Position \cup {NoPos}]
  BY <1>2, <1>5, <1>6
<1>8. \A t \in Trades : dur'[t] = dur[t] \/ (t = pos[p].trade /\ dur'[t] = pos[p])
  BY <1>4, <1>5, <1>6
<1>9. TradeInv'
  <2>1. TradeInv
    BY DEF LiveInv
  <2> QED
    BY <1>2, <1>3, <1>4, <1>8, <2>1 DEF TradeInv, Durable, Closed
<1>10. ClosedStays /\ RejectedStays /\ UnsentStays(p)
       /\ \A o \in Ops : wire'[o] # "unsent" => wire[o] # "unsent"
  BY <1>3 DEF ClosedStays, Closed, RejectedStays, UnsentStays
<1>11. RowsGrow /\ JournalInv' /\ \A o \in Ops : RowInv(o)'
  BY <1>3, <1>10, RowsKept
<1>12. wire' \in [Ops -> {"unsent", "sent", "rejected", "filled"}]
  BY <1>3 DEF LiveInv, TypeOK
<1>13. PICK r \in ThreadRecord :
          /\ Moved(p, "cycle", r)
          /\ r = Idle \/ (r.at = "find_blocker" /\ r.view = thread[p]["cycle"].view)
  <2>1. CASE PersistAdmitted(p)
    BY <2>1, GotoMoves DEF PersistPosition, Then, LiveInv, Threads, Steps, CloseSteps
  <2>2. CASE ~PersistAdmitted(p)
    BY <2>2, LeaveMoves DEF PersistPosition, LiveInv, Threads
  <2> QED
    BY <2>1, <2>2
<1>14. Placed(p, r, memop[p])
  BY <1>2, <1>13 DEF Placed, Idle, StartSteps, CloseSteps, OwnSteps, UnsentSteps
<1> QED
  BY <1>3, <1>7, <1>9, <1>10, <1>11, <1>12, <1>13, <1>14, MemSet, CycleStep

-----------------------------------------------------------------------------
\* The deletion, in either thread, and the reconciler.

(* Moving a thread to the checks of a deletion, to an adjustment or to rest *)
(* keeps the invariant.                                                     *)
LEMMA DeletionStep ==
    ASSUME LiveInv, NEW p \in Procs, NEW th \in Threads, NEW r \in ThreadRecord, Moved(p, th, r),
           UNCHANGED memop, UNCHANGED <<broker, dur, book, otherProcess>>,
           JournalInv', RowsGrow, \A o \in Ops : RowInv(o)',
           r.at \in {"idle", "delete", "finalise", "pop"} \/ (th = "reconciler" /\ r.at = "adjust"),
           th = "reconciler" => r = Idle \/ thread[p]["cycle"].at \notin StartSteps,
           r.at \in {"finalise", "pop"} =>
               r.op \in Ops /\ rows'[r.op] # NoRow /\ Closed(rows'[r.op].trade),
           r.at = "adjust" => /\ r.view \in View /\ MaxGen > 1
                              /\ p \in resident => pos[p].gen < MaxGen
    PROVE  LiveInv'
<1>1. CASE th = "cycle"
  <2>1. Placed(p, r, memop[p])
    BY <1>1 DEF Placed, StartSteps, CloseSteps, OwnSteps, UnsentSteps
  <2> QED
    BY <1>1, <2>1, MemSet, CycleWrites
<1>2. CASE th = "reconciler"
  <2>1. /\ thread' \in [Procs -> [Threads -> ThreadRecord]]
        /\ thread'[p]["cycle"] = thread[p]["cycle"]
        /\ thread'[p]["reconciler"] = r
        /\ \A q \in Procs \ {p} : thread'[q] = thread[q]
    BY <1>2 DEF Moved, Threads
  <2>2. UNCHANGED otherState /\ UNCHANGED <<wire, dur, trade, held, closer, pos, resident>>
    BY DEF broker, book, otherProcess, otherState
  <2>3. /\ wire' \in [Ops -> {"unsent", "sent", "rejected", "filled"}]
        /\ dur' \in [Trades -> Position \cup {NoPos}]
        /\ memop' \in [Procs -> CloseOperation \cup {NoMem}]
    BY <2>2 DEF LiveInv, TypeOK
  <2>4. RejectedStays /\ UnsentStays(p) /\ ClosedStays
    BY <2>2 DEF RejectedStays, UnsentStays, ClosedStays, Closed
  <2>5. TradeInv'
    BY <2>2 DEF LiveInv, TradeInv, Durable, Closed
  <2>6. ProcInv(p)
    BY DEF LiveInv
  <2>7. PlaceInv(p)'
    BY <1>2, <2>1, <2>2, <2>6 DEF ProcInv, PlaceInv, At
  <2>8. CallInv(p)'
    <3>1. \A o \in Ops : rows[o] # NoRow => rows[o].trade \in Trades
      BY RowFacts DEF LiveInv, JournalInv, Row
    <3> QED
      BY <2>1, <2>2, <2>4, <2>6, <3>1
         DEF ProcInv, CallInv, RowsGrow, ClosedStays, Cycle, At, Current, Op, OwnSteps
  <2>9. DeleteInv(p, "cycle")'
    <3>1. DeleteInv(p, "cycle")
      BY <2>6 DEF ProcInv, Threads
    <3> QED
      BY <2>1, <2>2, <3>1 DEF DeleteInv, Op, Closed, RowsGrow
  <2>10. DeleteInv(p, "reconciler")'
    BY <1>2, <2>1, <2>2 DEF DeleteInv, Op, Closed
  <2>11. ProcInv(p)'
    BY <2>7, <2>8, <2>9, <2>10 DEF ProcInv, Threads
  <2>12. Current(p)' = Current(p)
    BY <2>1 DEF Current, Op
  <2> QED
    BY <2>1, <2>2, <2>3, <2>4, <2>5, <2>11, <2>12, ProcessStep
<1> QED
  BY <1>1, <1>2 DEF Threads

(* A deletion whose checks pass is one of a closed trade                    *)
(* (close_confirmed_live_position).                                         *)
LEMMA CheckDeleteKeeps ==
    ASSUME LiveInv, NEW p \in Procs, NEW th \in Threads, CheckDelete(p, th)
    PROVE  LiveInv'
<1>1. UNCHANGED memop /\ UNCHANGED <<broker, dur, book, otherProcess>> /\ rows' = rows
  BY DEF CheckDelete, journal
<1>2. ClosedStays /\ RejectedStays /\ \A o \in Ops : wire'[o] # "unsent" => wire[o] # "unsent"
  BY <1>1 DEF ClosedStays, Closed, RejectedStays, broker
<1>3. JournalInv' /\ RowsGrow /\ \A q \in Ops : RowInv(q)'
  BY <1>1, <1>2, RowsKept
<1>4. thread[p][th].at = "delete" /\ thread[p][th] \in ThreadRecord
  BY DEF CheckDelete, At, LiveInv, TypeOK, ThreadRecord
<1>5. th = "reconciler" => thread[p]["cycle"].at \notin StartSteps
  <2>1. thread[p][th] # Idle
    BY <1>4 DEF Idle
  <2> QED
    BY <2>1 DEF LiveInv, ProcInv, PlaceInv
<1>6. CASE MayDelete(p, Op(p, th))
  <2>1. PICK r \in ThreadRecord : Moved(p, th, r) /\ r.at = "finalise" /\ r.op = Op(p, th)
    BY <1>6, GotoMoves DEF CheckDelete, LiveInv, Steps, DeleteSteps
  <2>2. r.op \in Ops /\ rows[r.op].st = "FULLY_CONFIRMED"
    BY <1>4, <1>6, <2>1 DEF MayDelete, ThreadRecord, Op
  <2>3. rows[r.op] # NoRow /\ Closed(rows[r.op].trade)
    BY <2>2 DEF LiveInv, RowInv, NoRow
  <2>4. rows'[r.op] # NoRow /\ Closed(rows'[r.op].trade)
    BY <1>1, <2>3
  <2> QED
    BY <1>1, <1>3, <1>5, <2>1, <2>2, <2>4, DeletionStep
<1>7. CASE ~MayDelete(p, Op(p, th))
  <2>1. Idle \in ThreadRecord /\ Moved(p, th, Idle) /\ Idle.at = "idle"
    BY <1>7, LeaveMoves DEF CheckDelete, LiveInv, Idle
  <2> QED
    BY <1>1, <1>3, <2>1, DeletionStep
<1> QED
  BY <1>6, <1>7

(* Recording the deletion keeps the invariant (finalise).                   *)
LEMMA FinaliseRowKeeps ==
    ASSUME LiveInv, NEW p \in Procs, NEW th \in Threads, FinaliseRow(p, th)
    PROVE  LiveInv'
<1>1. UNCHANGED memop /\ UNCHANGED <<broker, dur, book, otherProcess>> /\ UNCHANGED <<closer, wire>>
  BY DEF FinaliseRow, broker
<1>2. thread[p][th].at = "finalise"
  BY DEF FinaliseRow, At
<1>3. th = "reconciler" => thread[p]["cycle"].at \notin StartSteps
  <2>1. thread[p][th] # Idle
    BY <1>2 DEF Idle
  <2> QED
    BY <2>1 DEF LiveInv, ProcInv, PlaceInv
<1>4. Op(p, th) \in Ops /\ rows[Op(p, th)] # NoRow /\ Closed(rows[Op(p, th)].trade)
  BY <1>2 DEF LiveInv, ProcInv, DeleteInv
<1>5. CASE EpochExpected(p) /\ MayFinalise(Op(p, th))
  <2> DEFINE o == Op(p, th)
             d == [rows[o] EXCEPT !.st = "FINALISED"]
  <2>1. rows[o] \in Row
    BY <1>4, RowFacts DEF LiveInv, JournalInv
  <2>2. Finalise(o) /\ Goto(p, th, "pop")
    BY <1>5 DEF FinaliseRow
  <2>3. rows' = [rows EXCEPT ![o] = d]
    BY <2>1, <2>2 DEF Finalise, LiveInv, JournalInv, JournalTypeOK
  <2>4. d \in Row /\ d.trade = rows[o].trade /\ d.st = "FINALISED"
    BY <2>1 DEF Row, ConfirmationStates, Resolved
  <2> HIDE DEF d
  <2>5. JournalInv'
    BY <1>4, <2>2, FinaliseInv DEF LiveInv
  <2>6. RowsGrow /\ \A q \in Ops : RowInv(q)'
    BY <1>1, <1>4, <2>3, <2>4, WriteKeepsRows
  <2>7. PICK r \in ThreadRecord : Moved(p, th, r) /\ r.at = "pop" /\ r.op = o
    BY <2>2, GotoMoves DEF LiveInv, Steps, DeleteSteps
  <2>8. rows'[o] # NoRow /\ rows'[o].trade = rows[o].trade
    BY <1>4, <2>6 DEF RowsGrow
  <2> QED
    BY <1>1, <1>3, <1>4, <2>5, <2>6, <2>7, <2>8, DeletionStep
<1>6. CASE ~(EpochExpected(p) /\ MayFinalise(Op(p, th)))
  <2>1. rows' = rows /\ Leave(p, th)
    BY <1>6 DEF FinaliseRow
  <2>2. ClosedStays /\ RejectedStays /\ \A o \in Ops : wire'[o] # "unsent" => wire[o] # "unsent"
    BY <1>1 DEF ClosedStays, Closed, RejectedStays
  <2>3. JournalInv' /\ RowsGrow /\ \A q \in Ops : RowInv(q)'
    BY <2>1, <2>2, RowsKept
  <2>4. Idle \in ThreadRecord /\ Moved(p, th, Idle) /\ Idle.at = "idle"
    BY <2>1, LeaveMoves DEF LiveInv, Idle
  <2> QED
    BY <1>1, <2>3, <2>4, DeletionStep
<1> QED
  BY <1>5, <1>6

(* What the reconciler starts keeps the invariant (run_reconciliation_once, *)
(* account_disappeared_broker_position).                                    *)
LEMMA ReconcilerStarts ==
    ASSUME LiveInv, NEW p \in Procs, BrokerFlat(p) \/ UnitsDiffer(p)
    PROVE  LiveInv'
<1>1. UNCHANGED memop /\ UNCHANGED <<broker, dur, book, otherProcess>> /\ rows' = rows
  BY DEF BrokerFlat, UnitsDiffer, journal
<1>2. ClosedStays /\ RejectedStays /\ \A o \in Ops : wire'[o] # "unsent" => wire[o] # "unsent"
  BY <1>1 DEF ClosedStays, Closed, RejectedStays, broker
<1>3. JournalInv' /\ RowsGrow /\ \A q \in Ops : RowInv(q)'
  BY <1>1, <1>2, RowsKept
<1>4. p \in resident /\ thread[p]["cycle"].at \notin StartSteps /\ pos[p] \in Position
  <2>1. p \in resident
    BY DEF BrokerFlat, UnitsDiffer, ManagementPermitted
  <2> QED
    BY <2>1 DEF LiveInv, ProcInv, PlaceInv
<1>5. CASE BrokerFlat(p)
  <2>1. PICK o \in Ops :
           thread' = [thread EXCEPT ![p]["reconciler"] = [Idle EXCEPT !.at = "delete", !.op = o]]
    BY <1>5 DEF BrokerFlat
  <2> DEFINE r == [Idle EXCEPT !.at = "delete", !.op = o]
  <2>2. r \in ThreadRecord /\ r.at = "delete"
    BY DEF Idle, ThreadRecord, Steps, DeleteSteps
  <2>3. Moved(p, "reconciler", r)
    BY <2>1, <2>2, PutMoves DEF LiveInv, Threads
  <2> HIDE DEF r
  <2> QED
    BY <1>1, <1>3, <1>4, <2>2, <2>3, DeletionStep DEF Threads
<1>6. CASE UnitsDiffer(p)
  <2> DEFINE v == [trade |-> trade, units |-> held]
             r == [Idle EXCEPT !.at = "adjust", !.view = v]
  <2>1. v \in View
    BY DEF View, LiveInv, TypeOK
  <2>2. r \in ThreadRecord /\ r.at = "adjust" /\ r.view \in View
    BY <2>1 DEF Idle, ThreadRecord, Steps, ReconcilerSteps
  <2>3. Moved(p, "reconciler", r)
    BY <1>6, <2>2, PutMoves DEF UnitsDiffer, LiveInv, Threads
  <2> HIDE DEF r
  <2>4. pos[p].gen < MaxGen /\ MaxGen > 1
    BY <1>4, <1>6, BoundAssumption DEF UnitsDiffer, Position
  <2> QED
    BY <1>1, <1>3, <1>4, <2>2, <2>3, <2>4, DeletionStep DEF Threads
<1> QED
  BY <1>5, <1>6

-----------------------------------------------------------------------------
\* Steps of one process that change its book, its scan or the fence.

(* What a recover() selects is what it is right to rewrite.                 *)
LEMMA FreshScan ==
    ASSUME LiveInv, NEW o \in Ops, RecoverScan[o] # NoRow
    PROVE  /\ rows[o] # NoRow /\ RecoverScan[o] \in Row /\ RecoverWrites(RecoverScan[o])
           /\ RecoverScan[o].st = "FULLY_CONFIRMED" => Closed(rows[o].trade)
<1>1. RecoverScan[o] = rows[o] /\ rows[o] # NoRow /\ RecoverWrites(rows[o])
  BY DEF RecoverScan
<1>2. rows[o] \in Row
  BY <1>1, RowFacts DEF LiveInv, JournalInv
<1>3. RowInv(o)
  BY DEF LiveInv
<1> QED
  BY <1>1, <1>2, <1>3 DEF RowInv

(* A scan that is kept, dropped or made anew is right.                      *)
LEMMA ScansKept ==
    ASSUME LiveInv, rows' = rows, ClosedStays,
           \A s \in Sessions, o \in Ops : scan'[s][o] \in {scan[s][o], NoRow, RecoverScan[o]},
           NEW s \in Sessions, NEW o \in Ops
    PROVE  ScanInv(s, o)'
<1>1. RowsGrow
  BY DEF RowsGrow
<1>2. CASE scan'[s][o] = scan[s][o]
  BY <1>1, <1>2, ScanKept
<1>3. CASE scan'[s][o] = NoRow
  BY <1>3 DEF ScanInv
<1>4. CASE scan'[s][o] = RecoverScan[o] /\ RecoverScan[o] # NoRow
  <2>1. rows[o].trade \in Trades
    BY <1>4, FreshScan, RowFacts DEF LiveInv, JournalInv, Row
  <2> QED
    BY <1>4, <2>1, FreshScan DEF ScanInv, ClosedStays
<1> QED
  BY <1>2, <1>3, <1>4

(* Such a step keeps the invariant when it leaves its own process right.    *)
LEMMA BookStep ==
    ASSUME LiveInv, NEW p \in Procs,
           UNCHANGED <<rows, wire, closer, verdict>>,
           TypeOK', EpochsUnique', TradeInv', ExposureAccounted',
           \A q \in Procs \ {p} : /\ thread'[q] = thread[q] /\ memop'[q] = memop[q]
                                  /\ pos'[q] = pos[q]
                                  /\ q \in resident' <=> q \in resident,
           ProcInv(p)',
           thread'[p]["cycle"] = thread[p]["cycle"] \/ thread'[p]["cycle"].at \notin OwnSteps,
           \A s \in Sessions, o \in Ops : scan'[s][o] \in {scan[s][o], NoRow, RecoverScan[o]}
    PROVE  LiveInv'
<1>1. ClosedStays /\ RejectedStays /\ \A o \in Ops : wire'[o] # "unsent" => wire[o] # "unsent"
  BY DEF ClosedStays, Closed, RejectedStays
<1>2. RowsGrow /\ JournalInv' /\ \A o \in Ops : RowInv(o)'
  BY <1>1, RowsKept
<1>3. ASSUME NEW q \in Procs
      PROVE  ProcInv(q)'
  <2>1. CASE q = p
    BY <2>1
  <2>2. CASE q # p
    <3>1. thread[q]["cycle"].at \in UnsentSteps => wire'[Current(q)] = "unsent"
      BY DEF LiveInv, ProcInv, CallInv
    <3> QED
      BY <1>1, <1>2, <2>2, <3>1, ProcessKept
  <2> QED
    BY <2>1, <2>2
<1>4. OneCaller'
  BY DEF LiveInv, OneCaller, Current, Op
<1>5. ASSUME NEW s \in Sessions, NEW o \in Ops
      PROVE  ScanInv(s, o)'
  BY <1>1, ScansKept
<1>6. ASSUME NEW s \in Operators
      PROVE  VerdictInv(s)'
  BY <1>1, <1>2, VerdictKept
<1> QED
  BY <1>2, <1>3, <1>4, <1>5, <1>6 DEF LiveInv

(* A process whose cycle is at rest or starting, with an idle reconciler,   *)
(* is right when its book is.                                               *)
LEMMA AtRest ==
    ASSUME NEW p \in Procs,
           thread'[p]["cycle"].at \in {"idle"} \cup StartSteps,
           thread'[p]["cycle"].at \in StartSteps
               => p \notin resident' /\ thread'[p]["reconciler"] = Idle,
           p \in resident' => pos'[p] \in Position,
           At(p, "reconciler", "adjust")' => /\ thread'[p]["reconciler"].view \in View
                                             /\ MaxGen > 1
                                             /\ p \in resident' => pos'[p].gen < MaxGen,
           DeleteInv(p, "reconciler")'
    PROVE  ProcInv(p)'
<1>1. PlaceInv(p)'
  BY DEF PlaceInv, StartSteps, CloseSteps, OwnSteps
<1>2. CallInv(p)'
  BY DEF CallInv, StartSteps, OwnSteps, UnsentSteps, Cycle, At
<1>3. DeleteInv(p, "cycle")'
  BY DEF DeleteInv, StartSteps
<1> QED
  BY <1>1, <1>2, <1>3 DEF ProcInv, Threads

(* The fence's invariant is part of the invariant.                          *)
LEMMA FenceStep ==
    ASSUME LiveInv, [FenceNext]_fenceVars
    PROVE  FenceTypeOK' /\ EpochsUnique'
BY StepFenceInv DEF LiveInv, TypeOK, FenceInv

(* A process that has not come to manage positions, or has its book and its *)
(* quarantine as before, accounts for the exposure as before.               *)
LEMMA AccountedKept ==
    ASSUME LiveInv, UNCHANGED <<trade, held>>,
           \A p \in Procs :
              \/ ~LiveManagementPermitted(p)'
              \/ /\ LiveManagementPermitted(p)
                 /\ pos'[p] = pos[p] /\ quar'[p] = quar[p] /\ (p \in resident' <=> p \in resident)
    PROVE  ExposureAccounted'
BY DEF LiveInv, ExposureAccounted

(* Popping the book keeps the invariant: the trade popped is closed         *)
(* (close_confirmed_live_position).                                         *)
LEMMA PopKeeps ==
    ASSUME LiveInv, NEW p \in Procs, NEW th \in Threads, Pop(p, th)
    PROVE  LiveInv'
<1>1. UNCHANGED <<broker, rows, dur, pos, quar, withheld, memop, authority, ep, rec, scan, verdict>>
  BY DEF Pop, journal, otherProcess
<1>2. UNCHANGED <<trade, held, wire, fill, closer>>
  BY <1>1 DEF broker
<1>3. Idle \in ThreadRecord /\ Moved(p, th, Idle)
  BY LeaveMoves DEF Pop, LiveInv
<1>4. /\ resident' \subseteq resident /\ \A q \in Procs \ {p} : q \in resident' <=> q \in resident
      /\ p \in resident /\ p \notin resident' => SameInstance(p, Op(p, th))
  BY DEF Pop, BookWithout
<1>5. TypeOK'
  BY <1>1, <1>2, <1>3, <1>4 DEF LiveInv, TypeOK, FenceTypeOK, Moved, ThreadRecord, JournalTypeOK
<1>6. EpochsUnique' /\ TradeInv'
  BY <1>1, <1>2 DEF LiveInv, EpochsUnique, TradeInv, Durable, Closed
<1>7. ExposureAccounted'
  <2> SUFFICES ASSUME NEW q \in Procs, held > 0, LiveManagementPermitted(q)
               PROVE  (q \in resident' /\ pos[q].trade = trade) \/ trade \in quar[q]
    BY <1>1, <1>2 DEF ExposureAccounted, LiveManagementPermitted, AuthorityMatches
  <2>1. (q \in resident /\ pos[q].trade = trade) \/ trade \in quar[q]
    BY DEF LiveInv, ExposureAccounted
  <2>2. ASSUME q = p, p \in resident, p \notin resident', pos[p].trade = trade
        PROVE  FALSE
    <3>1. thread[p][th].at \in {"finalise", "pop"}
      BY DEF Pop, At
    <3>2. Closed(rows[Op(p, th)].trade)
      BY <3>1 DEF LiveInv, ProcInv, DeleteInv
    <3>3. rows[Op(p, th)].trade = trade
      BY <1>4, <2>2 DEF SameInstance
    <3> QED
      BY <3>2, <3>3 DEF LiveInv, TradeInv
  <2> QED
    BY <1>4, <2>1, <2>2
<1>8. ProcInv(p)
  BY DEF LiveInv
<1>9. ProcInv(p)'
  <2>1. CASE th = "cycle"
    <3>1. thread'[p]["cycle"] = Idle /\ thread'[p]["reconciler"] = thread[p]["reconciler"]
      BY <1>3, <2>1 DEF Moved, Threads
    <3>2. DeleteInv(p, "reconciler")'
      BY <1>1, <1>2, <1>8, <3>1 DEF ProcInv, DeleteInv, Threads, Op, Closed
    <3> QED
      BY <1>1, <1>4, <1>8, <3>1, <3>2, AtRest DEF ProcInv, PlaceInv, Idle, StartSteps, At
  <2>2. CASE th = "reconciler"
    <3>1. thread'[p]["reconciler"] = Idle /\ thread'[p]["cycle"] = thread[p]["cycle"]
      BY <1>3, <2>2 DEF Moved, Threads
    <3>2. PlaceInv(p)'
      BY <1>1, <1>4, <1>8, <3>1 DEF ProcInv, PlaceInv, At, Idle
    <3>3. CallInv(p)'
      BY <1>1, <1>2, <1>8, <3>1 DEF ProcInv, CallInv, Cycle, At, Current, Op, Closed
    <3>4. DeleteInv(p, "cycle")' /\ DeleteInv(p, "reconciler")'
      BY <1>1, <1>2, <1>8, <3>1 DEF ProcInv, DeleteInv, Threads, Op, Closed, Idle
    <3> QED
      BY <3>2, <3>3, <3>4 DEF ProcInv, Threads
  <2> QED
    BY <2>1, <2>2 DEF Threads
<1>10. thread'[p]["cycle"] = thread[p]["cycle"] \/ thread'[p]["cycle"].at \notin OwnSteps
  BY <1>3 DEF Moved, Threads, Idle, OwnSteps
<1> QED
  BY <1>1, <1>2, <1>3, <1>4, <1>5, <1>6, <1>7, <1>9, <1>10, BookStep DEF Moved

(* Withholding the management of a position keeps the invariant: the        *)
(* position stays where it is (persist_protection_progress).                *)
LEMMA WithholdKeeps ==
    ASSUME LiveInv, NEW p \in Procs, WithholdManagement(p)
    PROVE  LiveInv'
<1>1. UNCHANGED <<broker, rows, dur, pos, resident, quar, memop, thread, authority, ep, rec, scan,
                  verdict>>
  BY DEF WithholdManagement, journal, otherProcess
<1>2. UNCHANGED <<trade, held, wire, fill, closer>>
  BY <1>1 DEF broker
<1>3. TypeOK'
  BY <1>1, <1>2 DEF WithholdManagement, LiveInv, TypeOK, FenceTypeOK, JournalTypeOK
<1>4. EpochsUnique' /\ TradeInv' /\ ExposureAccounted'
  BY <1>1, <1>2 DEF LiveInv, EpochsUnique, TradeInv, Durable, Closed, ExposureAccounted,
                    LiveManagementPermitted, AuthorityMatches
<1>5. ProcInv(p)'
  BY <1>1, <1>2 DEF LiveInv, ProcInv, PlaceInv, CallInv, DeleteInv, At, Cycle, Current, Op, Closed
<1> QED
  BY <1>1, <1>2, <1>3, <1>4, <1>5, BookStep DEF LiveInv, TypeOK, ThreadRecord

(* Adjusting the units keeps the invariant: it is the same trade            *)
(* (adjust_position_units_to_broker).                                       *)
LEMMA AdjustUnitsKeeps ==
    ASSUME LiveInv, NEW p \in Procs, AdjustUnits(p)
    PROVE  LiveInv'
<1>1. UNCHANGED <<broker, rows, dur, resident, quar, withheld, memop, authority, ep, rec, scan,
                  verdict>>
  BY DEF AdjustUnits, journal, otherProcess
<1>2. UNCHANGED <<trade, held, wire, fill, closer>>
  BY <1>1 DEF broker
<1>3. Idle \in ThreadRecord /\ Moved(p, "reconciler", Idle)
  BY LeaveMoves DEF AdjustUnits, LiveInv, Threads
<1>4. thread'[p]["reconciler"] = Idle /\ thread'[p]["cycle"] = thread[p]["cycle"]
  BY <1>3 DEF Moved, Threads
<1>5. ProcInv(p) /\ pos \in [Procs -> Position \cup {NoPos}]
  BY DEF LiveInv, TypeOK
<1>6. /\ pos' \in [Procs -> Position \cup {NoPos}]
      /\ \A q \in Procs \ {p} : pos'[q] = pos[q]
      /\ pos'[p] = pos[p] \/ (pos'[p] \in Position /\ pos'[p].trade = pos[p].trade)
  <2>1. CASE ManagementPermitted(p)
    <3> DEFINE g == pos[p].gen + 1
               u == thread[p]["reconciler"].view.units
               d == [pos[p] EXCEPT !.gen = g, !.units = u]
    <3>1. pos[p] \in Position /\ pos[p].gen < MaxGen /\ thread[p]["reconciler"].view \in View
      BY <1>5, <2>1 DEF ProcInv, PlaceInv, AdjustUnits, ManagementPermitted
    <3>2. g \in 1 .. MaxGen /\ u \in 0 .. Units
      BY <3>1, BoundAssumption DEF Position, View
    <3>3. pos' = [pos EXCEPT ![p] = d]
      BY <1>5, <2>1, <3>1 DEF AdjustUnits, NextGeneration
    <3> HIDE DEF g, u
    <3>4. d \in Position /\ d.trade = pos[p].trade
      BY <3>1, <3>2 DEF Position
    <3> HIDE DEF d
    <3> QED
      BY <1>5, <3>3, <3>4
  <2>2. CASE ~ManagementPermitted(p)
    BY <1>5, <2>2 DEF AdjustUnits
  <2> QED
    BY <2>1, <2>2
<1>7. TypeOK'
  BY <1>1, <1>2, <1>3, <1>6 DEF LiveInv, TypeOK, FenceTypeOK, Moved, ThreadRecord, JournalTypeOK
<1>8. EpochsUnique' /\ TradeInv'
  BY <1>1, <1>2 DEF LiveInv, EpochsUnique, TradeInv, Durable, Closed
<1>9. ExposureAccounted'
  BY <1>1, <1>2, <1>6 DEF LiveInv, ExposureAccounted, LiveManagementPermitted, AuthorityMatches
<1>10. ProcInv(p)'
  <2>1. PlaceInv(p)'
    BY <1>1, <1>4, <1>5, <1>6 DEF ProcInv, PlaceInv, At, Idle
  <2>2. CallInv(p)'
    BY <1>1, <1>2, <1>4, <1>5 DEF ProcInv, CallInv, Cycle, At, Current, Op, Closed
  <2>3. DeleteInv(p, "cycle")' /\ DeleteInv(p, "reconciler")'
    BY <1>1, <1>2, <1>4, <1>5 DEF ProcInv, DeleteInv, Threads, Op, Closed, Idle
  <2> QED
    BY <2>1, <2>2, <2>3 DEF ProcInv, Threads
<1> QED
  BY <1>1, <1>2, <1>3, <1>4, <1>6, <1>7, <1>8, <1>9, <1>10, BookStep DEF Moved

(* A later trade keeps the invariant: it is opened by the one process in    *)
(* charge, which books it.                                                  *)
LEMMA NextTradeKeeps ==
    ASSUME LiveInv, NEW p \in Procs, NEW t \in Trades, NextTrade(p, t)
    PROVE  LiveInv'
<1> USE DEF NextTrade
<1>1. UNCHANGED <<wire, fill, closer, rows, quar, memop, thread, authority, ep, rec, scan, verdict>>
      /\ withheld' \subseteq Procs
  BY DEF otherProcess, LiveInv, TypeOK
<1>2. Entered(t) \in Position /\ Entered(t).trade = t /\ Entered(t) # NoPos /\ Entered(t).gen = 1
  BY BoundAssumption, TradeAssumption DEF Entered, Position, NoPos
<1>3. /\ pos \in [Procs -> Position \cup {NoPos}] /\ dur \in [Trades -> Position \cup {NoPos}]
      /\ resident \subseteq Procs
  BY DEF LiveInv, TypeOK
<1>4. /\ pos' \in [Procs -> Position \cup {NoPos}] /\ pos'[p] = Entered(t)
      /\ dur' \in [Trades -> Position \cup {NoPos}]
      /\ \A q \in Procs \ {p} : pos'[q] = pos[q]
      /\ \A u \in Trades : dur'[u] = IF u = t THEN Entered(t) ELSE dur[u]
      /\ p \in resident' /\ \A q \in Procs \ {p} : q \in resident' <=> q \in resident
      /\ resident' \subseteq Procs
  BY <1>2, <1>3
<1>5. trade' = t /\ held' = Units /\ held' \in 0 .. Units
  BY BoundAssumption
<1>6. TypeOK'
  BY <1>1, <1>4, <1>5 DEF LiveInv, TypeOK, FenceTypeOK, JournalTypeOK
<1>7. EpochsUnique'
  BY <1>1 DEF LiveInv, EpochsUnique
<1>8. TradeInv'
  <2>1. TradeInv /\ ~Closed(t)
    BY DEF LiveInv
  <2> QED
    BY <1>1, <1>2, <1>4, <1>5, <2>1 DEF TradeInv, Durable, Closed
<1>9. ExposureAccounted'
  <2> SUFFICES ASSUME NEW q \in Procs, LiveManagementPermitted(q)
               PROVE  q \in resident' /\ pos'[q].trade = t
    BY <1>1, <1>5 DEF ExposureAccounted, LiveManagementPermitted, AuthorityMatches
  <2>1. q = p
    BY DEF LiveInv, EpochsUnique, LiveManagementPermitted, AuthorityMatches
  <2> QED
    BY <1>2, <1>4, <2>1
<1>10. ProcInv(p)'
  <2>1. ProcInv(p) /\ thread[p]["cycle"].at = "idle"
    BY DEF LiveInv, Cycle, At
  <2>2. DeleteInv(p, "reconciler")'
    BY <1>1, <2>1 DEF ProcInv, DeleteInv, Threads, Op, Closed
  <2>3. At(p, "reconciler", "adjust")' => thread'[p]["reconciler"].view \in View /\ MaxGen > 1
    BY <1>1, <2>1 DEF ProcInv, PlaceInv, At
  <2>4. pos'[p] \in Position /\ pos'[p].gen = 1
    BY <1>2, <1>4
  <2> QED
    BY <1>1, <2>1, <2>2, <2>3, <2>4, AtRest DEF StartSteps
<1> QED
  BY <1>1, <1>4, <1>6, <1>7, <1>8, <1>9, <1>10, BookStep

-----------------------------------------------------------------------------
\* Start-up, exit and restart.

(* A step of the start-up sequence that publishes nothing keeps the         *)
(* invariant (execute_startup_sequence).                                    *)
LEMMA StartUpStep ==
    ASSUME LiveInv, NEW p \in Procs, UNCHANGED <<broker, journal, book, memop, verdict>>,
           [FenceNext]_fenceVars,
           NEW r \in ThreadRecord, Moved(p, "cycle", r),
           r.at = "idle" \/ (r.at \in StartSteps /\ thread[p]["cycle"].at \in StartSteps),
           scan' \in [Sessions -> [Ops -> Row \cup {NoRow}]],
           \A s \in Sessions, o \in Ops : scan'[s][o] \in {scan[s][o], NoRow, RecoverScan[o]},
           \A q \in Procs : LiveManagementPermitted(q)' => LiveManagementPermitted(q)
    PROVE  LiveInv'
<1>1. UNCHANGED <<trade, held, wire, fill, closer, rows, dur, pos, resident, quar, withheld>>
  BY DEF broker, journal, book
<1>2. FenceTypeOK' /\ EpochsUnique'
  BY FenceStep
<1>3. TypeOK'
  BY <1>1, <1>2 DEF LiveInv, TypeOK, Moved, ThreadRecord, JournalTypeOK
<1>4. TradeInv'
  BY <1>1 DEF LiveInv, TradeInv, Durable, Closed
<1>5. ExposureAccounted'
  BY <1>1, AccountedKept
<1>6. thread'[p]["cycle"] = r /\ thread'[p]["reconciler"] = thread[p]["reconciler"]
  BY DEF Moved, Threads
<1>7. ProcInv(p)'
  <2>1. ProcInv(p)
    BY DEF LiveInv
  <2>2. DeleteInv(p, "reconciler")'
    BY <1>1, <1>6, <2>1 DEF ProcInv, DeleteInv, Threads, Op, Closed
  <2>3. "idle" \notin StartSteps
    BY DEF StartSteps
  <2> QED
    BY <1>1, <1>6, <2>1, <2>2, <2>3, AtRest DEF ProcInv, PlaceInv, At
<1>8. thread'[p]["cycle"].at \notin OwnSteps
  BY <1>6 DEF StartSteps, OwnSteps
<1> QED
  BY <1>1, <1>2, <1>3, <1>4, <1>5, <1>7, <1>8, BookStep DEF Moved

(* Selecting the rows to recover keeps the invariant (recover).             *)
LEMMA OpenJournalKeeps ==
    ASSUME LiveInv, NEW p \in Procs, OpenJournal(p)
    PROVE  LiveInv'
<1>1. UNCHANGED <<broker, journal, book, memop, verdict>> /\ BeginRecovery(p)
  BY DEF OpenJournal
<1>2. PICK r \in ThreadRecord : Moved(p, "cycle", r) /\ r.at = "recover"
  BY GotoMoves DEF OpenJournal, LiveInv, Threads, Steps, StartSteps
<1>3. r.at \in StartSteps /\ thread[p]["cycle"].at \in StartSteps
  BY <1>2 DEF StartSteps, OpenJournal, At
<1>4. RecoverScan \in [Ops -> Row \cup {NoRow}]
  BY FreshScan DEF RecoverScan
<1>5. scan \in [Sessions -> [Ops -> Row \cup {NoRow}]] /\ p \in Sessions
  BY SessionAssumption DEF LiveInv, TypeOK
<1>6. /\ scan' \in [Sessions -> [Ops -> Row \cup {NoRow}]]
      /\ \A s \in Sessions, o \in Ops : scan'[s][o] \in {scan[s][o], NoRow, RecoverScan[o]}
  BY <1>4, <1>5 DEF OpenJournal
<1>7. \A q \in Procs : LiveManagementPermitted(q)' => LiveManagementPermitted(q)
  BY <1>1 DEF BeginRecovery, LiveManagementPermitted, AuthorityMatches, LiveInv, TypeOK, FenceTypeOK
<1>8. [FenceNext]_fenceVars
  BY <1>1 DEF FenceNext
<1> QED
  BY <1>1, <1>2, <1>3, <1>6, <1>7, <1>8, StartUpStep

(* A recovery that meets the unique index keeps the invariant.              *)
LEMMA RecoverCollidesKeeps ==
    ASSUME LiveInv, NEW p \in Procs, NEW o \in Ops, RecoverCollides(p, o)
    PROVE  LiveInv'
<1>1. UNCHANGED <<broker, journal, book, memop, verdict>> /\ UNCHANGED fenceVars
  BY DEF RecoverCollides, fenceVars
<1>2. Idle \in ThreadRecord /\ Moved(p, "cycle", Idle) /\ Idle.at = "idle"
  BY LeaveMoves DEF RecoverCollides, LiveInv, Threads, Idle
<1>3. scan \in [Sessions -> [Ops -> Row \cup {NoRow}]] /\ p \in Sessions
  BY SessionAssumption DEF LiveInv, TypeOK
<1>4. /\ scan' \in [Sessions -> [Ops -> Row \cup {NoRow}]]
      /\ \A s \in Sessions, q \in Ops : scan'[s][q] \in {scan[s][q], NoRow, RecoverScan[q]}
  BY <1>3 DEF RecoverCollides, NothingRead
<1>5. \A q \in Procs : LiveManagementPermitted(q)' => LiveManagementPermitted(q)
  BY <1>1 DEF fenceVars, LiveManagementPermitted, AuthorityMatches
<1> QED
  BY <1>1, <1>2, <1>4, <1>5, StartUpStep

(* Claiming the run, or failing to, keeps the invariant: a claim fences     *)
(* every other process (claim_recovery_run).                                *)
LEMMA ClaimKeeps ==
    ASSUME LiveInv, NEW p \in Procs, ClaimRun(p) \/ ClaimBlocked(p)
    PROVE  LiveInv'
<1>1. UNCHANGED <<broker, journal, book, memop, verdict>> /\ scan' = scan
      /\ thread[p]["cycle"].at \in StartSteps
  BY DEF ClaimRun, ClaimBlocked, At, StartSteps
<1>2. ClaimEpoch(p) \/ BlockRecovery(p)
  BY DEF ClaimRun, ClaimBlocked
<1>3. [FenceNext]_fenceVars
  BY <1>2 DEF FenceNext
<1>4. PICK r \in ThreadRecord : Moved(p, "cycle", r) /\ r.at \in {"idle", "publish"}
  <2>1. CASE ClaimRun(p)
    BY <2>1, GotoMoves DEF ClaimRun, LiveInv, Threads, Steps, StartSteps
  <2>2. CASE ClaimBlocked(p)
    BY <2>2, LeaveMoves DEF ClaimBlocked, LiveInv, Threads, Idle
  <2> QED
    BY <2>1, <2>2
<1>5. r.at = "idle" \/ (r.at \in StartSteps /\ thread[p]["cycle"].at \in StartSteps)
  BY <1>1, <1>4 DEF StartSteps
<1>6. \A q \in Procs : LiveManagementPermitted(q)' => LiveManagementPermitted(q)
  <2>1. CASE ClaimEpoch(p)
    BY <2>1 DEF ClaimEpoch, LiveManagementPermitted, AuthorityMatches, LiveInv, TypeOK,
                FenceTypeOK, EpochsUnique
  <2>2. CASE BlockRecovery(p)
    BY <2>2 DEF BlockRecovery, LiveManagementPermitted, AuthorityMatches, LiveInv, TypeOK, FenceTypeOK
  <2> QED
    BY <1>2, <2>1, <2>2
<1>7. /\ scan' \in [Sessions -> [Ops -> Row \cup {NoRow}]]
      /\ \A s \in Sessions, o \in Ops : scan'[s][o] \in {scan[s][o], NoRow, RecoverScan[o]}
  BY <1>1 DEF LiveInv, TypeOK
<1> QED
  BY <1>1, <1>3, <1>4, <1>5, <1>6, <1>7, StartUpStep

(* Publishing keeps the invariant: every durable trade is restored or       *)
(* quarantined, the open one among them (execute_startup_sequence,          *)
(* evaluate_durable_row).                                                   *)
LEMMA PublishKeeps ==
    ASSUME LiveInv, NEW p \in Procs, PublishRecovered(p)
    PROVE  LiveInv'
<1> DEFINE v == thread[p]["cycle"].view
           kept == RestoredManaged(v)
<1>1. UNCHANGED <<broker, journal, memop, scan, verdict>> /\ Leave(p, "cycle")
      /\ thread[p]["cycle"].at \in StartSteps
  BY DEF PublishRecovered, At, StartSteps
<1>2. UNCHANGED <<trade, held, wire, fill, closer, rows, dur>>
  BY <1>1 DEF broker, journal
<1>3. Idle \in ThreadRecord /\ Moved(p, "cycle", Idle) /\ Idle.at = "idle"
  BY <1>1, LeaveMoves DEF LiveInv, Threads, Idle
<1>4. /\ scan' \in [Sessions -> [Ops -> Row \cup {NoRow}]]
      /\ \A s \in Sessions, o \in Ops : scan'[s][o] \in {scan[s][o], NoRow, RecoverScan[o]}
  BY <1>1 DEF LiveInv, TypeOK
<1>5. CASE ~(v # NoView /\ RecoveryFenceAllowsPublication(p))
  <2>1. BlockRecovery(p) /\ UNCHANGED book
    BY <1>5 DEF PublishRecovered
  <2>2. [FenceNext]_fenceVars
    BY <2>1 DEF FenceNext
  <2>3. \A q \in Procs : LiveManagementPermitted(q)' => LiveManagementPermitted(q)
    BY <2>1 DEF BlockRecovery, LiveManagementPermitted, AuthorityMatches, LiveInv, TypeOK, FenceTypeOK
  <2> QED
    BY <1>1, <1>3, <1>4, <2>1, <2>2, <2>3, StartUpStep
<1>6. CASE v # NoView /\ RecoveryFenceAllowsPublication(p)
  <2>1. /\ CompleteRecovery(p)
        /\ pos' = [pos EXCEPT ![p] = IF kept = {} THEN NoPos ELSE dur[v.trade]]
        /\ resident' = IF kept = {} THEN resident \ {p} ELSE resident \cup {p}
        /\ quar' = [quar EXCEPT ![p] = Durable \ kept]
        /\ withheld' \subseteq Procs
    BY <1>6 DEF PublishRecovered, LiveInv, TypeOK
  <2>2. kept \subseteq Durable /\ \A t \in kept : t = v.trade
    BY DEF RestoredManaged
  <2>3. Durable \subseteq Trades /\ trade \in Durable
        /\ \A t \in Durable : dur[t] \in Position /\ dur[t].trade = t
    BY DEF LiveInv, TradeInv, Durable
  <2>4. kept # {} => /\ v.trade \in kept
                     /\ dur[v.trade] \in Position /\ dur[v.trade].trade = v.trade
    BY <2>2, <2>3
  <2> HIDE DEF kept
  <2>5. /\ pos \in [Procs -> Position \cup {NoPos}] /\ quar \in [Procs -> SUBSET Trades]
        /\ resident \subseteq Procs
    BY DEF LiveInv, TypeOK
  <2>6. /\ pos' \in [Procs -> Position \cup {NoPos}] /\ quar' \in [Procs -> SUBSET Trades]
        /\ resident' \subseteq Procs
        /\ \A q \in Procs \ {p} : /\ pos'[q] = pos[q] /\ quar'[q] = quar[q]
                                  /\ q \in resident' <=> q \in resident
        /\ quar'[p] = Durable \ kept
        /\ p \in resident' => kept # {} /\ pos'[p] = dur[v.trade]
        /\ kept # {} => p \in resident'
    BY <2>1, <2>3, <2>4, <2>5
  <2>7. FenceTypeOK' /\ EpochsUnique'
    BY <2>1, FenceStep DEF FenceNext
  <2>8. TypeOK'
    BY <1>1, <1>2, <1>3, <2>1, <2>6, <2>7 DEF LiveInv, TypeOK, Moved, ThreadRecord, JournalTypeOK
  <2>9. TradeInv'
    BY <1>2 DEF LiveInv, TradeInv, Durable, Closed
  <2>10. ExposureAccounted'
    <3> SUFFICES ASSUME NEW q \in Procs, held > 0, LiveManagementPermitted(q)'
                 PROVE  (q \in resident' /\ pos'[q].trade = trade) \/ trade \in quar'[q]
      BY <1>2 DEF ExposureAccounted
    <3>1. CASE q = p
      BY <2>2, <2>3, <2>4, <2>6, <3>1
    <3>2. CASE q # p
      <4>1. LiveManagementPermitted(q)
        BY <2>1, <3>2 DEF CompleteRecovery, LiveManagementPermitted, AuthorityMatches, LiveInv,
                          TypeOK, FenceTypeOK
      <4> QED
        BY <2>6, <3>2, <4>1 DEF LiveInv, ExposureAccounted
    <3> QED
      BY <3>1, <3>2
  <2>11. thread'[p]["cycle"] = Idle /\ thread'[p]["reconciler"] = thread[p]["reconciler"]
    BY <1>3 DEF Moved, Threads
  <2>12. thread[p]["reconciler"] = Idle
    BY <1>1 DEF LiveInv, ProcInv, PlaceInv
  <2>13. ProcInv(p)'
    <3>1. DeleteInv(p, "reconciler")'
      BY <2>11, <2>12 DEF DeleteInv, Idle
    <3>2. "idle" \notin StartSteps
      BY DEF StartSteps
    <3> QED
      BY <1>3, <2>4, <2>6, <2>11, <2>12, <3>1, <3>2, AtRest DEF At
  <2>14. thread'[p]["cycle"].at \notin OwnSteps
    BY <1>3, <2>11 DEF OwnSteps
  <2> QED
    BY <1>1, <1>2, <1>3, <1>4, <2>6, <2>7, <2>8, <2>9, <2>10, <2>13, <2>14, BookStep DEF Moved
<1> QED
  BY <1>5, <1>6

(* An exit keeps the invariant: what the process knew is gone, what was     *)
(* durable is not.                                                          *)
LEMMA ExitKeeps ==
    ASSUME LiveInv, NEW p \in Procs, Exit(p)
    PROVE  LiveInv'
<1>1. UNCHANGED <<broker, journal, verdict>> /\ ExitProcess(p)
  BY DEF Exit
<1>2. UNCHANGED <<trade, held, wire, fill, closer, rows, dur>>
  BY <1>1 DEF broker, journal
<1>3. Stopped \in [Threads -> ThreadRecord] /\ Stopped["cycle"].at = "down"
      /\ Stopped["reconciler"] = Idle
  BY DEF Stopped, Threads, ThreadRecord, Idle, Steps, StartSteps
<1>4. /\ thread' \in [Procs -> [Threads -> ThreadRecord]] /\ thread'[p] = Stopped
      /\ \A q \in Procs \ {p} : thread'[q] = thread[q]
  BY <1>3 DEF Exit, LiveInv, TypeOK, ThreadRecord
<1>5. /\ pos' \in [Procs -> Position \cup {NoPos}] /\ resident' \subseteq Procs
      /\ quar' \in [Procs -> SUBSET Trades] /\ withheld' \subseteq Procs
      /\ memop' \in [Procs -> CloseOperation \cup {NoMem}]
      /\ p \notin resident'
      /\ \A q \in Procs \ {p} : /\ pos'[q] = pos[q] /\ quar'[q] = quar[q] /\ memop'[q] = memop[q]
                                /\ q \in resident' <=> q \in resident
  BY DEF Exit, LiveInv, TypeOK
<1>6. scan \in [Sessions -> [Ops -> Row \cup {NoRow}]] /\ p \in Sessions
  BY SessionAssumption DEF LiveInv, TypeOK
<1>7. /\ scan' \in [Sessions -> [Ops -> Row \cup {NoRow}]]
      /\ \A s \in Sessions, o \in Ops : scan'[s][o] \in {scan[s][o], NoRow, RecoverScan[o]}
  BY <1>6 DEF Exit, NothingRead
<1>8. FenceTypeOK' /\ EpochsUnique'
  BY <1>1, FenceStep DEF FenceNext
<1>9. TypeOK'
  BY <1>1, <1>2, <1>4, <1>5, <1>7, <1>8 DEF LiveInv, TypeOK, ThreadRecord, JournalTypeOK
<1>10. TradeInv'
  BY <1>2 DEF LiveInv, TradeInv, Durable, Closed
<1>11. ExposureAccounted'
  <2>1. ASSUME NEW q \in Procs
        PROVE  \/ ~LiveManagementPermitted(q)'
               \/ /\ LiveManagementPermitted(q)
                  /\ pos'[q] = pos[q] /\ quar'[q] = quar[q] /\ (q \in resident' <=> q \in resident)
    <3>1. CASE q = p
      BY <1>1, <3>1 DEF ExitProcess, LiveManagementPermitted, LiveInv, TypeOK, FenceTypeOK
    <3>2. CASE q # p
      BY <1>1, <1>5, <3>2 DEF ExitProcess, LiveManagementPermitted, AuthorityMatches, LiveInv, TypeOK,
                              FenceTypeOK
    <3> QED
      BY <3>1, <3>2
  <2> QED
    BY <1>2, <2>1, AccountedKept
<1>12. ProcInv(p)'
  <2>1. /\ thread'[p]["cycle"].at = "down" /\ thread'[p]["reconciler"] = Idle
        /\ "down" \in StartSteps /\ Idle.at = "idle"
    BY <1>3, <1>4 DEF StartSteps, Idle
  <2>2. DeleteInv(p, "reconciler")'
    BY <2>1 DEF DeleteInv
  <2> QED
    BY <1>5, <2>1, <2>2, AtRest DEF At
<1>13. thread'[p]["cycle"].at \notin OwnSteps
  BY <1>3, <1>4 DEF OwnSteps
<1> QED
  BY <1>1, <1>2, <1>4, <1>5, <1>7, <1>8, <1>9, <1>10, <1>11, <1>12, <1>13, BookStep

-----------------------------------------------------------------------------
\* The broker, the operator sessions, and the marks of a recovery.

(* A step outside the processes keeps the invariant when it takes nothing   *)
(* back and opens nothing.                                                  *)
LEMMA WorldStep ==
    ASSUME LiveInv, UNCHANGED <<trade, dur, pos, resident, quar, withheld, memop, thread,
                                authority, ep, rec>>,
           held' \in 0 .. Units, held' > 0 => held > 0 /\ closer'[trade] = closer[trade],
           closer' \in [Trades -> Transactions \cup {NoOp}],
           fill' \in [Transactions -> [Trades -> 0 .. Units]],
           wire' \in [Ops -> {"unsent", "sent", "rejected", "filled"}],
           ClosedStays, RejectedStays, \A o \in Ops : wire[o] = "unsent" => wire'[o] = "unsent",
           JournalInv', RowsGrow, \A o \in Ops : RowInv(o)',
           scan' \in [Sessions -> [Ops -> Row \cup {NoRow}]],
           verdict' \in [Operators -> CloseOperation \cup {NoMem}],
           \A s \in Sessions, o \in Ops : ScanInv(s, o)',
           \A s \in Operators : VerdictInv(s)'
    PROVE  LiveInv'
<1>1. TypeOK'
  BY DEF LiveInv, TypeOK, FenceTypeOK, JournalInv
<1>2. EpochsUnique'
  BY DEF LiveInv, EpochsUnique
<1>3. ASSUME NEW p \in Procs
      PROVE  ProcInv(p)'
  <2>1. thread[p]["cycle"].at \in UnsentSteps => wire'[Current(p)] = "unsent"
    <3>1. CallInv(p)
      BY DEF LiveInv, ProcInv
    <3>2. UnsentSteps \subseteq OwnSteps
      BY DEF UnsentSteps, OwnSteps
    <3> QED
      BY <3>1, <3>2 DEF CallInv
  <2> QED
    BY <2>1, ProcessKept
<1>4. OneCaller'
  BY DEF LiveInv, OneCaller, Current, Op
<1>5. TradeInv'
  BY DEF LiveInv, TradeInv, Durable, Closed
<1>6. ExposureAccounted'
  BY DEF LiveInv, ExposureAccounted, LiveManagementPermitted, AuthorityMatches
<1> QED
  BY <1>1, <1>2, <1>3, <1>4, <1>5, <1>6 DEF LiveInv

(* A fill keeps the invariant: it closes what it leaves nothing of.         *)
LEMMA FillKeeps ==
    ASSUME LiveInv, NEW x \in Transactions, NEW k \in 1 .. held,
           held' = held - k,
           fill' = [fill EXCEPT ![x][trade] = k],
           closer' = IF held = k THEN [closer EXCEPT ![trade] = x] ELSE closer,
           wire' \in [Ops -> {"unsent", "sent", "rejected", "filled"}], RejectedStays,
           \A o \in Ops : wire[o] = "unsent" <=> wire'[o] = "unsent",
           UNCHANGED <<trade, journal, book, memop, thread, otherProcess>>
    PROVE  LiveInv'
<1>1. UNCHANGED <<rows, dur, pos, resident, quar, withheld, authority, ep, rec, scan, verdict>>
  BY DEF journal, book, otherProcess
<1>2. /\ held \in 0 .. Units /\ trade \in Trades
      /\ closer \in [Trades -> Transactions \cup {NoOp}]
      /\ fill \in [Transactions -> [Trades -> 0 .. Units]]
  BY DEF LiveInv, TypeOK
<1>3. held' \in 0 .. Units /\ (held' > 0 => held > 0 /\ closer'[trade] = closer[trade])
  BY <1>2, BoundAssumption
<1>4. closer' \in [Trades -> Transactions \cup {NoOp}]
      /\ \A t \in Trades : closer'[t] = closer[t] \/ closer'[t] = x
  BY <1>2
<1>5. fill' \in [Transactions -> [Trades -> 0 .. Units]]
  <2>1. k \in 0 .. Units
    BY <1>2, BoundAssumption
  <2> QED
    BY <1>2, <2>1
<1>6. ClosedStays
  BY <1>4, NoOpAssumption DEF ClosedStays, Closed
<1>7. RowsGrow /\ JournalInv' /\ \A o \in Ops : RowInv(o)'
  BY <1>1, <1>6, RowsKept
<1>8. ASSUME NEW s \in Sessions, NEW o \in Ops
      PROVE  ScanInv(s, o)'
  BY <1>1, <1>6, <1>7, ScanKept
<1>9. ASSUME NEW s \in Operators
      PROVE  VerdictInv(s)'
  BY <1>1, <1>6, <1>7, VerdictKept
<1>10. /\ scan' \in [Sessions -> [Ops -> Row \cup {NoRow}]]
       /\ verdict' \in [Operators -> CloseOperation \cup {NoMem}]
  BY <1>1 DEF LiveInv, TypeOK
<1> QED
  BY <1>1, <1>3, <1>4, <1>5, <1>6, <1>7, <1>8, <1>9, <1>10, WorldStep

(* The broker's answers, and reductions that no operation asked for, keep   *)
(* the invariant.                                                           *)
LEMMA BrokerKeeps ==
    ASSUME LiveInv, Broker
    PROVE  LiveInv'
<1>1. wire \in [Ops -> {"unsent", "sent", "rejected", "filled"}]
  BY DEF LiveInv, TypeOK
<1>2. CASE BrokerReduces
  <2>1. PICK k \in 1 .. held :
           /\ held' = held - k
           /\ fill' = [fill EXCEPT ![Elsewhere][trade] = k]
           /\ closer' = IF held = k THEN [closer EXCEPT ![trade] = Elsewhere] ELSE closer
    BY <1>2 DEF BrokerReduces
  <2>2. UNCHANGED wire /\ UNCHANGED <<trade, journal, book, memop, thread, otherProcess>>
    BY <1>2 DEF BrokerReduces
  <2>3. Elsewhere \in Transactions
    BY TransactionAssumption
  <2>4. RejectedStays
    BY <2>2 DEF RejectedStays
  <2> QED
    BY <1>1, <2>1, <2>2, <2>3, <2>4, FillKeeps
<1>3. ASSUME NEW o \in Ops, BrokerFills(o)
      PROVE  LiveInv'
  <2>1. PICK k \in 1 .. rows[o].units :
           /\ held' = held - k
           /\ fill' = [fill EXCEPT ![o][trade] = k]
           /\ closer' = IF held = k THEN [closer EXCEPT ![trade] = o] ELSE closer
    BY <1>3 DEF BrokerFills
  <2>2. rows[o] \in Row
    BY <1>3, RowFacts DEF BrokerFills, LiveInv, RowInv, JournalInv
  <2>3. k \in 1 .. held
    <3>1. rows[o].units \in Nat /\ rows[o].units <= held /\ held \in 0 .. Units
      BY <1>3, <2>2 DEF BrokerFills, Row, LiveInv, TypeOK
    <3> QED
      BY <3>1, BoundAssumption
  <2>4. /\ wire' \in [Ops -> {"unsent", "sent", "rejected", "filled"}]
        /\ \A q \in Ops : wire'[q] = IF q = o THEN "filled" ELSE wire[q]
        /\ wire[o] = "sent"
    BY <1>1, <1>3 DEF BrokerFills
  <2>5. RejectedStays /\ \A q \in Ops : wire[q] = "unsent" <=> wire'[q] = "unsent"
    BY <2>4 DEF RejectedStays
  <2>6. o \in Transactions /\ UNCHANGED <<trade, journal, book, memop, thread, otherProcess>>
    BY <1>3, TransactionAssumption DEF BrokerFills
  <2> QED
    BY <2>1, <2>3, <2>4, <2>5, <2>6, FillKeeps
<1>4. ASSUME NEW o \in Ops, BrokerRejects(o)
      PROVE  LiveInv'
  <2>1. /\ wire' \in [Ops -> {"unsent", "sent", "rejected", "filled"}]
        /\ \A q \in Ops : wire'[q] = IF q = o THEN "rejected" ELSE wire[q]
        /\ wire[o] = "sent"
    BY <1>1, <1>4 DEF BrokerRejects
  <2>2. RejectedStays /\ \A q \in Ops : wire[q] = "unsent" <=> wire'[q] = "unsent"
    BY <2>1 DEF RejectedStays
  <2>3. UNCHANGED <<trade, held, fill, closer, rows, dur, pos, resident, quar, withheld, memop,
                    thread,
                    authority, ep, rec, scan, verdict>>
    BY <1>4 DEF BrokerRejects, journal, book, otherProcess
  <2>4. ClosedStays
    BY <2>3 DEF ClosedStays, Closed
  <2>5. RowsGrow /\ JournalInv' /\ \A q \in Ops : RowInv(q)'
    BY <2>2, <2>3, <2>4, RowsKept
  <2>6. ASSUME NEW s \in Sessions, NEW q \in Ops
        PROVE  ScanInv(s, q)'
    BY <2>3, <2>4, <2>5, ScanKept
  <2>7. ASSUME NEW s \in Operators
        PROVE  VerdictInv(s)'
    BY <2>3, <2>4, <2>5, VerdictKept
  <2>8. /\ held' \in 0 .. Units /\ closer' \in [Trades -> Transactions \cup {NoOp}]
        /\ fill' \in [Transactions -> [Trades -> 0 .. Units]]
        /\ scan' \in [Sessions -> [Ops -> Row \cup {NoRow}]]
        /\ verdict' \in [Operators -> CloseOperation \cup {NoMem}]
    BY <2>3 DEF LiveInv, TypeOK
  <2> QED
    BY <2>1, <2>2, <2>3, <2>4, <2>5, <2>6, <2>7, <2>8, WorldStep
<1> QED
  BY <1>2, <1>3, <1>4 DEF Broker

(* A step of the journal's other sessions keeps the invariant when its      *)
(* rows, scans and verdicts are right.                                      *)
LEMMA SessionStep ==
    ASSUME LiveInv, UNCHANGED <<broker, dur, book, memop, authority, ep, rec, thread>>,
           JournalInv', RowsGrow, \A o \in Ops : RowInv(o)',
           scan' \in [Sessions -> [Ops -> Row \cup {NoRow}]],
           verdict' \in [Operators -> CloseOperation \cup {NoMem}],
           \A s \in Sessions, o \in Ops :
              scan'[s][o] \in {scan[s][o], NoRow} \/ (rows' = rows /\ scan'[s][o] = RecoverScan[o]),
           \A s \in Operators : verdict'[s] \in {verdict[s], NoMem} \/ VerdictInv(s)'
    PROVE  LiveInv'
<1>1. UNCHANGED <<trade, held, wire, fill, closer, dur, pos, resident, quar, withheld>>
  BY DEF broker, book
<1>2. ClosedStays /\ RejectedStays
  BY <1>1 DEF ClosedStays, Closed, RejectedStays
<1>3. ASSUME NEW s \in Sessions, NEW o \in Ops
      PROVE  ScanInv(s, o)'
  <2>1. CASE scan'[s][o] = scan[s][o]
    BY <1>2, <2>1, ScanKept
  <2>2. CASE scan'[s][o] = NoRow
    BY <2>2 DEF ScanInv
  <2>3. CASE rows' = rows /\ scan'[s][o] = RecoverScan[o] /\ RecoverScan[o] # NoRow
    BY <1>1, <2>3, FreshScan DEF ScanInv, Closed
  <2> QED
    BY <2>1, <2>2, <2>3
<1>4. ASSUME NEW s \in Operators
      PROVE  VerdictInv(s)'
  <2>1. CASE verdict'[s] = verdict[s]
    BY <1>2, <2>1, VerdictKept
  <2>2. CASE verdict'[s] = NoMem
    BY <2>2 DEF VerdictInv
  <2> QED
    BY <2>1, <2>2
<1>5. /\ held' \in 0 .. Units /\ closer' \in [Trades -> Transactions \cup {NoOp}]
      /\ fill' \in [Transactions -> [Trades -> 0 .. Units]]
      /\ wire' \in [Ops -> {"unsent", "sent", "rejected", "filled"}]
  BY <1>1 DEF LiveInv, TypeOK
<1> QED
  BY <1>1, <1>2, <1>3, <1>4, <1>5, WorldStep

(* A mark of recover() keeps the invariant though the row may have changed  *)
(* since it was read: what it writes is still so (recover, mark).           *)
LEMMA RecoverRowKeeps ==
    ASSUME LiveInv, NEW s \in Sessions, NEW o \in Ops, RecoverRow(s, o)
    PROVE  LiveInv'
<1> DEFINE st == RecoveredState(scan[s][o])
           tx == RecoveredTx(scan[s][o])
<1>1. /\ UNCHANGED <<broker, dur, book, memop, authority, ep, rec, thread>> /\ UNCHANGED verdict
      /\ Mark(o, st, tx) /\ scan' = [scan EXCEPT ![s][o] = NoRow] /\ scan[s][o] # NoRow
  BY DEF RecoverRow
<1>2. ScanInv(s, o)
  BY DEF LiveInv
<1>3. /\ st \in ConfirmationStates \ {"FINALISED"} /\ st # "REJECTED_CONFIRMED"
      /\ tx \in Transactions \cup {NoOp}
      /\ st = "FULLY_CONFIRMED" => scan[s][o].st = "FULLY_CONFIRMED"
  BY <1>1, <1>2 DEF ScanInv, RecoveredState, RecoveredTx, RecoverWrites, CrashStates, Row,
                    ConfirmationStates, Unsettled
<1>4. st = "FULLY_CONFIRMED" => Closed(rows[o].trade)
  BY <1>1, <1>2, <1>3 DEF ScanInv
<1> HIDE DEF st, tx
<1>5. UNCHANGED <<closer, wire>>
  BY <1>1 DEF broker
<1>6. JournalInv' /\ RowsGrow /\ \A q \in Ops : RowInv(q)'
  BY <1>1, <1>3, <1>4, <1>5, MarkKeepsRows
<1>7. scan \in [Sessions -> [Ops -> Row \cup {NoRow}]]
      /\ verdict \in [Operators -> CloseOperation \cup {NoMem}]
  BY DEF LiveInv, TypeOK
<1>8. scan' \in [Sessions -> [Ops -> Row \cup {NoRow}]]
      /\ \A z \in Sessions, q \in Ops : scan'[z][q] \in {scan[z][q], NoRow}
  BY <1>1, <1>7
<1> QED
  BY <1>1, <1>6, <1>7, <1>8, SessionStep

(* An operator session keeps the invariant: it calls closed only what was,  *)
(* and writes it only to the row it read (resolve_from_retrieved_transaction,*)
(* note_recovery_observation).                                              *)
LEMMA OperatorKeeps ==
    ASSUME LiveInv, NEW s \in Operators, OperatorStep(s)
    PROVE  LiveInv'
<1>0. s \in Sessions
  BY SessionAssumption
<1>1. scan \in [Sessions -> [Ops -> Row \cup {NoRow}]]
      /\ verdict \in [Operators -> CloseOperation \cup {NoMem}]
  BY DEF LiveInv, TypeOK
<1>2. ASSUME rows' = rows, UNCHANGED <<broker, dur>>
      PROVE  JournalInv' /\ RowsGrow /\ \A o \in Ops : RowInv(o)'
  BY <1>2, RowsKept DEF broker, ClosedStays, Closed, RejectedStays
<1>3. CASE OperatorOpens(s)
  <2>1. RecoverScan \in [Ops -> Row \cup {NoRow}]
    BY FreshScan DEF RecoverScan
  <2>2. /\ UNCHANGED <<broker, dur, book, memop, authority, ep, rec, thread>> /\ rows' = rows
        /\ UNCHANGED verdict /\ scan' = [scan EXCEPT ![s] = RecoverScan]
    BY <1>3 DEF OperatorOpens, journal
  <2>3. /\ scan' \in [Sessions -> [Ops -> Row \cup {NoRow}]]
        /\ \A z \in Sessions, o \in Ops : scan'[z][o] \in {scan[z][o], RecoverScan[o]}
    BY <1>0, <1>1, <2>1, <2>2
  <2> QED
    BY <1>1, <1>2, <2>2, <2>3, SessionStep
<1>4. ASSUME NEW o \in Ops, OperatorReads(s, o)
      PROVE  LiveInv'
  <2>1. /\ UNCHANGED <<broker, dur, book, memop, authority, ep, rec, thread>> /\ rows' = rows
        /\ UNCHANGED scan /\ UNCHANGED closer
    BY <1>4 DEF OperatorReads, journal, broker
  <2>2. rows[o] \in Row /\ rows[o] # NoRow /\ rows[o].st \in Unsettled /\ RowInv(o)
    BY <1>4, RowFacts DEF OperatorReads, Blocking, NoRow, Unsettled, LiveInv, JournalInv
  <2>3. PICK v \in [op : Ops \cup {NoOp}, st : ConfirmationStates, tx : Transactions \cup {NoOp}] :
           /\ verdict' = [verdict EXCEPT ![s] = v]
           /\ v.op = o /\ v.st \in Unsettled
           /\ v.st = "FULLY_CONFIRMED" => Closed(rows[o].trade)
    <3>1. CASE verdict' = [verdict EXCEPT ![s] = [op |-> o, st |-> rows[o].st, tx |-> rows[o].tx]]
      <4> DEFINE v == [op |-> o, st |-> rows[o].st, tx |-> rows[o].tx]
      <4>1. v \in [op : Ops \cup {NoOp}, st : ConfirmationStates, tx : Transactions \cup {NoOp}]
        BY <2>2 DEF Row
      <4>2. v.op = o /\ v.st \in Unsettled /\ (v.st = "FULLY_CONFIRMED" => Closed(rows[o].trade))
        BY <2>2 DEF RowInv
      <4> QED
        BY <3>1, <4>1, <4>2
    <3>2. ASSUME NEW x \in Transactions,
                 verdict' = [verdict EXCEPT ![s] = [op |-> o, st |-> Evidence(o, x), tx |-> x]]
          PROVE  \E v \in [op : Ops \cup {NoOp}, st : ConfirmationStates, tx : Transactions \cup {NoOp}] :
                    /\ verdict' = [verdict EXCEPT ![s] = v]
                    /\ v.op = o /\ v.st \in Unsettled
                    /\ v.st = "FULLY_CONFIRMED" => Closed(rows[o].trade)
      <4> DEFINE v == [op |-> o, st |-> Evidence(o, x), tx |-> x]
      <4>1. Evidence(o, x) \in Unsettled /\ Unsettled \subseteq ConfirmationStates
        BY DEF Evidence, Unsettled, ConfirmationStates
      <4>2. Evidence(o, x) = "FULLY_CONFIRMED" => closer[rows[o].trade] = x
        BY DEF Evidence
      <4>3. Evidence(o, x) = "FULLY_CONFIRMED" => Closed(rows[o].trade)
        BY <4>2, NoOpAssumption DEF Closed
      <4>4. v \in [op : Ops \cup {NoOp}, st : ConfirmationStates, tx : Transactions \cup {NoOp}]
        BY <4>1
      <4> QED
        BY <3>2, <4>1, <4>3, <4>4
    <3> QED
      BY <1>4, <3>1, <3>2 DEF OperatorReads
  <2>4. v \in CloseOperation
    BY DEF CloseOperation
  <2>5. verdict' \in [Operators -> CloseOperation \cup {NoMem}] /\ verdict'[s] = v
        /\ \A z \in Operators \ {s} : verdict'[z] = verdict[z]
    BY <1>1, <2>3, <2>4
  <2>6. VerdictInv(s)'
    BY <2>1, <2>2, <2>3, <2>4, <2>5 DEF VerdictInv, Closed
  <2> QED
    BY <1>1, <1>2, <2>1, <2>5, <2>6, SessionStep
<1>5. CASE OperatorWrites(s)
  <2>1. /\ UNCHANGED <<broker, dur, book, memop, authority, ep, rec, thread>>
        /\ UNCHANGED scan /\ verdict' = [verdict EXCEPT ![s] = NoMem]
        /\ Mark(verdict[s].op, verdict[s].st, verdict[s].tx) /\ verdict[s] # NoMem
    BY <1>5 DEF OperatorWrites
  <2>2. VerdictInv(s)
    BY DEF LiveInv
  <2>3. /\ verdict[s].op \in Ops /\ verdict[s].st \in ConfirmationStates \ {"FINALISED"}
        /\ verdict[s].st # "REJECTED_CONFIRMED" /\ verdict[s].tx \in Transactions \cup {NoOp}
        /\ verdict[s].st = "FULLY_CONFIRMED" => Closed(rows[verdict[s].op].trade)
    BY <2>1, <2>2 DEF VerdictInv, CloseOperation, Unsettled, ConfirmationStates
  <2>4. UNCHANGED <<closer, wire>>
    BY <2>1 DEF broker
  <2>5. JournalInv' /\ RowsGrow /\ \A o \in Ops : RowInv(o)'
    BY <2>1, <2>3, <2>4, MarkKeepsRows
  <2>6. verdict' \in [Operators -> CloseOperation \cup {NoMem}]
        /\ \A z \in Operators : verdict'[z] \in {verdict[z], NoMem}
    BY <1>1, <2>1
  <2> QED
    BY <1>1, <2>1, <2>5, <2>6, SessionStep
<1>6. CASE OperatorQuits(s)
  <2>1. /\ UNCHANGED <<broker, dur, book, memop, authority, ep, rec, thread>> /\ rows' = rows
        /\ scan' = [scan EXCEPT ![s] = NothingRead] /\ verdict' = [verdict EXCEPT ![s] = NoMem]
    BY <1>6 DEF OperatorQuits, journal
  <2>2. /\ scan' \in [Sessions -> [Ops -> Row \cup {NoRow}]]
        /\ \A z \in Sessions, o \in Ops : scan'[z][o] \in {scan[z][o], NoRow}
        /\ verdict' \in [Operators -> CloseOperation \cup {NoMem}]
        /\ \A z \in Operators : verdict'[z] \in {verdict[z], NoMem}
    BY <1>0, <1>1, <2>1 DEF NothingRead
  <2> QED
    BY <1>2, <2>1, <2>2, SessionStep
<1> QED
  BY <1>0, <1>3, <1>4, <1>5, <1>6, RecoverRowKeeps DEF OperatorStep

-----------------------------------------------------------------------------
\* The invariant, and what follows from it.

(* One open position and no process running satisfies the invariant.        *)
LEMMA InitLiveInv == Init => LiveInv
<1> SUFFICES ASSUME Init
             PROVE  LiveInv
  OBVIOUS
<1> USE DEF Init
<1>1. Entered(trade) \in Position /\ Entered(trade).trade = trade /\ Entered(trade) # NoPos
  BY BoundAssumption, TradeAssumption DEF Entered, Position, NoPos
<1>2. Stopped \in [Threads -> ThreadRecord] /\ Stopped["cycle"].at = "down"
      /\ Stopped["reconciler"] = Idle /\ Idle.at = "idle"
  BY DEF Stopped, Threads, ThreadRecord, Idle, Steps, StartSteps
<1>3. \A t \in Trades : dur[t] = IF t = trade THEN Entered(trade) ELSE NoPos
  OBVIOUS
<1>4. dur \in [Trades -> Position \cup {NoPos}]
  BY <1>1
<1>5. FenceTypeOK /\ EpochsUnique
  BY DEF FenceInit, FenceTypeOK, EpochsUnique, RecoveryStates, NoEpoch
<1>6. JournalTypeOK
  BY DEF JournalTypeOK
<1>7. TypeOK
  BY <1>2, <1>4, <1>5, <1>6, BoundAssumption DEF TypeOK, ThreadRecord, NothingRead
<1>8. JournalInv
  BY <1>6 DEF JournalInv, OneUnresolvedPerTrade, ClaimHasIntent, Claimed, Blocking, NoRow, Unsettled
<1>9. \A o \in Ops : RowInv(o)
  BY DEF RowInv, NoRow
<1>10. ASSUME NEW p \in Procs
       PROVE  ProcInv(p)
  <2>1. thread[p]["cycle"].at = "down" /\ thread[p]["reconciler"] = Idle
    BY <1>2
  <2>2. PlaceInv(p) /\ CallInv(p)
    BY <1>2, <2>1 DEF PlaceInv, CallInv, CloseSteps, OwnSteps, UnsentSteps, Cycle, At
  <2>3. DeleteInv(p, "cycle") /\ DeleteInv(p, "reconciler")
    BY <1>2, <2>1 DEF DeleteInv
  <2> QED
    BY <2>2, <2>3 DEF ProcInv, Threads
<1>11. OneCaller
  BY <1>2 DEF OneCaller, OwnSteps
<1>12. (\A s \in Sessions, o \in Ops : ScanInv(s, o)) /\ \A s \in Operators : VerdictInv(s)
  BY DEF ScanInv, VerdictInv, NothingRead
<1>13. TradeInv
  BY <1>1, <1>3 DEF TradeInv, Durable, Closed
<1>14. ExposureAccounted
  BY DEF ExposureAccounted, LiveManagementPermitted, FenceInit
<1> QED
  BY <1>5, <1>7, <1>8, <1>9, <1>10, <1>11, <1>12, <1>13, <1>14 DEF LiveInv

(* Every step keeps the invariant.                                          *)
LEMMA StepLiveInv == LiveInv /\ [Next]_vars => LiveInv'
<1> SUFFICES ASSUME LiveInv, [Next]_vars
             PROVE  LiveInv'
  OBVIOUS
<1>1. ASSUME NEW p \in Procs, StartUp(p)
      PROVE  LiveInv'
  BY <1>1, SessionAssumption, OpenJournalKeeps, RecoverRowKeeps, RecoverCollidesKeeps, ClaimKeeps,
     PublishKeeps DEF StartUp
<1>2. ASSUME NEW p \in Procs, Closing(p)
      PROVE  LiveInv'
  BY <1>2, PersistPositionKeeps, FindBlockerKeeps, NotAdmittedKeeps, ReserveRowKeeps, AuthorizeKeeps,
     SubmissionKeeps, SendKeeps, AnswerKeeps, PersistKeeps DEF Closing
<1>3. ASSUME NEW p \in Procs, NEW th \in Threads, Deleting(p, th)
      PROVE  LiveInv'
  BY <1>3, CheckDeleteKeeps, FinaliseRowKeeps, PopKeeps DEF Deleting
<1>4. ASSUME NEW p \in Procs, Reconciling(p)
      PROVE  LiveInv'
  BY <1>4, ReconcilerStarts, AdjustUnitsKeeps DEF Reconciling
<1>5. ASSUME NEW p \in Procs, NEW t \in Trades, NextTrade(p, t)
      PROVE  LiveInv'
  BY <1>5, NextTradeKeeps
<1>6. ASSUME NEW p \in Procs, LoadBrokerView(p) \/ StartClose(p) \/ WithholdManagement(p) \/ Exit(p)
      PROVE  LiveInv'
  BY <1>6, LoadBrokerViewKeeps, StartCloseKeeps, WithholdKeeps, ExitKeeps
<1>7. CASE Broker
  BY <1>7, BrokerKeeps
<1>8. ASSUME NEW s \in Operators, OperatorStep(s)
      PROVE  LiveInv'
  BY <1>8, OperatorKeeps
<1>9. CASE UNCHANGED vars
  <2>1. UNCHANGED <<trade, dur, pos, resident, quar, withheld, memop, thread, authority, ep, rec,
                    rows,
                    held, wire, fill, closer, scan, verdict>>
    BY <1>9 DEF vars
  <2>2. ClosedStays /\ RejectedStays
    BY <2>1 DEF ClosedStays, Closed, RejectedStays
  <2>3. JournalInv' /\ RowsGrow /\ \A o \in Ops : RowInv(o)'
    BY <2>1, <2>2, RowsKept
  <2>4. scan' \in [Sessions -> [Ops -> Row \cup {NoRow}]]
        /\ verdict' \in [Operators -> CloseOperation \cup {NoMem}]
    BY <2>1 DEF LiveInv, TypeOK
  <2> QED
    BY <2>1, <2>3, <2>4, SessionStep DEF broker, book
<1> QED
  BY <1>1, <1>2, <1>3, <1>4, <1>5, <1>6, <1>7, <1>8, <1>9 DEF Next

(* Whatever the threads, the operators and the broker do, each thread, call *)
(* and recovery goes on holding what it once found true: LiveInv holds in   *)
(* every state that closing live positions can reach.                       *)
THEOREM LiveInvariant == Spec => []LiveInv
BY InitLiveInv, StepLiveInv, PTL DEF Spec

(* Type correctness of the closing of live positions.                       *)
THEOREM LiveTypeCorrect == Spec => []TypeOK
<1>1. LiveInv => TypeOK
  BY DEF LiveInv
<1> QED
  BY <1>1, LiveInvariant, PTL

(* An outstanding request blocks its trade.                                 *)
LEMMA LiveInvBlocks == LiveInv => OutstandingBlocks
<1> SUFFICES ASSUME LiveInv, NEW o \in Ops, wire[o] \in {"sent", "filled"}
             PROVE  Blocking(o) \/ Settled(o)
  BY DEF OutstandingBlocks
<1>1. RowInv(o) /\ rows[o] \in Row
  BY RowFacts DEF LiveInv, RowInv, JournalInv
<1>2. rows[o].st \in ConfirmationStates
  BY <1>1 DEF Row
<1> QED
  BY <1>1, <1>2 DEF RowInv, Blocking, Settled, ConfirmationStates, Resolved

(* A request that may be executed, or was, blocks its trade until the       *)
(* deletion of a closed trade is recorded, for any number of processes,     *)
(* sessions, trades and operations (run_guarded_live_close, recover, mark). *)
THEOREM LiveOutstandingBlocks == Spec => []OutstandingBlocks
BY LiveInvBlocks, LiveInvariant, PTL

(* What the journal calls confirmed or finalised is closed at the broker,   *)
(* for any units, any partial fills and any evidence applied in any order   *)
(* (apply_transaction_body, mark, finalise).                                *)
THEOREM LiveConfirmedIsClosed == Spec => []ConfirmedIsClosed
<1>1. LiveInv => ConfirmedIsClosed
  BY DEF LiveInv, RowInv, ConfirmedIsClosed
<1> QED
  BY <1>1, LiveInvariant, PTL

(* An open trade is in the book or in the quarantine of the process in      *)
(* charge, through any number of restarts, successors and later trades      *)
(* (execute_startup_sequence, close_confirmed_live_position).               *)
THEOREM LiveExposureAccounted == Spec => []ExposureAccounted
<1>1. LiveInv => ExposureAccounted
  BY DEF LiveInv
<1> QED
  BY <1>1, LiveInvariant, PTL

-----------------------------------------------------------------------------
\* What a step does to the fence, to the rows and to the book.

(* The composition takes only steps of the fence.                           *)
LEMMA StepIsFenceStep == [Next]_vars => [FenceNext]_fenceVars
<1> SUFFICES ASSUME [Next]_vars
             PROVE  [FenceNext]_fenceVars
  OBVIOUS
<1>1. ASSUME NEW p \in Procs, StartUp(p)
      PROVE  [FenceNext]_fenceVars
  BY <1>1 DEF StartUp, OpenJournal, RecoverRow, RecoverCollides, ClaimRun, ClaimBlocked,
              PublishRecovered, FenceNext, fenceVars
<1>2. ASSUME NEW p \in Procs, Closing(p)
      PROVE  UNCHANGED fenceVars
  BY <1>2 DEF Closing, PersistPosition, FindBlocker, OrdersDisabled, ReserveRow, CommitIntent,
              IssuePermit, JournalRefuses, BeginSubmit, CheckAuthority, ClaimPermit, ClaimRefused,
              Recheck, Send, RequestFails, Response, Interpret, Verify, Persist, PersistFails,
              otherProcess, fenceVars
<1>3. ASSUME NEW p \in Procs, NEW th \in Threads, Deleting(p, th)
      PROVE  UNCHANGED fenceVars
  BY <1>3 DEF Deleting, CheckDelete, FinaliseRow, Pop, otherProcess, fenceVars
<1>4. ASSUME NEW p \in Procs, Reconciling(p)
      PROVE  UNCHANGED fenceVars
  BY <1>4 DEF Reconciling, BrokerFlat, UnitsDiffer, AdjustUnits, otherProcess, fenceVars
<1>5. ASSUME NEW p \in Procs,
             \/ LoadBrokerView(p) \/ StartClose(p) \/ WithholdManagement(p) \/ \E t \in Trades : NextTrade(p, t)
      PROVE  UNCHANGED fenceVars
  BY <1>5 DEF LoadBrokerView, StartClose, WithholdManagement, NextTrade, otherProcess, fenceVars
<1>6. ASSUME NEW p \in Procs, Exit(p)
      PROVE  FenceNext
  BY <1>6 DEF Exit, FenceNext
<1>7. CASE Broker
  BY <1>7 DEF Broker, BrokerReduces, BrokerFills, BrokerRejects, otherProcess, fenceVars
<1>8. ASSUME NEW s \in Operators, OperatorStep(s)
      PROVE  UNCHANGED fenceVars
  BY <1>8 DEF OperatorStep, OperatorOpens, RecoverRow, OperatorReads, OperatorWrites, OperatorQuits,
              fenceVars
<1>9. CASE UNCHANGED vars
  BY <1>9 DEF vars, fenceVars
<1> QED
  BY <1>1, <1>2, <1>3, <1>4, <1>5, <1>6, <1>7, <1>8, <1>9 DEF Next

(* The composition implements the fence: what was proved of it, that one    *)
(* process at most is in charge among them, holds of the closing of         *)
(* positions (startup_recovery).                                            *)
THEOREM LiveImplementsFence == Spec => FenceSpec
<1>1. Init => FenceInit
  BY DEF Init
<1> QED
  BY <1>1, StepIsFenceStep, PTL DEF Spec, FenceSpec

\* A transaction of the journal, with the thread that records a deletion.
RowsMove ==
    \E o \in Ops :
        \/ \E t \in Trades, g \in Nat, u \in Nat : Reserve(o, t, g, u)
        \/ \E s \in Sessions : CommitSubmissionIntent(s, o) \/ ClaimNetworkPermit(s, o)
        \/ \E st \in ConfirmationStates \ {"FINALISED"}, tx \in Transactions \cup {NoOp} :
              Mark(o, st, tx)
        \/ /\ Finalise(o)
           /\ \E p \in Procs, th \in Threads :
                 EpochExpected(p) /\ At(p, th, "finalise") /\ Op(p, th) = o

(* The rows change by the transactions of the journal only.                 *)
LEMMA StepMovesRows == LiveInv /\ [Next]_vars => RowsMove \/ UNCHANGED rows
<1> SUFFICES ASSUME LiveInv, [Next]_vars
             PROVE  RowsMove \/ UNCHANGED rows
  OBVIOUS
<1>1. ASSUME NEW s \in Sessions, NEW o \in Ops, RecoverRow(s, o)
      PROVE  RowsMove
  <2>1. ScanInv(s, o) /\ scan[s][o] # NoRow
    BY <1>1 DEF LiveInv, RecoverRow
  <2>2. /\ RecoveredState(scan[s][o]) \in ConfirmationStates \ {"FINALISED"}
        /\ RecoveredTx(scan[s][o]) \in Transactions \cup {NoOp}
    BY <2>1 DEF ScanInv, RecoveredState, RecoveredTx, RecoverWrites, CrashStates, Row,
                ConfirmationStates, Unsettled
  <2> QED
    BY <1>1, <2>2 DEF RecoverRow, RowsMove
<1>2. ASSUME NEW p \in Procs, StartUp(p)
      PROVE  RowsMove \/ UNCHANGED rows
  BY <1>1, <1>2, SessionAssumption
     DEF StartUp, OpenJournal, RecoverCollides, ClaimRun, ClaimBlocked, PublishRecovered, journal
<1>3. ASSUME NEW p \in Procs, NEW o \in Ops, ReserveRow(p, o)
      PROVE  RowsMove
  <2>1. pos[p] \in Position /\ thread[p]["cycle"].view \in View
    <3>1. PlaceInv(p) /\ thread[p]["cycle"].at = "reserve"
      BY <1>3 DEF LiveInv, ProcInv, ReserveRow, Cycle, At
    <3> QED
      BY <3>1 DEF PlaceInv, CloseSteps, OwnSteps
  <2>2. pos[p].trade \in Trades /\ pos[p].gen \in Nat /\ thread[p]["cycle"].view.units \in Nat
    BY <2>1, BoundAssumption DEF Position, View
  <2> QED
    BY <1>3, <2>2 DEF ReserveRow, RowsMove
<1>4. ASSUME NEW p \in Procs, CommitIntent(p) \/ ClaimPermit(p)
      PROVE  RowsMove
  <2>1. thread[p]["cycle"].at \in OwnSteps
    BY <1>4 DEF CommitIntent, ClaimPermit, Cycle, At, OwnSteps
  <2>2. Current(p) \in Ops /\ p \in Sessions
    BY <2>1, AttemptFacts, SessionAssumption
  <2> QED
    BY <1>4, <2>2 DEF CommitIntent, ClaimPermit, RowsMove
<1>5. ASSUME NEW p \in Procs, Persist(p)
      PROVE  RowsMove
  <2>1. thread[p]["cycle"].at \in OwnSteps /\ Cycle(p, "mark")
    BY <1>5 DEF Persist, Cycle, At, OwnSteps
  <2>2. Current(p) \in Ops /\ memop[p] \in CloseOperation /\ CallInv(p)
    BY <2>1, AttemptFacts DEF LiveInv, ProcInv
  <2>3. memop[p].st \in ConfirmationStates \ {"FINALISED"} /\ memop[p].tx \in Transactions \cup {NoOp}
    BY <2>1, <2>2 DEF CallInv, CloseOperation
  <2> QED
    BY <1>5, <2>2, <2>3 DEF Persist, RowsMove
<1>6. ASSUME NEW p \in Procs, Closing(p)
      PROVE  RowsMove \/ UNCHANGED rows
  BY <1>3, <1>4, <1>5, <1>6
     DEF Closing, PersistPosition, FindBlocker, OrdersDisabled, IssuePermit, JournalRefuses,
         BeginSubmit, CheckAuthority, ClaimRefused, Recheck, Send, RequestFails, Response, Interpret,
         Verify, PersistFails, journal
<1>7. ASSUME NEW p \in Procs, NEW th \in Threads, Deleting(p, th)
      PROVE  RowsMove \/ UNCHANGED rows
  <2>1. CASE FinaliseRow(p, th)
    <3>1. Op(p, th) \in Ops
      BY <2>1 DEF FinaliseRow, At, LiveInv, ProcInv, DeleteInv
    <3> QED
      BY <2>1, <3>1 DEF FinaliseRow, RowsMove
  <2>2. CASE ~FinaliseRow(p, th)
    BY <1>7, <2>2 DEF Deleting, CheckDelete, Pop, journal
  <2> QED
    BY <2>1, <2>2
<1>8. ASSUME NEW p \in Procs,
             \/ Reconciling(p) \/ LoadBrokerView(p) \/ StartClose(p) \/ WithholdManagement(p) \/ Exit(p)
      PROVE  UNCHANGED rows
  BY <1>8 DEF Reconciling, BrokerFlat, UnitsDiffer, AdjustUnits, LoadBrokerView, StartClose,
              WithholdManagement, Exit,
              journal
<1>9. ASSUME NEW p \in Procs, NEW t \in Trades, NextTrade(p, t)
      PROVE  UNCHANGED rows
  BY <1>9 DEF NextTrade
<1>10. CASE Broker
  BY <1>10 DEF Broker, BrokerReduces, BrokerFills, BrokerRejects, journal
<1>11. ASSUME NEW s \in Operators, OperatorStep(s)
       PROVE  RowsMove \/ UNCHANGED rows
  <2>0. s \in Sessions
    BY SessionAssumption
  <2>1. CASE OperatorWrites(s)
    <3>1. VerdictInv(s) /\ verdict[s] # NoMem
      BY <2>1 DEF LiveInv, OperatorWrites
    <3>2. /\ verdict[s].op \in Ops /\ verdict[s].st \in ConfirmationStates \ {"FINALISED"}
          /\ verdict[s].tx \in Transactions \cup {NoOp}
      BY <3>1 DEF VerdictInv, CloseOperation, Unsettled, ConfirmationStates
    <3> QED
      BY <2>1, <3>2 DEF OperatorWrites, RowsMove
  <2>2. CASE ~OperatorWrites(s)
    BY <1>1, <1>11, <2>0, <2>2 DEF OperatorStep, OperatorOpens, OperatorReads, OperatorQuits, journal
  <2> QED
    BY <2>1, <2>2
<1>12. CASE UNCHANGED vars
  BY <1>12 DEF vars
<1> QED
  BY <1>2, <1>6, <1>7, <1>8, <1>9, <1>10, <1>11, <1>12 DEF Next

(* The composition implements the abstract guard: whatever the processes,   *)
(* threads, operators and the broker do, the right to contact the broker is *)
(* granted once per operation and to one operation of a trade at a time     *)
(* (claim_network_permit, mark, finalise).                                  *)
THEOREM LiveImplementsGuard == Spec => ImplementsGuard
<1>1. Init => G!GuardInit
  <2> SUFFICES ASSUME Init
               PROVE  G!GuardInit
    OBVIOUS
  <2>1. Claimed = {}
    BY DEF Init, Claimed
  <2> QED
    BY <2>1 DEF G!GuardInit, OpenClaims
<1>2. LiveInv /\ [Next]_vars => [G!GuardNext]_(G!guardVars)
  <2> SUFFICES ASSUME LiveInv, [Next]_vars
               PROVE  [G!GuardNext]_(G!guardVars)
    OBVIOUS
  <2>0. JournalInv /\ (RowsMove \/ UNCHANGED rows)
    BY StepMovesRows DEF LiveInv
  <2>1. CASE UNCHANGED rows
    BY <2>1 DEF G!guardVars, OpenClaims, Claimed, UnresolvedOn, Blocking
  <2>2. ASSUME NEW o \in Ops, NEW t \in Trades, NEW g \in Nat, NEW u \in Nat, Reserve(o, t, g, u)
        PROVE  UNCHANGED G!guardVars
    BY <2>0, <2>2, ReserveImplementsGuard
  <2>3. ASSUME NEW o \in Ops, NEW s \in Sessions, CommitSubmissionIntent(s, o)
        PROVE  [G!GuardNext]_(G!guardVars)
    BY <2>0, <2>3, CommitIntentImplementsGuard
  <2>4. ASSUME NEW o \in Ops, NEW s \in Sessions, ClaimNetworkPermit(s, o)
        PROVE  G!GuardNext
    BY <2>0, <2>4, ClaimImplementsGuard DEF G!GuardNext
  <2>5. ASSUME NEW o \in Ops, NEW st \in ConfirmationStates, NEW tx \in Transactions \cup {NoOp},
               Mark(o, st, tx)
        PROVE  [G!GuardNext]_(G!guardVars)
    BY <2>0, <2>5, MarkImplementsGuard
  <2>6. ASSUME NEW o \in Ops, Finalise(o)
        PROVE  [G!GuardNext]_(G!guardVars)
    BY <2>0, <2>6, FinaliseImplementsGuard
  <2> QED
    BY <2>0, <2>1, <2>2, <2>3, <2>4, <2>5, <2>6 DEF RowsMove
<1> QED
  BY <1>1, <1>2, LiveInvariant, PTL DEF Spec, ImplementsGuard, G!GuardSpec

(* A position leaves a book by a deletion, by an exit, or when start-up     *)
(* clears the book.                                                         *)
LEMMA StepMovesBook ==
    ASSUME [Next]_vars, NEW p \in Procs, p \in resident, p \notin resident'
    PROVE  PublishRecovered(p) \/ Exit(p) \/ \E th \in Threads : Pop(p, th)
<1>1. ASSUME NEW q \in Procs, StartUp(q)
      PROVE  PublishRecovered(p)
  BY <1>1 DEF StartUp, OpenJournal, RecoverRow, RecoverCollides, ClaimRun, ClaimBlocked,
              PublishRecovered, book
<1>2. ASSUME NEW q \in Procs, Closing(q)
      PROVE  FALSE
  BY <1>2 DEF Closing, PersistPosition, FindBlocker, OrdersDisabled, ReserveRow, CommitIntent,
              IssuePermit, JournalRefuses, BeginSubmit, CheckAuthority, ClaimPermit, ClaimRefused,
              Recheck, Send, RequestFails, Response, Interpret, Verify, Persist, PersistFails, book
<1>3. ASSUME NEW q \in Procs, NEW th \in Threads, Deleting(q, th)
      PROVE  Pop(p, th)
  BY <1>3 DEF Deleting, CheckDelete, FinaliseRow, Pop, book, BookWithout
<1>4. ASSUME NEW q \in Procs,
             \/ Reconciling(q) \/ LoadBrokerView(q) \/ StartClose(q) \/ WithholdManagement(q)
      PROVE  FALSE
  BY <1>4 DEF Reconciling, BrokerFlat, UnitsDiffer, AdjustUnits, LoadBrokerView, StartClose,
              WithholdManagement, book
<1>5. ASSUME NEW q \in Procs, NEW t \in Trades, NextTrade(q, t)
      PROVE  FALSE
  BY <1>5 DEF NextTrade
<1>6. ASSUME NEW q \in Procs, Exit(q)
      PROVE  Exit(p)
  BY <1>6 DEF Exit
<1>7. CASE Broker
  BY <1>7 DEF Broker, BrokerReduces, BrokerFills, BrokerRejects, book
<1>8. ASSUME NEW s \in Operators, OperatorStep(s)
      PROVE  FALSE
  BY <1>8 DEF OperatorStep, OperatorOpens, RecoverRow, OperatorReads, OperatorWrites, OperatorQuits,
              book
<1>9. CASE UNCHANGED vars
  BY <1>9 DEF vars
<1> QED
  BY <1>1, <1>2, <1>3, <1>4, <1>5, <1>6, <1>7, <1>8, <1>9 DEF Next

(* A live position leaves the book of a running process only when the       *)
(* broker holds nothing of it, whichever thread deletes it and whatever     *)
(* came between its checks and its pop (close_confirmed_live_position).     *)
THEOREM LivePopAfterClose == Spec => PopAfterClose
<1>1. LiveInv /\ [Next]_vars => [\A p \in Procs : Popped(p) => Closed(pos[p].trade)]_vars
  <2> SUFFICES ASSUME LiveInv, [Next]_vars, NEW p \in Procs, Popped(p)
               PROVE  Closed(pos[p].trade)
    OBVIOUS
  <2>1. p \in resident /\ p \notin resident' /\ rec'[p] # "NOT_STARTED"
    BY DEF Popped
  <2>2. ~PublishRecovered(p)
    BY <2>1 DEF PublishRecovered, At, LiveInv, ProcInv, PlaceInv, StartSteps
  <2>3. ~Exit(p)
    BY <2>1 DEF Exit, ExitProcess, LiveInv, TypeOK, FenceTypeOK
  <2>4. PICK th \in Threads : Pop(p, th)
    BY <2>1, <2>2, <2>3, StepMovesBook
  <2>5. Closed(rows[Op(p, th)].trade)
    BY <2>4 DEF Pop, At, LiveInv, ProcInv, DeleteInv
  <2>6. pos[p].trade = rows[Op(p, th)].trade
    BY <2>1, <2>4 DEF Pop, SameInstance
  <2> QED
    BY <2>5, <2>6
<1> QED
  BY <1>1, LiveInvariant, PTL DEF Spec, PopAfterClose

-----------------------------------------------------------------------------
\* Who records a deletion.

\* A deletion that has passed its checks runs in a process that completed its
\* own recovery; whether it is still in charge the transaction compares.
ChargeInv ==
    \A p \in Procs, th \in Threads :
        At(p, th, "finalise") => rec[p] = "COMPLETED" /\ ep[p] # NoEpoch

\* No thread comes to the finalise step.
NoneFinalises ==
    \A p \in Procs, th \in Threads : At(p, th, "finalise")' => At(p, th, "finalise")

(* A thread that moves elsewhere does not come to it.                       *)
LEMMA MovedElsewhere ==
    ASSUME NEW p \in Procs, NEW th \in Threads, NEW r, Moved(p, th, r), r.at # "finalise"
    PROVE  NoneFinalises
BY DEF Moved, NoneFinalises, At

(* A thread that goes to any other step finalises nothing.                  *)
LEMMA GotoElsewhere ==
    ASSUME TypeOK, NEW p \in Procs, NEW th \in Threads, NEW step \in Steps \ {"finalise"},
           Goto(p, th, step)
    PROVE  NoneFinalises
<1>1. PICK r \in ThreadRecord : Moved(p, th, r) /\ r.at = step
  BY GotoMoves
<1> QED
  BY <1>1, MovedElsewhere

(* Nor does one that leaves the close.                                      *)
LEMMA LeaveElsewhere ==
    ASSUME TypeOK, NEW p \in Procs, NEW th \in Threads, Leave(p, th)
    PROVE  NoneFinalises
<1>1. Moved(p, th, Idle) /\ Idle.at # "finalise"
  BY LeaveMoves DEF Idle
<1> QED
  BY <1>1, MovedElsewhere

(* But for the checks of a deletion and an exit, no step brings a thread to *)
(* the finalise step, or takes a completed recovery back.                   *)
LEMMA StepFinalises ==
    ASSUME LiveInv, [Next]_vars
    PROVE  \/ /\ NoneFinalises
              /\ \A q \in Procs : rec[q] = "COMPLETED" => rec'[q] = "COMPLETED" /\ ep'[q] = ep[q]
           \/ \E p \in Procs, th \in Threads : CheckDelete(p, th)
           \/ \E p \in Procs : Exit(p)
<1> DEFINE Kept == \A q \in Procs : rec[q] = "COMPLETED" => rec'[q] = "COMPLETED" /\ ep'[q] = ep[q]
<1>0. TypeOK /\ "cycle" \in Threads /\ "reconciler" \in Threads
  BY DEF LiveInv, Threads
<1>a. UNCHANGED fenceVars => Kept
  BY DEF fenceVars
<1>b. UNCHANGED thread => NoneFinalises
  BY DEF NoneFinalises, At
<1>1. ASSUME NEW p \in Procs, StartUp(p)
      PROVE  NoneFinalises /\ Kept
  <2>1. ASSUME BeginRecovery(p) \/ ClaimEpoch(p) \/ CompleteRecovery(p) \/ BlockRecovery(p)
        PROVE  Kept
    BY <1>0, <2>1 DEF BeginRecovery, ClaimEpoch, CompleteRecovery, BlockRecovery, TypeOK, FenceTypeOK
  <2>2. {"recover", "publish"} \subseteq Steps \ {"finalise"}
    BY DEF Steps, StartSteps
  <2>3. CASE OpenJournal(p) \/ ClaimRun(p) \/ ClaimBlocked(p) \/ PublishRecovered(p)
    BY <1>0, <2>1, <2>2, <2>3, GotoElsewhere, LeaveElsewhere
       DEF OpenJournal, ClaimRun, ClaimBlocked, PublishRecovered
  <2>4. ASSUME NEW o \in Ops, RecoverRow(p, o) \/ RecoverCollides(p, o)
        PROVE  NoneFinalises /\ Kept
    BY <1>0, <1>a, <1>b, <2>4, LeaveElsewhere DEF RecoverRow, RecoverCollides, fenceVars
  <2> QED
    BY <1>1, <2>3, <2>4 DEF StartUp
<1>2. ASSUME NEW p \in Procs, Closing(p)
      PROVE  NoneFinalises /\ Kept
  <2> SUFFICES NoneFinalises
    <3>1. UNCHANGED fenceVars
      BY <1>2 DEF Closing, PersistPosition, FindBlocker, OrdersDisabled, ReserveRow, CommitIntent,
                  IssuePermit, JournalRefuses, BeginSubmit, CheckAuthority, ClaimPermit, ClaimRefused,
                  Recheck, Send, RequestFails, Response, Interpret, Verify, Persist, PersistFails,
                  otherProcess, fenceVars
    <3> QED
      BY <1>a, <3>1
  <2>2. CloseSteps \cup {"delete"} \subseteq Steps \ {"finalise"}
    BY DEF Steps, CloseSteps, DeleteSteps
  <2>3. ASSUME NEW step \in CloseSteps \cup {"delete"}, Then(p, step)
        PROVE  NoneFinalises
    BY <1>0, <2>2, <2>3, GotoElsewhere DEF Then
  <2>4. ASSUME NEW st, Decide(p, st)
        PROVE  NoneFinalises
    BY <2>3, <2>4 DEF Decide, CloseSteps
  <2>5. ASSUME NEW o \in Ops \cup {NoOp}, NEW at \in {"delete", "commit_intent"},
               thread' = [thread EXCEPT ![p]["cycle"] = [Idle EXCEPT !.at = at, !.op = o]]
        PROVE  NoneFinalises
    <3> DEFINE r == [Idle EXCEPT !.at = at, !.op = o]
    <3>1. r \in ThreadRecord /\ r.at = at
      BY DEF Idle, ThreadRecord, Steps, CloseSteps, DeleteSteps
    <3>2. thread' = [thread EXCEPT ![p]["cycle"] = r]
      BY <2>5
    <3> HIDE DEF r
    <3>3. Moved(p, "cycle", r)
      BY <1>0, <3>1, <3>2, PutMoves
    <3> QED
      BY <1>0, <3>1, <3>3, MovedElsewhere
  <2>6. CASE PersistPosition(p) \/ OrdersDisabled(p) \/ CommitIntent(p) \/ IssuePermit(p)
             \/ JournalRefuses(p) \/ ClaimPermit(p) \/ Send(p)
    BY <1>0, <2>3, <2>6, LeaveElsewhere
       DEF PersistPosition, OrdersDisabled, CommitIntent, IssuePermit, JournalRefuses, ClaimPermit,
           Send, CloseSteps
  <2>7. CASE BeginSubmit(p) \/ CheckAuthority(p) \/ ClaimRefused(p) \/ Recheck(p)
             \/ RequestFails(p) \/ Response(p)
    BY <2>3, <2>4, <2>7
       DEF BeginSubmit, CheckAuthority, ClaimRefused, Recheck, RequestFails, Response, CloseSteps
  <2>8. CASE Interpret(p) \/ Verify(p)
    BY <2>3, <2>4, <2>8 DEF Interpret, Verify, CloseSteps
  <2>9. CASE Persist(p) \/ PersistFails(p)
    <3>1. AfterMark(p)
      BY <2>9 DEF Persist, PersistFails
    <3> QED
      BY <1>0, <2>3, <3>1, LeaveElsewhere DEF AfterMark, CloseSteps
  <2>10. ASSUME NEW o \in Ops \cup {NoOp}, NEW st, Found(p, o, st)
         PROVE  NoneFinalises
    BY <1>0, <2>5, <2>10, LeaveElsewhere DEF Found
  <2>11. CASE FindBlocker(p)
    <3>1. memop[p].op \in Ops \cup {NoOp}
      BY <1>0 DEF TypeOK, CloseOperation, NoMem
    <3>2. UnresolvedOn(pos[p].trade) \subseteq Ops
      BY DEF UnresolvedOn
    <3> QED
      BY <2>3, <2>10, <2>11, <3>1, <3>2 DEF FindBlocker, CloseSteps
  <2>12. ASSUME NEW o \in Ops, ReserveRow(p, o)
         PROVE  NoneFinalises
    BY <2>5, <2>12 DEF ReserveRow
  <2> QED
    BY <1>2, <2>6, <2>7, <2>8, <2>9, <2>11, <2>12 DEF Closing
<1>3. ASSUME NEW p \in Procs, NEW th \in Threads, FinaliseRow(p, th) \/ Pop(p, th)
      PROVE  NoneFinalises /\ Kept
  <2>1. "pop" \in Steps \ {"finalise"}
    BY DEF Steps, DeleteSteps
  <2> QED
    BY <1>0, <1>3, <1>a, <2>1, GotoElsewhere, LeaveElsewhere DEF FinaliseRow, Pop, otherProcess, fenceVars
<1>4. ASSUME NEW p \in Procs,
             BrokerFlat(p) \/ UnitsDiffer(p) \/ AdjustUnits(p) \/ LoadBrokerView(p)
             \/ StartClose(p) \/ WithholdManagement(p)
      PROVE  NoneFinalises /\ Kept
  <2> SUFFICES NoneFinalises
    BY <1>4, <1>a
       DEF BrokerFlat, UnitsDiffer, AdjustUnits, LoadBrokerView, StartClose, WithholdManagement,
           otherProcess, fenceVars
  <2>2. ASSUME NEW th \in Threads, NEW at \in {"delete", "adjust", "start", "persist_position"},
               thread'[p][th].at = at,
               \A q \in Procs, h \in Threads : q # p \/ h # th => thread'[q][h] = thread[q][h]
        PROVE  NoneFinalises
    BY <2>2 DEF NoneFinalises, At
  <2>3. thread \in [Procs -> [Threads -> ThreadRecord]]
    BY <1>0 DEF TypeOK, ThreadRecord
  <2>4. CASE AdjustUnits(p)
    BY <1>0, <2>4, LeaveElsewhere DEF AdjustUnits
  <2>5. CASE BrokerFlat(p)
    BY <1>0, <2>2, <2>3, <2>5 DEF BrokerFlat, Idle
  <2>6. CASE UnitsDiffer(p)
    BY <1>0, <2>2, <2>3, <2>6 DEF UnitsDiffer, Idle
  <2>7. CASE LoadBrokerView(p)
    BY <1>0, <2>2, <2>3, <2>7 DEF LoadBrokerView
  <2>8. CASE StartClose(p)
    BY <1>0, <2>2, <2>3, <2>8 DEF StartClose
  <2>9. CASE WithholdManagement(p)
    BY <1>b, <2>9 DEF WithholdManagement
  <2> QED
    BY <1>4, <2>4, <2>5, <2>6, <2>7, <2>8, <2>9
<1>5. ASSUME NEW p \in Procs, NEW t \in Trades, NextTrade(p, t)
      PROVE  NoneFinalises /\ Kept
  BY <1>5, <1>a, <1>b DEF NextTrade, otherProcess, fenceVars
<1>6. ASSUME Broker
      PROVE  NoneFinalises /\ Kept
  BY <1>6, <1>a, <1>b DEF Broker, BrokerReduces, BrokerFills, BrokerRejects, otherProcess, fenceVars
<1>7. ASSUME NEW s \in Operators, OperatorStep(s)
      PROVE  NoneFinalises /\ Kept
  BY <1>7, <1>a, <1>b DEF OperatorStep, OperatorOpens, RecoverRow, OperatorReads, OperatorWrites,
                          OperatorQuits, fenceVars
<1>8. ASSUME UNCHANGED vars
      PROVE  NoneFinalises /\ Kept
  BY <1>8, <1>a, <1>b DEF vars, fenceVars
<1> HIDE DEF Kept
<1>9. ASSUME NEW p \in Procs, NEW th \in Threads, Deleting(p, th)
      PROVE  (NoneFinalises /\ Kept) \/ CheckDelete(p, th)
  BY <1>3, <1>9 DEF Deleting
<1>10. ASSUME NEW p \in Procs,
              \/ Reconciling(p) \/ LoadBrokerView(p) \/ StartClose(p) \/ WithholdManagement(p)
       PROVE  NoneFinalises /\ Kept
  BY <1>4, <1>10 DEF Reconciling
<1>11. \/ NoneFinalises /\ Kept
       \/ \E p \in Procs, th \in Threads : CheckDelete(p, th)
       \/ \E p \in Procs : Exit(p)
  BY <1>1, <1>2, <1>5, <1>6, <1>7, <1>8, <1>9, <1>10 DEF Next
<1> QED
  BY <1>11 DEF Kept

(* A thread at the finalise step stays one of a completed recovery.         *)
LEMMA StepChargeInv == LiveInv /\ ChargeInv /\ [Next]_vars => ChargeInv'
<1> SUFFICES ASSUME LiveInv, ChargeInv, [Next]_vars
             PROVE  ChargeInv'
  OBVIOUS
<1>1. ASSUME NoneFinalises,
             \A q \in Procs : rec[q] = "COMPLETED" => rec'[q] = "COMPLETED" /\ ep'[q] = ep[q]
      PROVE  ChargeInv'
  BY <1>1 DEF ChargeInv, NoneFinalises
<1>2. ASSUME NEW p \in Procs, NEW th \in Threads, CheckDelete(p, th)
      PROVE  ChargeInv'
  <2>1. UNCHANGED <<rec, ep>>
    BY <1>2 DEF CheckDelete, otherProcess
  <2>2. CASE MayDelete(p, Op(p, th))
    <3>1. rec[p] = "COMPLETED" /\ ep[p] # NoEpoch
      BY <2>2 DEF MayDelete, LiveManagementPermitted
    <3>2. PICK r \in ThreadRecord : Moved(p, th, r)
      BY <1>2, <2>2, GotoMoves DEF CheckDelete, LiveInv, Steps, DeleteSteps
    <3>3. \A q \in Procs \ {p} : thread'[q] = thread[q]
      BY <3>2 DEF Moved
    <3> QED
      BY <2>1, <3>1, <3>3 DEF ChargeInv, At
  <2>3. CASE ~MayDelete(p, Op(p, th))
    <3>1. NoneFinalises
      BY <1>2, <2>3, LeaveElsewhere DEF CheckDelete, LiveInv
    <3> QED
      BY <2>1, <3>1 DEF ChargeInv, NoneFinalises
  <2> QED
    BY <2>2, <2>3
<1>3. ASSUME NEW p \in Procs, Exit(p)
      PROVE  ChargeInv'
  <2>1. thread' = [thread EXCEPT ![p] = Stopped] /\ ExitProcess(p)
    BY <1>3 DEF Exit
  <2>2. \A th \in Threads : Stopped[th].at # "finalise"
    BY DEF Stopped, Threads, Idle
  <2>3. \A q \in Procs \ {p} : thread'[q] = thread[q] /\ rec'[q] = rec[q] /\ ep'[q] = ep[q]
    BY <2>1 DEF ExitProcess, LiveInv, TypeOK, FenceTypeOK
  <2>4. thread'[p] = Stopped
    BY <2>1 DEF LiveInv, TypeOK
  <2> QED
    BY <2>2, <2>3, <2>4 DEF ChargeInv, At
<1> QED
  BY <1>1, <1>2, <1>3, StepFinalises

(* A deletion is recorded by the process in charge, although its checks are *)
(* a transaction earlier and another process may have taken over since      *)
(* (finalise).                                                              *)
THEOREM LiveFinalisedInCharge == Spec => FinalisedInCharge
<1>1. Init => ChargeInv
  BY DEF Init, ChargeInv, At, Stopped, Threads, Idle
<1>2. Spec => []ChargeInv
  BY <1>1, StepChargeInv, LiveInvariant, PTL DEF Spec
<1>3. LiveInv /\ ChargeInv /\ [Next]_vars
        => [\A o \in Ops : rows[o].st # "FINALISED" /\ rows'[o].st = "FINALISED"
               => \E p \in Procs, th \in Threads :
                     LiveManagementPermitted(p) /\ At(p, th, "finalise") /\ Op(p, th) = o]_vars
  <2> SUFFICES ASSUME LiveInv, ChargeInv, [Next]_vars, NEW o \in Ops,
                      rows[o].st # "FINALISED", rows'[o].st = "FINALISED"
               PROVE  \E p \in Procs, th \in Threads :
                         LiveManagementPermitted(p) /\ At(p, th, "finalise") /\ Op(p, th) = o
    OBVIOUS
  <2>1. rows \in [Ops -> Row \cup {NoRow}] /\ RowsMove
    BY StepMovesRows DEF LiveInv, JournalInv, JournalTypeOK
  <2>2. ~\E q \in Ops, t \in Trades, g \in Nat, u \in Nat : Reserve(q, t, g, u)
    BY <2>1 DEF Reserve, PreparedRow
  <2>3. ~\E q \in Ops, s \in Sessions : CommitSubmissionIntent(s, q)
    <3> SUFFICES ASSUME NEW q \in Ops, NEW s \in Sessions, CommitSubmissionIntent(s, q)
                 PROVE  FALSE
      OBVIOUS
    <3>1. rows'[o] = rows[o] \/ (o = q /\ rows'[o].st = "SUBMITTING")
      BY <2>1, RowFacts DEF CommitSubmissionIntent, LiveInv, JournalInv, Row, NoRow
    <3> QED
      BY <3>1
  <2>4. ~\E q \in Ops, s \in Sessions : ClaimNetworkPermit(s, q)
    <3> SUFFICES ASSUME NEW q \in Ops, NEW s \in Sessions, ClaimNetworkPermit(s, q)
                 PROVE  FALSE
      OBVIOUS
    <3>1. rows'[o].st = rows[o].st
      BY <2>1, RowFacts DEF ClaimNetworkPermit, MayClaim, SubmissionAuthorized, LiveInv, JournalInv,
                            Row, NoRow
    <3> QED
      BY <3>1
  <2>5. ASSUME NEW q \in Ops, NEW st \in ConfirmationStates \ {"FINALISED"},
               NEW tx \in Transactions \cup {NoOp}, Mark(q, st, tx)
        PROVE  FALSE
    <3>1. rows[q] \in Row
      BY <2>5, RowFacts DEF Mark, LiveInv, JournalInv
    <3>2. rows'[o] = rows[o] \/ (o = q /\ rows'[o].st = st)
      BY <2>1, <2>5, <3>1 DEF Mark, Row
    <3> QED
      BY <3>2
  <2>6. PICK q \in Ops, p \in Procs, th \in Threads :
           Finalise(q) /\ EpochExpected(p) /\ At(p, th, "finalise") /\ Op(p, th) = q
    BY <2>1, <2>2, <2>3, <2>4, <2>5 DEF RowsMove
  <2>7. q = o
    BY <2>1, <2>6 DEF Finalise, MayFinalise
  <2>8. LiveManagementPermitted(p)
    BY <2>6 DEF ChargeInv, EpochExpected, LiveManagementPermitted
  <2> QED
    BY <2>6, <2>7, <2>8
<1> QED
  BY <1>2, <1>3, LiveInvariant, PTL DEF Spec, FinalisedInCharge


-----------------------------------------------------------------------------
\* When a confirmation comes from the operation's own fill, what a row, a
\* recovery, a close attempt or an operator calls confirmed was executed.

\* An operator applies the fill of the operation itself, or an observation.
OwnFill(s) == verdict'[s] = verdict[s] \/ verdict'[s].tx \in {NoOp, verdict'[s].op}
OwnFills == \A s \in Operators : OwnFill(s)

\* The close attempt of p is about to confirm its operation, or may be.
Confirming(p) ==
    \/ Cycle(p, "verify")
    \/ Cycle(p, "mark") /\ memop[p].st = "FULLY_CONFIRMED"

ConfirmedStates == {"FULLY_CONFIRMED", "FINALISED"}

FilledInv ==
    /\ \A o \in Ops : rows[o].st \in ConfirmedStates => wire[o] = "filled"
    /\ \A s \in Sessions, o \in Ops :
          scan[s][o] # NoRow /\ scan[s][o].st = "FULLY_CONFIRMED" => wire[o] = "filled"
    /\ \A p \in Procs : Confirming(p) => wire[Current(p)] = "filled"
    /\ \A s \in Operators :
          verdict[s].st = "FULLY_CONFIRMED" => wire[verdict[s].op] = "filled"
    /\ \A o \in Ops, t \in Trades : fill[o][t] > 0 => wire[o] = "filled"

(* The reconciler's readings and its adjustment leave the cycle's thread.   *)
LEMMA ReconcilerLeavesCycle ==
    ASSUME thread \in [Procs -> [Threads -> ThreadRecord]], NEW p \in Procs, NEW q \in Procs,
           BrokerFlat(p) \/ UnitsDiffer(p) \/ AdjustUnits(p)
    PROVE  thread'[q]["cycle"] = thread[q]["cycle"]
<1>1. PICK r : thread' = [thread EXCEPT ![p]["reconciler"] = r]
  <2>1. CASE BrokerFlat(p)
    BY <2>1 DEF BrokerFlat
  <2>2. CASE UnitsDiffer(p)
    BY <2>2 DEF UnitsDiffer
  <2>3. CASE AdjustUnits(p)
    BY <2>3 DEF AdjustUnits, Leave
  <2> QED
    BY <2>1, <2>2, <2>3
<1>2. "cycle" \in Threads
  BY DEF Threads
<1> QED
  BY <1>1, <1>2

\* No close attempt comes to confirm anything.
NoneConfirms ==
    \A p \in Procs : Confirming(p)' => Confirming(p) /\ Current(p)' = Current(p)

(* An executed request stays executed.                                      *)
LEMMA FilledStays ==
    ASSUME LiveInv, [Next]_vars, NEW o \in Ops, wire[o] = "filled"
    PROVE  wire'[o] = "filled"
<1>0. wire \in [Ops -> {"unsent", "sent", "rejected", "filled"}]
  BY DEF LiveInv, TypeOK
<1>1. ASSUME NEW p \in Procs, Closing(p)
      PROVE  wire'[o] = "filled"
  <2>1. CASE Send(p)
    <3>1. CallInv(p) /\ thread[p]["cycle"].at = "send"
      BY <2>1 DEF LiveInv, ProcInv, Send, Cycle, At
    <3>2. wire[Current(p)] = "unsent"
      BY <3>1 DEF CallInv, UnsentSteps
    <3> QED
      BY <1>0, <2>1, <3>2 DEF Send
  <2>2. CASE ~Send(p)
    BY <1>1, <2>2
       DEF Closing, PersistPosition, FindBlocker, OrdersDisabled, ReserveRow, CommitIntent,
           IssuePermit, JournalRefuses, BeginSubmit, CheckAuthority, ClaimPermit, ClaimRefused,
           Recheck, RequestFails, Response, Interpret, Verify, Persist, PersistFails, broker
  <2> QED
    BY <2>1, <2>2
<1>2. ASSUME NEW p \in Procs,
             \/ StartUp(p) \/ LoadBrokerView(p) \/ StartClose(p) \/ WithholdManagement(p)
             \/ Reconciling(p) \/ Exit(p)
             \/ \E t \in Trades : NextTrade(p, t)
             \/ \E th \in Threads : Deleting(p, th)
      PROVE  wire'[o] = "filled"
  BY <1>2 DEF StartUp, OpenJournal, RecoverRow, RecoverCollides, ClaimRun, ClaimBlocked,
              PublishRecovered, LoadBrokerView, StartClose, WithholdManagement, Reconciling,
              BrokerFlat, UnitsDiffer,
              AdjustUnits, Exit, NextTrade, Deleting, CheckDelete, FinaliseRow, Pop, broker
<1>3. CASE Broker
  BY <1>0, <1>3 DEF Broker, BrokerReduces, BrokerFills, BrokerRejects
<1>4. ASSUME NEW s \in Operators, OperatorStep(s)
      PROVE  wire'[o] = "filled"
  BY <1>4 DEF OperatorStep, OperatorOpens, RecoverRow, OperatorReads, OperatorWrites, OperatorQuits,
              broker
<1>5. CASE UNCHANGED vars
  BY <1>5 DEF vars
<1> QED
  BY <1>1, <1>2, <1>3, <1>4, <1>5 DEF Next

(* A recovery keeps what it has read, forgets it, or reads the rows afresh. *)
LEMMA StepScans ==
    ASSUME LiveInv, [Next]_vars, NEW s \in Sessions, NEW o \in Ops
    PROVE  scan'[s][o] \in {NoRow, scan[s][o], rows[o]}
<1>0. scan \in [Sessions -> [Ops -> Row \cup {NoRow}]] /\ Procs \cup Operators = Sessions
  BY SessionAssumption DEF LiveInv, TypeOK
<1>1. ASSUME NEW q \in Sessions, scan' = [scan EXCEPT ![q] = RecoverScan]
      PROVE  scan'[s][o] \in {NoRow, scan[s][o], rows[o]}
  BY <1>0, <1>1 DEF RecoverScan
<1>2. ASSUME NEW q \in Sessions, scan' = [scan EXCEPT ![q] = NothingRead]
      PROVE  scan'[s][o] \in {NoRow, scan[s][o], rows[o]}
  BY <1>0, <1>2 DEF NothingRead
<1>3. ASSUME NEW q \in Sessions, NEW r \in Ops, RecoverRow(q, r)
      PROVE  scan'[s][o] \in {NoRow, scan[s][o], rows[o]}
  BY <1>0, <1>3 DEF RecoverRow
<1>4. ASSUME NEW p \in Procs, StartUp(p) \/ Exit(p)
      PROVE  scan'[s][o] \in {NoRow, scan[s][o], rows[o]}
  BY <1>0, <1>1, <1>2, <1>3, <1>4
     DEF StartUp, OpenJournal, RecoverCollides, ClaimRun, ClaimBlocked, PublishRecovered, Exit
<1>5. ASSUME NEW q \in Operators, OperatorStep(q)
      PROVE  scan'[s][o] \in {NoRow, scan[s][o], rows[o]}
  BY <1>0, <1>1, <1>2, <1>3, <1>5
     DEF OperatorStep, OperatorOpens, OperatorReads, OperatorWrites, OperatorQuits
<1>6. ASSUME NEW p \in Procs, Closing(p)
      PROVE  scan'[s][o] \in {NoRow, scan[s][o], rows[o]}
  BY <1>6 DEF Closing, PersistPosition, FindBlocker, OrdersDisabled, ReserveRow, CommitIntent,
              IssuePermit, JournalRefuses, BeginSubmit, CheckAuthority, ClaimPermit, ClaimRefused,
              Recheck, Send, RequestFails, Response, Interpret, Verify, Persist, PersistFails,
              otherProcess
<1>7. ASSUME NEW p \in Procs,
             \/ LoadBrokerView(p) \/ StartClose(p) \/ WithholdManagement(p) \/ Reconciling(p)
             \/ \E t \in Trades : NextTrade(p, t)
             \/ \E th \in Threads : Deleting(p, th)
      PROVE  scan'[s][o] \in {NoRow, scan[s][o], rows[o]}
  BY <1>7 DEF LoadBrokerView, StartClose, WithholdManagement, Reconciling, BrokerFlat,
              UnitsDiffer, AdjustUnits, NextTrade,
              Deleting, CheckDelete, FinaliseRow, Pop, otherProcess
<1>8. CASE Broker
  BY <1>8 DEF Broker, BrokerReduces, BrokerFills, BrokerRejects, otherProcess
<1>9. CASE UNCHANGED vars
  BY <1>9 DEF vars
<1> QED
  BY <1>4, <1>5, <1>6, <1>7, <1>8, <1>9 DEF Next


(* A thread that goes to a step which neither verifies nor marks confirms   *)
(* nothing, while the operations of the other processes stay what they are. *)
LEMMA MovedUnconfirming ==
    ASSUME NEW p \in Procs, NEW r, Moved(p, "cycle", r), r.at \notin {"verify", "mark"},
           \A q \in Procs \ {p} : memop'[q] = memop[q]
    PROVE  NoneConfirms
<1> SUFFICES ASSUME NEW q \in Procs, Confirming(q)'
             PROVE  Confirming(q) /\ Current(q)' = Current(q)
  BY DEF NoneConfirms
<1>1. q # p
  BY DEF Moved, Confirming, Cycle, At
<1>2. thread'[q] = thread[q] /\ memop'[q] = memop[q]
  BY <1>1 DEF Moved
<1> QED
  BY <1>2 DEF Confirming, Cycle, At, Current, Op

(* Nor does a move of the reconciler.                                       *)
LEMMA ReconcilerUnconfirming ==
    ASSUME NEW p \in Procs, NEW r, Moved(p, "reconciler", r), UNCHANGED memop
    PROVE  NoneConfirms
<1> SUFFICES ASSUME NEW q \in Procs, Confirming(q)'
             PROVE  Confirming(q) /\ Current(q)' = Current(q)
  BY DEF NoneConfirms
<1>1. "cycle" \in Threads \ {"reconciler"}
  BY DEF Threads
<1>2. thread'[q]["cycle"] = thread[q]["cycle"] /\ memop'[q] = memop[q]
  BY <1>1 DEF Moved
<1> QED
  BY <1>2 DEF Confirming, Cycle, At, Current, Op

(* A decision that is not a full confirmation.                              *)
LEMMA DecideUnconfirming ==
    ASSUME TypeOK, NEW p \in Procs, NEW st \in ConfirmationStates \ {"FULLY_CONFIRMED"},
           memop' = [memop EXCEPT ![p].st = st] \/ 
               memop' = [memop EXCEPT ![p].tx = Current(p), ![p].st = st],
           Then(p, "mark")
    PROVE  NoneConfirms
<1> SUFFICES ASSUME NEW q \in Procs, Confirming(q)'
             PROVE  Confirming(q) /\ Current(q)' = Current(q)
  BY DEF NoneConfirms
<1>1. PICK r \in ThreadRecord : Moved(p, "cycle", r) /\ r.at = "mark"
  BY GotoMoves DEF Then, Threads, Steps, CloseSteps
<1>2. memop'[p].st = st /\ \A h \in Procs \ {p} : memop'[h] = memop[h]
  <2>1. memop \in [Procs -> CloseOperation \cup {NoMem}]
    BY DEF TypeOK
  <2>2. memop[p] = [op |-> memop[p].op, st |-> memop[p].st, tx |-> memop[p].tx]
    BY <2>1 DEF CloseOperation, NoMem
  <2>3. CASE memop' = [memop EXCEPT ![p].st = st]
    BY <2>1, <2>2, <2>3
  <2>4. CASE memop' = [memop EXCEPT ![p].tx = Current(p), ![p].st = st]
    BY <2>1, <2>2, <2>4
  <2> QED
    BY <2>3, <2>4
<1>3. q # p
  BY <1>1, <1>2 DEF Moved, Confirming, Cycle, At
<1>4. thread'[q] = thread[q] /\ memop'[q] = memop[q]
  BY <1>1, <1>2, <1>3 DEF Moved
<1> QED
  BY <1>4 DEF Confirming, Cycle, At, Current, Op

(* What an attempt confirms, it has seen executed: it verifies an answer    *)
(* that says filled.                                                        *)
LEMMA StepConfirms ==
    ASSUME LiveInv, FilledInv, [Next]_vars, NEW q \in Procs, Confirming(q)'
    PROVE  Current(q)' = Current(q) /\ wire[Current(q)] = "filled"
<1> DEFINE Goal == Current(q)' = Current(q) /\ wire[Current(q)] = "filled"
<1>0. TypeOK /\ "cycle" \in Threads /\ "reconciler" \in Threads
  BY DEF LiveInv, Threads
<1>a. ASSUME NoneConfirms
      PROVE  Goal
  BY <1>a DEF NoneConfirms, FilledInv
<1>b. ASSUME UNCHANGED <<thread, memop>>
      PROVE  Goal
  BY <1>a, <1>b DEF NoneConfirms, Confirming, Cycle, At, Current, Op
<1>c. memop \in [Procs -> CloseOperation \cup {NoMem}]
  BY <1>0 DEF TypeOK
<1> HIDE DEF Goal
<1>1. ASSUME NEW p \in Procs, Closing(p)
      PROVE  Goal
  <2>1. ASSUME NEW step \in CloseSteps \cup {"delete"}, step \notin {"verify", "mark"},
               Then(p, step), \A h \in Procs \ {p} : memop'[h] = memop[h]
        PROVE  Goal
    <3>1. PICK r \in ThreadRecord : Moved(p, "cycle", r) /\ r.at = step
      BY <1>0, <2>1, GotoMoves DEF Then, Steps, DeleteSteps
    <3> QED
      BY <1>a, <2>1, <3>1, MovedUnconfirming
  <2>2. ASSUME Leave(p, "cycle"), \A h \in Procs \ {p} : memop'[h] = memop[h]
        PROVE  Goal
    <3>1. Moved(p, "cycle", Idle) /\ Idle.at \notin {"verify", "mark"}
      BY <1>0, <2>2, LeaveMoves DEF Idle
    <3> QED
      BY <1>a, <2>2, <3>1, MovedUnconfirming
  <2>3. ASSUME NEW st \in ConfirmationStates \ {"FULLY_CONFIRMED"}, Decide(p, st)
        PROVE  Goal
    BY <1>0, <1>a, <2>3, DecideUnconfirming DEF Decide
  <2>4. ASSUME NEW o \in Ops \cup {NoOp}, NEW at \in {"delete", "commit_intent"},
               thread' = [thread EXCEPT ![p]["cycle"] = [Idle EXCEPT !.at = at, !.op = o]],
               UNCHANGED memop
        PROVE  Goal
    <3> DEFINE r == [Idle EXCEPT !.at = at, !.op = o]
    <3>1. r \in ThreadRecord /\ r.at = at
      BY DEF Idle, ThreadRecord, Steps, CloseSteps, DeleteSteps
    <3>2. thread' = [thread EXCEPT ![p]["cycle"] = r]
      BY <2>4
    <3> HIDE DEF r
    <3>3. Moved(p, "cycle", r)
      BY <1>0, <3>1, <3>2, PutMoves
    <3> QED
      BY <1>a, <2>4, <3>1, <3>3, MovedUnconfirming
  <2>5. {"REJECTED_CONFIRMED", "OUTCOME_AMBIGUOUS", "RECONCILIATION_REQUIRED", "RESPONSE_RECEIVED",
         "CONFIRMATION_PENDING"} \subseteq ConfirmationStates \ {"FULLY_CONFIRMED"}
    BY DEF ConfirmationStates, Unsettled, Resolved
  <2>6. CASE PersistPosition(p) \/ OrdersDisabled(p) \/ CommitIntent(p) \/ IssuePermit(p)
             \/ JournalRefuses(p) \/ ClaimPermit(p) \/ Send(p)
    BY <1>c, <2>1, <2>2, <2>6
       DEF PersistPosition, OrdersDisabled, CommitIntent, IssuePermit, JournalRefuses, ClaimPermit,
           Send, CloseSteps
  <2>7. CASE BeginSubmit(p) \/ CheckAuthority(p) \/ ClaimRefused(p) \/ Recheck(p)
             \/ RequestFails(p) \/ Response(p)
    BY <1>c, <2>1, <2>3, <2>5, <2>7
       DEF BeginSubmit, CheckAuthority, ClaimRefused, Recheck, RequestFails, Response, CloseSteps,
           OutcomeOfException
  <2>8. CASE Interpret(p)
    <3>1. CASE /\ wire[Current(p)] = "filled"
               /\ memop' = [memop EXCEPT ![p].tx = Current(p)]
               /\ Then(p, "verify")
      <4>1. PICK r \in ThreadRecord : Moved(p, "cycle", r) /\ r.op = Current(p)
        BY <1>0, <3>1, GotoMoves DEF Then, Steps, CloseSteps, Current
      <4>2. CASE q = p
        BY <3>1, <4>1, <4>2 DEF Moved, Goal, Current, Op
      <4>3. CASE q # p
        <5>1. thread'[q] = thread[q] /\ memop'[q] = memop[q]
          BY <1>c, <3>1, <4>1, <4>3 DEF Moved
        <5> QED
          BY <5>1 DEF FilledInv, Goal, Confirming, Cycle, At, Current, Op
      <4> QED
        BY <4>2, <4>3
    <3>2. CASE /\ memop' = [memop EXCEPT ![p].tx = Current(p), ![p].st = "RECONCILIATION_REQUIRED"]
               /\ Then(p, "mark")
      BY <1>0, <1>a, <2>5, <3>2, DecideUnconfirming
    <3>3. ASSUME NEW st \in {"OUTCOME_AMBIGUOUS", "RECONCILIATION_REQUIRED", "REJECTED_CONFIRMED"},
                 Decide(p, st)
          PROVE  Goal
      BY <2>3, <2>5, <3>3
    <3> QED
      BY <2>8, <3>1, <3>2, <3>3 DEF Interpret
  <2>9. CASE Verify(p)
    <3>1. wire[Current(p)] = "filled"
      BY <2>9 DEF Verify, FilledInv, Confirming
    <3>2. PICK st : Decide(p, st)
      BY <2>9 DEF Verify
    <3>3. PICK r \in ThreadRecord : Moved(p, "cycle", r) /\ r.op = Current(p)
      BY <1>0, <3>2, GotoMoves DEF Decide, Then, Steps, CloseSteps, Current
    <3>4. CASE q = p
      BY <3>1, <3>3, <3>4 DEF Moved, Goal, Current, Op
    <3>5. CASE q # p
      <4>1. thread'[q] = thread[q] /\ memop'[q] = memop[q]
        BY <1>c, <3>2, <3>3, <3>5 DEF Moved, Decide
      <4> QED
        BY <4>1 DEF FilledInv, Goal, Confirming, Cycle, At, Current, Op
    <3> QED
      BY <3>4, <3>5
  <2>10. CASE Persist(p) \/ PersistFails(p)
    <3>1. AfterMark(p)
      BY <2>10 DEF Persist, PersistFails
    <3> QED
      BY <1>c, <2>1, <2>2, <3>1 DEF AfterMark, CloseSteps
  <2>11. CASE FindBlocker(p)
    <3>1. ASSUME NEW o \in Ops \cup {NoOp}, NEW st, Found(p, o, st), UNCHANGED memop
          PROVE  Goal
      BY <2>2, <2>4, <3>1 DEF Found
    <3>2. memop[p].op \in Ops \cup {NoOp}
      BY <1>c DEF CloseOperation, NoMem
    <3>3. UnresolvedOn(pos[p].trade) \subseteq Ops
      BY DEF UnresolvedOn
    <3> QED
      BY <1>c, <2>1, <2>11, <3>1, <3>2, <3>3 DEF FindBlocker, CloseSteps
  <2>12. ASSUME NEW o \in Ops, ReserveRow(p, o)
         PROVE  Goal
    BY <2>4, <2>12 DEF ReserveRow
  <2> QED
    BY <1>1, <2>6, <2>7, <2>8, <2>9, <2>10, <2>11, <2>12 DEF Closing
<1>2. ASSUME NEW p \in Procs, NEW th \in Threads, NEW r, r.at \notin {"verify", "mark"},
             Moved(p, th, r), UNCHANGED memop
      PROVE  Goal
  <2>1. th = "cycle" \/ th = "reconciler"
    BY DEF Threads
  <2> QED
    BY <1>2, <1>a, <2>1, MovedUnconfirming, ReconcilerUnconfirming
<1>3. ASSUME NEW p \in Procs, NEW th \in Threads, Leave(p, th), UNCHANGED memop
      PROVE  Goal
  BY <1>0, <1>2, <1>3, LeaveMoves DEF Idle
<1>4. ASSUME NEW p \in Procs, NEW th \in Threads, NEW step \in Steps \ {"verify", "mark"},
             Goto(p, th, step), UNCHANGED memop
      PROVE  Goal
  BY <1>0, <1>2, <1>4, GotoMoves
<1>5. {"recover", "publish", "finalise", "pop"} \subseteq Steps \ {"verify", "mark"}
  BY DEF Steps, StartSteps, DeleteSteps
<1>6. ASSUME NEW p \in Procs, StartUp(p)
      PROVE  Goal
  BY <1>0, <1>3, <1>4, <1>5, <1>6, <1>b
     DEF StartUp, OpenJournal, RecoverRow, RecoverCollides, ClaimRun, ClaimBlocked, PublishRecovered
<1>7. ASSUME NEW p \in Procs, NEW th \in Threads, Deleting(p, th)
      PROVE  Goal
  BY <1>3, <1>4, <1>5, <1>7 DEF Deleting, CheckDelete, FinaliseRow, Pop
<1>8. ASSUME NEW p \in Procs,
             \/ Reconciling(p) \/ LoadBrokerView(p) \/ StartClose(p) \/ WithholdManagement(p)
      PROVE  Goal
  <2>1. thread \in [Procs -> [Threads -> ThreadRecord]]
    BY <1>0 DEF TypeOK, ThreadRecord
  <2>2. ASSUME NEW h \in Procs, Confirming(h)'
        PROVE  Confirming(h) /\ Current(h)' = Current(h)
    <3>1. UNCHANGED memop
      BY <1>8 DEF Reconciling, BrokerFlat, UnitsDiffer, AdjustUnits, LoadBrokerView, StartClose,
                  WithholdManagement
    <3>2. CASE BrokerFlat(p) \/ UnitsDiffer(p) \/ AdjustUnits(p)
      <4>1. thread'[h]["cycle"] = thread[h]["cycle"]
        BY <2>1, <3>2, ReconcilerLeavesCycle
      <4> QED
        BY <2>2, <3>1, <4>1 DEF Confirming, Cycle, At, Current, Op
    <3>3. CASE LoadBrokerView(p) \/ StartClose(p)
      <4>1. thread'[p]["cycle"].at \in {"start", "persist_position"}
        BY <1>0, <2>1, <3>3 DEF LoadBrokerView, StartClose
      <4>2. h # p => thread'[h] = thread[h]
        BY <2>1, <3>3 DEF LoadBrokerView, StartClose
      <4> QED
        BY <2>2, <3>1, <4>1, <4>2 DEF Confirming, Cycle, At, Current, Op
    <3>4. CASE WithholdManagement(p)
      BY <2>2, <3>1, <3>4 DEF WithholdManagement, Confirming, Cycle, At, Current, Op
    <3> QED
      BY <1>8, <3>2, <3>3, <3>4 DEF Reconciling
  <2> QED
    BY <1>a, <2>2 DEF NoneConfirms
<1>9. ASSUME NEW p \in Procs, NEW t \in Trades, NextTrade(p, t)
      PROVE  Goal
  BY <1>9, <1>b DEF NextTrade
<1>10. ASSUME NEW p \in Procs, Exit(p)
       PROVE  Goal
  <2>1. thread \in [Procs -> [Threads -> ThreadRecord]]
    BY <1>0 DEF TypeOK, ThreadRecord
  <2>2. thread'[p]["cycle"].at = "down"
    BY <1>0, <1>10, <2>1 DEF Exit, Stopped, Idle
  <2>3. \A h \in Procs \ {p} : thread'[h] = thread[h] /\ memop'[h] = memop[h]
    BY <1>c, <1>10, <2>1 DEF Exit
  <2>4. NoneConfirms
    BY <2>2, <2>3 DEF NoneConfirms, Confirming, Cycle, At, Current, Op
  <2> QED
    BY <1>a, <2>4
<1>11. ASSUME Broker
       PROVE  Goal
  BY <1>11, <1>b DEF Broker, BrokerReduces, BrokerFills, BrokerRejects
<1>12. ASSUME NEW s \in Operators, OperatorStep(s)
       PROVE  Goal
  BY <1>12, <1>b DEF OperatorStep, OperatorOpens, RecoverRow, OperatorReads, OperatorWrites,
                     OperatorQuits
<1>13. ASSUME UNCHANGED vars
       PROVE  Goal
  BY <1>13, <1>b DEF vars
<1>14. Goal
  BY <1>1, <1>6, <1>7, <1>8, <1>9, <1>10, <1>11, <1>12, <1>13 DEF Next
<1> QED
  BY <1>14 DEF Goal


(* A row becomes confirmed by the mark of an attempt that has seen the fill, *)
(* of a recovery that read it confirmed, or of an operator's verdict.       *)
LEMMA RowConfirmed ==
    ASSUME LiveInv, FilledInv, [Next]_vars, NEW o \in Ops,
           rows'[o].st \in ConfirmedStates
    PROVE  wire[o] = "filled"
<1> SUFFICES ASSUME rows[o].st \notin ConfirmedStates
             PROVE  wire[o] = "filled"
  BY DEF FilledInv
<1>0. rows \in [Ops -> Row \cup {NoRow}]
  BY DEF LiveInv, JournalInv, JournalTypeOK
<1>a. ASSUME NEW q \in Ops, NEW st, NEW tx, Mark(q, st, tx)
      PROVE  q = o /\ st \in ConfirmedStates
  <2>1. rows[q] \in Row
    BY <1>0, <1>a, RowFacts DEF Mark, LiveInv, JournalInv
  <2>2. rows'[o] = rows[o] \/ (o = q /\ rows'[o].st = st)
    BY <1>0, <1>a, <2>1 DEF Mark, Row
  <2> QED
    BY <2>2
<1>b. ~UNCHANGED rows
  OBVIOUS
<1>1. ASSUME NEW p \in Sessions, NEW q \in Ops, RecoverRow(p, q)
      PROVE  wire[o] = "filled"
  <2>1. q = o /\ RecoveredState(scan[p][o]) \in ConfirmedStates
    BY <1>1, <1>a DEF RecoverRow
  <2>2. ScanInv(p, o) /\ scan[p][o] # NoRow
    BY <1>1, <2>1 DEF LiveInv, RecoverRow
  <2>3. scan[p][o].st = "FULLY_CONFIRMED"
    BY <2>1, <2>2 DEF ScanInv, RecoverWrites, RecoveredState, CrashStates, ConfirmedStates
  <2> QED
    BY <2>2, <2>3 DEF FilledInv
<1>2. ASSUME NEW p \in Procs, StartUp(p)
      PROVE  wire[o] = "filled"
  BY <1>1, <1>2, <1>b, SessionAssumption
     DEF StartUp, OpenJournal, RecoverCollides, ClaimRun, ClaimBlocked, PublishRecovered, journal
<1>3. ASSUME NEW p \in Procs, Persist(p)
      PROVE  wire[o] = "filled"
  <2>1. Cycle(p, "mark") /\ CallInv(p)
    BY <1>3 DEF Persist, LiveInv, ProcInv
  <2>2. Current(p) \in Ops
    BY <2>1 DEF CallInv, Cycle, At, OwnSteps
  <2>3. Current(p) = o /\ memop[p].st \in ConfirmedStates
    BY <1>3, <1>a, <2>2 DEF Persist
  <2>4. memop[p].st = "FULLY_CONFIRMED"
    BY <2>1, <2>3 DEF CallInv, ConfirmedStates
  <2> QED
    BY <2>1, <2>3, <2>4 DEF FilledInv, Confirming
<1>4. ASSUME NEW p \in Procs, NEW q \in Ops, NEW t, NEW g, NEW u, Reserve(q, t, g, u)
      PROVE  FALSE
  <2>1. rows'[o] = rows[o] \/ rows'[o].st = "PREPARED"
    BY <1>0, <1>4 DEF Reserve, PreparedRow
  <2> QED
    BY <2>1 DEF ConfirmedStates
<1>5. ASSUME NEW p \in Procs, CommitIntent(p) \/ ClaimPermit(p)
      PROVE  FALSE
  <2>1. Current(p) \in Ops
    BY <1>5, AttemptFacts DEF CommitIntent, ClaimPermit, Cycle, At, OwnSteps
  <2>2. CASE CommitIntent(p)
    <3>1. rows'[o] = rows[o] \/ rows'[o].st = "SUBMITTING"
      BY <1>0, <2>1, <2>2, RowFacts
         DEF CommitIntent, CommitSubmissionIntent, LiveInv, JournalInv, Row, NoRow
    <3> QED
      BY <3>1 DEF ConfirmedStates
  <2>3. CASE ClaimPermit(p)
    <3>1. rows'[o].st = rows[o].st
      BY <1>0, <2>1, <2>3, RowFacts
         DEF ClaimPermit, ClaimNetworkPermit, MayClaim, SubmissionAuthorized, LiveInv, JournalInv,
             Row, NoRow
    <3> QED
      BY <3>1
  <2> QED
    BY <1>5, <2>2, <2>3
<1>6. ASSUME NEW p \in Procs, Closing(p)
      PROVE  wire[o] = "filled"
  BY <1>3, <1>4, <1>5, <1>6, <1>b
     DEF Closing, PersistPosition, FindBlocker, OrdersDisabled, ReserveRow, IssuePermit,
         JournalRefuses, BeginSubmit, CheckAuthority, ClaimRefused, Recheck, Send, RequestFails,
         Response, Interpret, Verify, PersistFails, journal
<1>7. ASSUME NEW p \in Procs, NEW th \in Threads, Deleting(p, th)
      PROVE  FALSE
  <2>1. rows'[o] = rows[o] \/ rows[o].st = "FULLY_CONFIRMED"
    BY <1>0, <1>7 DEF Deleting, CheckDelete, FinaliseRow, Finalise, MayFinalise, Pop, journal
  <2> QED
    BY <2>1 DEF ConfirmedStates
<1>8. ASSUME NEW p \in Procs,
             \/ Reconciling(p) \/ LoadBrokerView(p) \/ StartClose(p) \/ WithholdManagement(p) \/ Exit(p)
      PROVE  FALSE
  BY <1>8, <1>b DEF Reconciling, BrokerFlat, UnitsDiffer, AdjustUnits, LoadBrokerView, StartClose,
                    WithholdManagement, Exit,
                    journal
<1>9. ASSUME NEW p \in Procs, NEW t \in Trades, NextTrade(p, t)
      PROVE  FALSE
  BY <1>9, <1>b DEF NextTrade
<1>10. ASSUME Broker
       PROVE  FALSE
  BY <1>10, <1>b DEF Broker, BrokerReduces, BrokerFills, BrokerRejects, journal
<1>11. ASSUME UNCHANGED vars
       PROVE  FALSE
  BY <1>11, <1>b DEF vars
<1>12. ASSUME NEW s \in Operators, OperatorWrites(s)
       PROVE  wire[o] = "filled"
  <2>1. VerdictInv(s) /\ verdict[s] # NoMem
    BY <1>12 DEF OperatorWrites, LiveInv
  <2>2. verdict[s].op = o /\ verdict[s].st \in ConfirmedStates
    BY <1>12, <1>a, <2>1 DEF OperatorWrites, VerdictInv
  <2>3. verdict[s].st = "FULLY_CONFIRMED"
    BY <2>1, <2>2 DEF VerdictInv, Unsettled, ConfirmedStates
  <2> QED
    BY <2>2, <2>3 DEF FilledInv
<1>13. ASSUME NEW s \in Operators, OperatorStep(s)
       PROVE  wire[o] = "filled"
  BY <1>1, <1>12, <1>13, <1>b, SessionAssumption
     DEF OperatorStep, OperatorOpens, OperatorReads, OperatorQuits, journal
<1> QED
  BY <1>2, <1>6, <1>7, <1>8, <1>9, <1>10, <1>11, <1>13 DEF Next

(* An operator keeps a verdict, gives it up or writes it, or takes one.     *)
LEMMA StepVerdicts ==
    ASSUME LiveInv, [Next]_vars, NEW s \in Operators
    PROVE  verdict'[s] \in {verdict[s], NoMem} \/ \E o \in Ops : OperatorReads(s, o)
<1> DEFINE Goal == verdict'[s] \in {verdict[s], NoMem} \/ \E o \in Ops : OperatorReads(s, o)
<1>0. verdict \in [Operators -> CloseOperation \cup {NoMem}]
  BY DEF LiveInv, TypeOK
<1>1. ASSUME UNCHANGED verdict
      PROVE  Goal
  BY <1>1
<1>2. ASSUME NEW q \in Operators, NEW o \in Ops, OperatorReads(q, o)
      PROVE  Goal
  <2>1. CASE q = s
    BY <1>2, <2>1
  <2>2. CASE q # s
    <3>1. PICK v : verdict' = [verdict EXCEPT ![q] = v]
      BY <1>2 DEF OperatorReads
    <3> QED
      BY <1>0, <2>2, <3>1
  <2> QED
    BY <2>1, <2>2
<1>3. ASSUME NEW q \in Operators, OperatorWrites(q) \/ OperatorQuits(q)
      PROVE  Goal
  BY <1>0, <1>3 DEF OperatorWrites, OperatorQuits
<1> HIDE DEF Goal
<1>4. ASSUME NEW q \in Operators, OperatorStep(q)
      PROVE  Goal
  BY <1>1, <1>2, <1>3, <1>4 DEF OperatorStep, OperatorOpens, RecoverRow
<1>5. ASSUME NEW p \in Procs, StartUp(p) \/ Exit(p)
      PROVE  Goal
  BY <1>1, <1>5
     DEF StartUp, OpenJournal, RecoverRow, RecoverCollides, ClaimRun, ClaimBlocked, PublishRecovered,
         Exit
<1>6. ASSUME NEW p \in Procs, Closing(p)
      PROVE  Goal
  BY <1>1, <1>6
     DEF Closing, PersistPosition, FindBlocker, OrdersDisabled, ReserveRow, CommitIntent,
         IssuePermit, JournalRefuses, BeginSubmit, CheckAuthority, ClaimPermit, ClaimRefused,
         Recheck, Send, RequestFails, Response, Interpret, Verify, Persist, PersistFails,
         otherProcess
<1>7. ASSUME NEW p \in Procs,
             \/ LoadBrokerView(p) \/ StartClose(p) \/ WithholdManagement(p) \/ Reconciling(p)
             \/ \E t \in Trades : NextTrade(p, t)
             \/ \E th \in Threads : Deleting(p, th)
      PROVE  Goal
  BY <1>1, <1>7
     DEF LoadBrokerView, StartClose, WithholdManagement, Reconciling, BrokerFlat, UnitsDiffer,
         AdjustUnits, NextTrade,
         Deleting, CheckDelete, FinaliseRow, Pop, otherProcess
<1>8. ASSUME Broker
      PROVE  Goal
  BY <1>1, <1>8 DEF Broker, BrokerReduces, BrokerFills, BrokerRejects, otherProcess
<1>9. ASSUME UNCHANGED vars
      PROVE  Goal
  BY <1>1, <1>9 DEF vars
<1>10. Goal
  BY <1>4, <1>5, <1>6, <1>7, <1>8, <1>9 DEF Next
<1> QED
  BY <1>10 DEF Goal

(* A verdict that confirms an operation follows its own fill.               *)
LEMMA VerdictConfirmed ==
    ASSUME LiveInv, FilledInv, [Next]_vars, NEW s \in Operators, OwnFill(s),
           verdict'[s].st = "FULLY_CONFIRMED"
    PROVE  verdict'[s].op \in Ops /\ wire[verdict'[s].op] = "filled"
<1>0. verdict \in [Operators -> CloseOperation \cup {NoMem}] /\ VerdictInv(s)
  BY DEF LiveInv, TypeOK
<1>1. verdict'[s] # NoMem
  BY DEF NoMem
<1>2. CASE verdict'[s] = verdict[s]
  BY <1>0, <1>1, <1>2 DEF VerdictInv, FilledInv
<1>3. CASE verdict'[s] # verdict[s]
  <2>1. PICK o \in Ops : OperatorReads(s, o)
    BY <1>1, <1>3, StepVerdicts
  <2>2. CASE verdict'[s] = [op |-> o, st |-> rows[o].st, tx |-> rows[o].tx]
    BY <2>2 DEF FilledInv, ConfirmedStates
  <2>3. ASSUME NEW x \in Transactions, fill[x][rows[o].trade] > 0,
               verdict'[s] = [op |-> o, st |-> Evidence(o, x), tx |-> x]
        PROVE  o \in Ops /\ verdict'[s].op = o /\ wire[o] = "filled"
    <3>1. x # NoOp
      BY NoOpAssumption
    <3>2. x = o
      BY <1>3, <2>3, <3>1 DEF OwnFill
    <3>3. rows[o].trade \in Trades
      BY <2>1, RowFacts DEF OperatorReads, Blocking, LiveInv, JournalInv, Row, NoRow
    <3> QED
      BY <2>3, <3>2, <3>3 DEF FilledInv
  <2>4. \/ verdict'[s] = [op |-> o, st |-> rows[o].st, tx |-> rows[o].tx]
        \/ \E x \in Transactions :
              /\ fill[x][rows[o].trade] > 0
              /\ verdict'[s] = [op |-> o, st |-> Evidence(o, x), tx |-> x]
    BY <1>0, <2>1 DEF OperatorReads
  <2> QED
    BY <2>2, <2>3, <2>4
<1> QED
  BY <1>2, <1>3

(* Only an executed request has a fill of its own.                          *)
LEMMA FillExecuted ==
    ASSUME LiveInv, FilledInv, [Next]_vars, NEW o \in Ops, NEW t \in Trades, fill'[o][t] > 0
    PROVE  wire'[o] = "filled"
<1>0. /\ fill \in [Transactions -> [Trades -> 0 .. Units]]
      /\ wire \in [Ops -> {"unsent", "sent", "rejected", "filled"}]
      /\ Ops \subseteq Transactions /\ Elsewhere \notin Ops
  BY TransactionAssumption DEF LiveInv, TypeOK
<1>a. ASSUME fill'[o] = fill[o]
      PROVE  wire'[o] = "filled"
  BY <1>a, FilledStays DEF FilledInv
<1>1. ASSUME NEW q \in Ops, BrokerFills(q)
      PROVE  wire'[o] = "filled"
  <2>1. CASE q = o
    BY <1>0, <1>1, <2>1 DEF BrokerFills
  <2>2. CASE q # o
    BY <1>0, <1>1, <1>a, <2>2 DEF BrokerFills
  <2> QED
    BY <2>1, <2>2
<1>2. ASSUME Broker
      PROVE  wire'[o] = "filled"
  BY <1>0, <1>1, <1>2, <1>a DEF Broker, BrokerReduces, BrokerRejects
<1>3. ASSUME NEW p \in Procs, Closing(p)
      PROVE  wire'[o] = "filled"
  BY <1>3, <1>a
     DEF Closing, PersistPosition, FindBlocker, OrdersDisabled, ReserveRow, CommitIntent,
         IssuePermit, JournalRefuses, BeginSubmit, CheckAuthority, ClaimPermit, ClaimRefused,
         Recheck, Send, RequestFails, Response, Interpret, Verify, Persist, PersistFails, broker
<1>4. ASSUME NEW p \in Procs,
             \/ StartUp(p) \/ LoadBrokerView(p) \/ StartClose(p) \/ WithholdManagement(p)
             \/ Reconciling(p) \/ Exit(p)
             \/ \E u \in Trades : NextTrade(p, u)
             \/ \E th \in Threads : Deleting(p, th)
      PROVE  wire'[o] = "filled"
  BY <1>4, <1>a
     DEF StartUp, OpenJournal, RecoverRow, RecoverCollides, ClaimRun, ClaimBlocked,
         PublishRecovered, LoadBrokerView, StartClose, WithholdManagement, Reconciling,
         BrokerFlat, UnitsDiffer,
         AdjustUnits, Exit, NextTrade, Deleting, CheckDelete, FinaliseRow, Pop, broker
<1>5. ASSUME NEW s \in Operators, OperatorStep(s)
      PROVE  wire'[o] = "filled"
  BY <1>5, <1>a
     DEF OperatorStep, OperatorOpens, RecoverRow, OperatorReads, OperatorWrites, OperatorQuits,
         broker
<1>6. CASE UNCHANGED vars
  BY <1>6, <1>a DEF vars
<1> QED
  BY <1>2, <1>3, <1>4, <1>5, <1>6 DEF Next

(* Confirmed stays executed.                                                *)
LEMMA StepFilledInv ==
    LiveInv /\ FilledInv /\ [Next]_vars /\ [OwnFills]_vars => FilledInv'
<1> SUFFICES ASSUME LiveInv, FilledInv, [Next]_vars, [OwnFills]_vars
             PROVE  FilledInv'
  OBVIOUS
<1>1. ASSUME NEW o \in Ops, rows'[o].st \in ConfirmedStates
      PROVE  wire'[o] = "filled"
  BY <1>1, RowConfirmed, FilledStays
<1>2. ASSUME NEW s \in Sessions, NEW o \in Ops, scan'[s][o] # NoRow,
             scan'[s][o].st = "FULLY_CONFIRMED"
      PROVE  wire'[o] = "filled"
  <2>1. wire[o] = "filled"
    BY <1>2, StepScans DEF FilledInv, ConfirmedStates
  <2> QED
    BY <2>1, FilledStays
<1>3. ASSUME NEW p \in Procs, Confirming(p)'
      PROVE  wire'[Current(p)'] = "filled"
  <2>1. Current(p)' = Current(p) /\ wire[Current(p)] = "filled"
    BY <1>3, StepConfirms
  <2>2. Current(p)' \in Ops
    <3>1. LiveInv'
      BY StepLiveInv
    <3>2. CallInv(p)'
      BY <3>1 DEF LiveInv, ProcInv
    <3>3. (thread[p]["cycle"].at \in OwnSteps)'
      BY <1>3 DEF Confirming, Cycle, At, OwnSteps
    <3> QED
      BY <3>2, <3>3 DEF CallInv
  <2> QED
    BY <2>1, <2>2, FilledStays
<1>4. ASSUME NEW s \in Operators, verdict'[s].st = "FULLY_CONFIRMED"
      PROVE  wire'[verdict'[s].op] = "filled"
  <2>1. OwnFill(s)
    BY DEF OwnFills, OwnFill, vars
  <2> QED
    BY <1>4, <2>1, VerdictConfirmed, FilledStays
<1>5. ASSUME NEW o \in Ops, NEW t \in Trades, fill'[o][t] > 0
      PROVE  wire'[o] = "filled"
  BY <1>5, FillExecuted
<1> QED
  BY <1>1, <1>2, <1>3, <1>4, <1>5 DEF FilledInv

(* Two close requests for a trade are never open at the broker together,    *)
(* and none follows an executed one unless that one closed the trade, as    *)
(* long as every operator applies the operation's own fill and never that   *)
(* of a stop or of another request: whatever processes overlap, crash or    *)
(* start up (run_guarded_live_close, claim_network_permit, recover,         *)
(* resolve_from_retrieved_transaction).                                     *)
THEOREM LiveOneRequestOpenOwnFills == Spec /\ [][OwnFills]_vars => []OneRequestOpen
<1>1. Init => FilledInv
  <2> SUFFICES ASSUME Init
               PROVE  FilledInv
    OBVIOUS
  <2>1. \A o \in Ops : rows[o].st = "ABSENT"
    BY DEF Init, NoRow
  <2>2. \A s \in Sessions, o \in Ops : scan[s][o] = NoRow
    BY DEF Init, NothingRead
  <2>3. \A p \in Procs : thread[p]["cycle"].at = "down"
    BY DEF Init, Stopped, Threads, Idle
  <2>4. \A s \in Operators : verdict[s].st = "ABSENT"
    BY DEF Init, NoMem
  <2>5. \A o \in Ops, t \in Trades : fill[o][t] = 0
    BY TransactionAssumption DEF Init
  <2> QED
    BY <2>1, <2>2, <2>3, <2>4, <2>5 DEF FilledInv, ConfirmedStates, Confirming, Cycle, At
<1>2. LiveInv /\ FilledInv /\ [Next]_vars /\ [OwnFills]_vars => FilledInv'
  BY StepFilledInv
<1>3. LiveInv /\ FilledInv => OneRequestOpen
  <2> SUFFICES ASSUME LiveInv, FilledInv, NEW o \in Ops, NEW q \in Ops,
                      wire[o] = "sent", wire[q] \in {"sent", "filled"},
                      rows[o].trade = rows[q].trade
               PROVE  o = q \/ (wire[q] = "filled" /\ Closed(rows[q].trade))
    BY DEF OneRequestOpen
  <2>1. OutstandingBlocks
    BY LiveInvBlocks
  <2>2. Blocking(o)
    BY <2>1 DEF OutstandingBlocks, Settled, FilledInv, ConfirmedStates
  <2>3. CASE Blocking(q)
    BY <2>2, <2>3 DEF LiveInv, JournalInv, OneUnresolvedPerTrade
  <2>4. CASE Settled(q)
    BY <2>4 DEF Settled, FilledInv, ConfirmedStates
  <2> QED
    BY <2>1, <2>3, <2>4 DEF OutstandingBlocks
<1> QED
  BY <1>1, <1>2, <1>3, LiveInvariant, PTL DEF Spec

(* Without operator sessions that holds of every behaviour: an attempt      *)
(* confirms by its own fill only.                                           *)
THEOREM LiveOneRequestOpen ==
    ASSUME Operators = {}
    PROVE  Spec => []OneRequestOpen
<1>1. OwnFills
  BY DEF OwnFills
<1> QED
  BY <1>1, LiveOneRequestOpenOwnFills, PTL


-----------------------------------------------------------------------------
\* Without operator sessions nobody but the attempt itself resolves or confirms
\* the operation it works for, so no mark of it meets the unique index.

OwnStep(p) == thread[p]["cycle"].at \in OwnSteps

Undecided == Unsettled \ {"FULLY_CONFIRMED"}

DriveInv ==
    \A p \in Procs : OwnStep(p) =>
        /\ rows[Current(p)].st \in Undecided
        /\ \A s \in Sessions : scan[s][Current(p)].st # "FULLY_CONFIRMED"

(* An attempt that has a row keeps it; it gets one by its reservation.      *)
LEMMA StepDrives ==
    ASSUME LiveInv, [Next]_vars, NEW q \in Procs, OwnStep(q)'
    PROVE  \/ OwnStep(q) /\ Current(q)' = Current(q)
           \/ \E o \in Ops : ReserveRow(q, o)
<1> DEFINE Goal == \/ OwnStep(q) /\ Current(q)' = Current(q)
                   \/ \E o \in Ops : ReserveRow(q, o)
<1>0. TypeOK /\ "cycle" \in Threads /\ "reconciler" \in Threads
  BY DEF LiveInv, Threads
<1>a. ASSUME thread'[q]["cycle"] = thread[q]["cycle"]
      PROVE  Goal
  BY <1>a DEF OwnStep, Current, Op
<1>b. ASSUME NEW p \in Procs, NEW th \in Threads, NEW r, Moved(p, th, r), r.at \notin OwnSteps
      PROVE  Goal
  <2>1. CASE q = p /\ th = "cycle"
    BY <1>b, <2>1 DEF Moved, OwnStep
  <2>2. CASE ~(q = p /\ th = "cycle")
    <3>1. thread'[q]["cycle"] = thread[q]["cycle"]
      BY <1>0, <1>b, <2>2 DEF Moved
    <3> QED
      BY <1>a, <3>1
  <2> QED
    BY <2>1, <2>2
<1>c. ASSUME NEW p \in Procs, NEW step \in Steps, Then(p, step), OwnStep(p)
      PROVE  Goal
  <2>1. PICK r \in ThreadRecord : Moved(p, "cycle", r) /\ r.op = Current(p)
    BY <1>0, <1>c, GotoMoves DEF Then, Current
  <2>2. CASE q = p
    BY <1>c, <2>1, <2>2 DEF Moved, Current, Op
  <2>3. CASE q # p
    BY <1>a, <2>1, <2>3 DEF Moved
  <2> QED
    BY <2>2, <2>3
<1> HIDE DEF Goal
<1>d. ASSUME NEW p \in Procs, NEW th \in Threads, Leave(p, th)
      PROVE  Goal
  <2>1. Moved(p, th, Idle) /\ Idle.at \notin OwnSteps
    BY <1>0, <1>d, LeaveMoves DEF Idle, OwnSteps
  <2> QED
    BY <1>b, <2>1
<1>e. ASSUME NEW p \in Procs, NEW th \in Threads, NEW step \in Steps \ OwnSteps, Goto(p, th, step)
      PROVE  Goal
  <2>1. PICK r \in ThreadRecord : Moved(p, th, r) /\ r.at = step
    BY <1>0, <1>e, GotoMoves
  <2> QED
    BY <1>b, <2>1
<1>1. ASSUME NEW p \in Procs, Closing(p)
      PROVE  Goal
  <2>1. OwnSteps \subseteq Steps /\ {"find_blocker", "reserve", "delete"} \subseteq Steps \ OwnSteps
    BY DEF OwnSteps, Steps, CloseSteps, DeleteSteps
  <2>2. ASSUME NEW st, Decide(p, st), OwnStep(p)
        PROVE  Goal
    BY <1>c, <2>1, <2>2 DEF Decide, OwnSteps
  <2>3. CASE OrdersDisabled(p) \/ JournalRefuses(p)
    BY <1>0, <1>d, <2>3 DEF OrdersDisabled, JournalRefuses
  <2>4. CASE CommitIntent(p) \/ IssuePermit(p) \/ ClaimPermit(p) \/ Send(p)
    BY <1>c, <2>1, <2>4
       DEF CommitIntent, IssuePermit, ClaimPermit, Send, Cycle, At, OwnStep, OwnSteps
  <2>5. CASE BeginSubmit(p) \/ CheckAuthority(p) \/ ClaimRefused(p) \/ Recheck(p)
             \/ RequestFails(p) \/ Response(p)
    <3>1. OwnStep(p)
      BY <2>5 DEF BeginSubmit, CheckAuthority, ClaimRefused, Recheck, RequestFails, Response, Cycle,
                  At, OwnStep, OwnSteps, MayRaise
    <3> QED
      BY <1>c, <2>1, <2>2, <2>5, <3>1
         DEF BeginSubmit, CheckAuthority, ClaimRefused, Recheck, RequestFails, Response, OwnSteps
  <2>6. CASE Interpret(p) \/ Verify(p)
    <3>1. OwnStep(p)
      BY <2>6 DEF Interpret, Verify, Cycle, At, OwnStep, OwnSteps
    <3> QED
      BY <1>c, <2>1, <2>2, <2>6, <3>1 DEF Interpret, Verify, OwnSteps
  <2>7. CASE Persist(p) \/ PersistFails(p)
    <3>1. OwnStep(p) /\ AfterMark(p)
      BY <2>7 DEF Persist, PersistFails, Cycle, At, OwnStep, OwnSteps
    <3> QED
      BY <1>0, <1>c, <1>d, <2>1, <3>1 DEF AfterMark, OwnSteps
  <2>8. CASE PersistPosition(p)
    BY <1>0, <1>d, <1>e, <2>1, <2>8 DEF PersistPosition, Then
  <2>9. CASE FindBlocker(p)
    <3>1. ASSUME NEW o \in Ops \cup {NoOp}, NEW st, Found(p, o, st)
          PROVE  Goal
      <4> DEFINE r == [Idle EXCEPT !.at = "delete", !.op = o]
      <4>1. CASE st = "FULLY_CONFIRMED"
        <5>1. r \in ThreadRecord /\ r.at = "delete"
          BY DEF Idle, ThreadRecord, Steps, CloseSteps, DeleteSteps
        <5>2. thread' = [thread EXCEPT ![p]["cycle"] = r]
          BY <3>1, <4>1 DEF Found
        <5> HIDE DEF r
        <5>3. Moved(p, "cycle", r)
          BY <1>0, <5>1, <5>2, PutMoves
        <5> QED
          BY <1>0, <1>b, <2>1, <5>1, <5>3
      <4>2. CASE st # "FULLY_CONFIRMED"
        BY <1>0, <1>d, <3>1, <4>2 DEF Found
      <4> QED
        BY <4>1, <4>2
    <3>2. memop[p].op \in Ops \cup {NoOp}
      BY <1>0 DEF TypeOK, CloseOperation, NoMem
    <3>3. UnresolvedOn(pos[p].trade) \subseteq Ops
      BY DEF UnresolvedOn
    <3> QED
      BY <1>0, <1>e, <2>1, <2>9, <3>1, <3>2, <3>3 DEF FindBlocker, Then
  <2>10. ASSUME NEW o \in Ops, ReserveRow(p, o)
         PROVE  Goal
    <3>1. CASE q = p
      BY <2>10, <3>1 DEF Goal
    <3>2. CASE q # p
      <4>1. thread'[q]["cycle"] = thread[q]["cycle"]
        BY <1>0, <2>10, <3>2 DEF ReserveRow, TypeOK
      <4> QED
        BY <1>a, <4>1 DEF Goal
    <3> QED
      BY <3>1, <3>2
  <2> QED
    BY <1>1, <2>3, <2>4, <2>5, <2>6, <2>7, <2>8, <2>9, <2>10 DEF Closing
<1>2. {"recover", "publish", "finalise", "pop"} \subseteq Steps \ OwnSteps
  BY DEF Steps, StartSteps, DeleteSteps, OwnSteps
<1>3. ASSUME NEW p \in Procs, StartUp(p)
      PROVE  Goal
  BY <1>0, <1>a, <1>d, <1>e, <1>2, <1>3
     DEF StartUp, OpenJournal, RecoverRow, RecoverCollides, ClaimRun, ClaimBlocked, PublishRecovered
<1>4. ASSUME NEW p \in Procs, NEW th \in Threads, Deleting(p, th)
      PROVE  Goal
  BY <1>d, <1>e, <1>2, <1>4 DEF Deleting, CheckDelete, FinaliseRow, Pop
<1>5. ASSUME NEW p \in Procs,
             \/ Reconciling(p) \/ LoadBrokerView(p) \/ StartClose(p) \/ WithholdManagement(p)
      PROVE  Goal
  <2>1. thread \in [Procs -> [Threads -> ThreadRecord]]
    BY <1>0 DEF TypeOK, ThreadRecord
  <2>2. CASE BrokerFlat(p) \/ UnitsDiffer(p) \/ AdjustUnits(p)
    <3>1. thread'[q]["cycle"] = thread[q]["cycle"]
      BY <2>1, <2>2, ReconcilerLeavesCycle
    <3> QED
      BY <1>a, <3>1
  <2>3. CASE LoadBrokerView(p) \/ StartClose(p)
    <3>1. thread'[p]["cycle"].at \in {"start", "persist_position"}
      BY <1>0, <2>1, <2>3 DEF LoadBrokerView, StartClose
    <3>2. q # p => thread'[q] = thread[q]
      BY <2>1, <2>3 DEF LoadBrokerView, StartClose
    <3> QED
      BY <1>a, <3>1, <3>2 DEF OwnStep, OwnSteps
  <2>4. CASE WithholdManagement(p)
    BY <1>a, <2>4 DEF WithholdManagement
  <2> QED
    BY <1>5, <2>2, <2>3, <2>4 DEF Reconciling
<1>6. ASSUME NEW p \in Procs, NEW t \in Trades, NextTrade(p, t)
      PROVE  Goal
  BY <1>6, <1>a DEF NextTrade
<1>7. ASSUME NEW p \in Procs, Exit(p)
      PROVE  Goal
  <2>1. thread \in [Procs -> [Threads -> ThreadRecord]]
    BY <1>0 DEF TypeOK, ThreadRecord
  <2>2. thread'[p]["cycle"].at = "down"
    BY <1>0, <1>7, <2>1 DEF Exit, Stopped, Idle
  <2>3. q # p => thread'[q] = thread[q]
    BY <1>7, <2>1 DEF Exit
  <2> QED
    BY <1>a, <2>2, <2>3 DEF OwnStep, OwnSteps
<1>8. ASSUME Broker \/ (\E s \in Operators : OperatorStep(s)) \/ UNCHANGED vars
      PROVE  Goal
  BY <1>8, <1>a DEF Broker, BrokerReduces, BrokerFills, BrokerRejects, OperatorStep, OperatorOpens,
                    RecoverRow, OperatorReads, OperatorWrites, OperatorQuits, vars
<1>9. Goal
  BY <1>1, <1>3, <1>4, <1>5, <1>6, <1>7, <1>8 DEF Next
<1> QED
  BY <1>9 DEF Goal


(* A mark by which an attempt goes on leaves its operation undecided.       *)
LEMMA PersistGoesOn ==
    ASSUME LiveInv, NEW p \in Procs, Persist(p), OwnStep(p)'
    PROVE  memop[p].st \in Undecided
<1>0. TypeOK /\ "cycle" \in Threads
  BY DEF LiveInv, Threads
<1>1. CallInv(p) /\ thread[p]["cycle"].at = "mark"
  BY DEF LiveInv, ProcInv, Persist, Cycle, At
<1>2. memop[p].st \in ConfirmationStates /\ memop[p].st # "FINALISED"
  BY <1>1 DEF CallInv, Cycle, At, OwnSteps, CloseOperation
<1>3. ASSUME memop[p].st \in {"FULLY_CONFIRMED", "REJECTED_CONFIRMED"}
      PROVE  FALSE
  <2>1. Then(p, "delete") \/ Leave(p, "cycle")
    BY <1>3 DEF Persist, AfterMark
  <2>2. "delete" \in Steps \ OwnSteps /\ "idle" \notin OwnSteps
    BY DEF Steps, DeleteSteps, OwnSteps
  <2>3. thread'[p]["cycle"].at \in {"delete", "idle"}
    BY <1>0, <2>1, <2>2, GotoMoves, LeaveMoves DEF Then, Moved, Idle
  <2> QED
    BY <2>2, <2>3 DEF OwnStep
<1> QED
  BY <1>2, <1>3 DEF Undecided, ConfirmationStates, Resolved

(* What the operation of an attempt becomes while the attempt goes on: its  *)
(* own marks and those of a recovery leave it undecided.                    *)
LEMMA RowDriven ==
    ASSUME LiveInv, DriveInv, Operators = {}, [Next]_vars, NEW q \in Procs,
           OwnStep(q), OwnStep(q)', Current(q)' = Current(q)
    PROVE  rows'[Current(q)].st \in Undecided
<1> DEFINE o == Current(q)
<1>0. /\ rows \in [Ops -> Row \cup {NoRow}]
      /\ rows[o].st \in Undecided
      /\ \A s \in Sessions : scan[s][o].st # "FULLY_CONFIRMED"
  BY DEF LiveInv, JournalInv, JournalTypeOK, DriveInv
<1>1. o \in Ops /\ rows[o] # NoRow
  BY DEF LiveInv, ProcInv, CallInv, OwnStep
<1> HIDE DEF o
<1>a. ASSUME rows'[o] = rows[o]
      PROVE  rows'[o].st \in Undecided
  BY <1>0, <1>a
<1>b. ASSUME NEW r \in Ops, NEW st, NEW tx, Mark(r, st, tx), r = o => st \in Undecided
      PROVE  rows'[o].st \in Undecided
  <2>1. rows[r] \in Row
    BY <1>0, <1>b, RowFacts DEF Mark, LiveInv, JournalInv
  <2>2. rows'[o] = rows[o] \/ (o = r /\ rows'[o].st = st)
    BY <1>0, <1>1, <1>b, <2>1 DEF Mark, Row
  <2> QED
    BY <1>0, <1>b, <2>2
<1>2. ASSUME NEW p \in Procs, NEW r \in Ops, RecoverRow(p, r)
      PROVE  rows'[o].st \in Undecided
  <2>1. ScanInv(p, r) /\ scan[p][r] # NoRow /\ p \in Sessions
    BY <1>2, SessionAssumption DEF LiveInv, RecoverRow
  <2>2. RecoveredState(scan[p][r]) \in Undecided \cup {"FULLY_CONFIRMED"}
    BY <2>1 DEF ScanInv, RecoverWrites, RecoveredState, CrashStates, Undecided, Unsettled
  <2>3. RecoveredState(scan[p][r]) = "FULLY_CONFIRMED" => scan[p][r].st = "FULLY_CONFIRMED"
    BY DEF RecoveredState
  <2> QED
    BY <1>0, <1>2, <1>b, <2>1, <2>2, <2>3 DEF RecoverRow
<1>3. ASSUME NEW p \in Procs, StartUp(p)
      PROVE  rows'[o].st \in Undecided
  BY <1>2, <1>3, <1>a
     DEF StartUp, OpenJournal, RecoverCollides, ClaimRun, ClaimBlocked, PublishRecovered, journal
<1>4. ASSUME NEW p \in Procs, Persist(p)
      PROVE  rows'[o].st \in Undecided
  <2>1. OwnStep(p) /\ Current(p) \in Ops
    BY <1>4, AttemptFacts DEF Persist, Cycle, At, OwnStep, OwnSteps
  <2>2. Current(p) = o => p = q
    BY <2>1 DEF LiveInv, OneCaller, OwnStep, o
  <2>3. Current(p) = o => memop[p].st \in Undecided
    BY <1>4, <2>2, PersistGoesOn
  <2> QED
    BY <1>4, <1>b, <2>1, <2>3 DEF Persist
<1>5. ASSUME NEW r \in Ops, NEW t, NEW g, NEW u, Reserve(r, t, g, u)
      PROVE  rows'[o].st \in Undecided
  <2>1. r # o
    BY <1>1, <1>5 DEF Reserve
  <2> QED
    BY <1>0, <1>1, <1>5, <1>a, <2>1 DEF Reserve
<1>6. ASSUME NEW p \in Procs, CommitIntent(p) \/ ClaimPermit(p)
      PROVE  rows'[o].st \in Undecided
  <2>1. Current(p) \in Ops
    BY <1>6, AttemptFacts DEF CommitIntent, ClaimPermit, Cycle, At, OwnSteps
  <2>2. CASE CommitIntent(p)
    <3>1. rows'[o] = rows[o] \/ rows'[o].st = "SUBMITTING"
      BY <1>0, <1>1, <2>1, <2>2, RowFacts
         DEF CommitIntent, CommitSubmissionIntent, LiveInv, JournalInv, Row, NoRow
    <3> QED
      BY <1>0, <3>1 DEF Undecided, Unsettled
  <2>3. CASE ClaimPermit(p)
    <3>1. rows'[o].st = rows[o].st
      BY <1>0, <1>1, <2>1, <2>3, RowFacts
         DEF ClaimPermit, ClaimNetworkPermit, MayClaim, SubmissionAuthorized, LiveInv, JournalInv,
             Row, NoRow
    <3> QED
      BY <1>0, <3>1
  <2> QED
    BY <1>6, <2>2, <2>3
<1>7. ASSUME NEW p \in Procs, Closing(p)
      PROVE  rows'[o].st \in Undecided
  BY <1>4, <1>5, <1>6, <1>7, <1>a
     DEF Closing, PersistPosition, FindBlocker, OrdersDisabled, ReserveRow, IssuePermit,
         JournalRefuses, BeginSubmit, CheckAuthority, ClaimRefused, Recheck, Send, RequestFails,
         Response, Interpret, Verify, PersistFails, journal
<1>8. ASSUME NEW p \in Procs, NEW th \in Threads, Deleting(p, th)
      PROVE  rows'[o].st \in Undecided
  <2>1. rows'[o] = rows[o] \/ rows[o].st = "FULLY_CONFIRMED"
    BY <1>0, <1>1, <1>8 DEF Deleting, CheckDelete, FinaliseRow, Finalise, MayFinalise, Pop, journal
  <2> QED
    BY <1>0, <1>a, <2>1 DEF Undecided
<1>9. ASSUME NEW p \in Procs,
             \/ Reconciling(p) \/ LoadBrokerView(p) \/ StartClose(p) \/ WithholdManagement(p)
             \/ Exit(p)
             \/ \E t \in Trades : NextTrade(p, t)
      PROVE  rows'[o].st \in Undecided
  BY <1>9, <1>a DEF Reconciling, BrokerFlat, UnitsDiffer, AdjustUnits, LoadBrokerView, StartClose,
                    WithholdManagement,
                    Exit, NextTrade, journal
<1>10. ASSUME Broker \/ UNCHANGED vars
       PROVE  rows'[o].st \in Undecided
  BY <1>10, <1>a DEF Broker, BrokerReduces, BrokerFills, BrokerRejects, journal, vars
<1>11. rows'[o].st \in Undecided
  BY <1>3, <1>7, <1>8, <1>9, <1>10 DEF Next
<1> QED
  BY <1>11 DEF o

(* The operation of an attempt stays undecided and is not read confirmed.   *)
LEMMA StepDriveInv ==
    LiveInv /\ DriveInv /\ Operators = {} /\ [Next]_vars => DriveInv'
<1> SUFFICES ASSUME LiveInv, DriveInv, Operators = {}, [Next]_vars, NEW q \in Procs, OwnStep(q)'
             PROVE  /\ rows'[Current(q)'].st \in Undecided
                    /\ \A s \in Sessions : scan'[s][Current(q)'].st # "FULLY_CONFIRMED"
  BY DEF DriveInv
<1>1. CASE OwnStep(q) /\ Current(q)' = Current(q)
  <2>1. Current(q) \in Ops
    BY <1>1 DEF LiveInv, ProcInv, CallInv, OwnStep
  <2>2. rows'[Current(q)].st \in Undecided
    BY <1>1, RowDriven
  <2>3. \A s \in Sessions : scan'[s][Current(q)].st # "FULLY_CONFIRMED"
    <3> SUFFICES ASSUME NEW s \in Sessions
                 PROVE  scan'[s][Current(q)].st # "FULLY_CONFIRMED"
      OBVIOUS
    <3>1. scan'[s][Current(q)] \in {NoRow, scan[s][Current(q)], rows[Current(q)]}
      BY <2>1, StepScans
    <3>2. rows[Current(q)].st # "FULLY_CONFIRMED" /\ scan[s][Current(q)].st # "FULLY_CONFIRMED"
      BY <1>1 DEF DriveInv, Undecided
    <3> QED
      BY <3>1, <3>2 DEF NoRow
  <2> QED
    BY <1>1, <2>2, <2>3
<1>2. ASSUME NEW o \in Ops, ReserveRow(q, o)
      PROVE  /\ rows'[Current(q)'].st \in Undecided
             /\ \A s \in Sessions : scan'[s][Current(q)'].st # "FULLY_CONFIRMED"
  <2>1. Current(q)' = o
    <3>1. thread \in [Procs -> [Threads -> ThreadRecord]] /\ "cycle" \in Threads
      BY DEF LiveInv, TypeOK, ThreadRecord, Threads
    <3> QED
      BY <1>2, <3>1 DEF ReserveRow, Current, Op, Idle
  <2>2. rows'[o].st = "PREPARED" /\ rows[o] = NoRow
    BY <1>2 DEF ReserveRow, Reserve, PreparedRow, LiveInv, JournalInv, JournalTypeOK
  <2>3. \A s \in Sessions : scan'[s][o] = NoRow
    BY <1>2, <2>2 DEF ReserveRow, otherProcess, LiveInv, ScanInv
  <2> QED
    BY <2>1, <2>2, <2>3 DEF Undecided, Unsettled, NoRow
<1> QED
  BY <1>1, <1>2, StepDrives

(* Without operator sessions, no mark of a close attempt meets the unique   *)
(* index, for any number of processes, trades and operations: its own row   *)
(* is still the one that blocks the trade (mark, one_unresolved_close).     *)
THEOREM LiveMarkNeverCollides ==
    ASSUME Operators = {}
    PROVE  Spec => []MarkNeverCollides
<1>1. Init => DriveInv
  BY DEF Init, DriveInv, OwnStep, OwnSteps, Stopped, Threads, Idle
<1>2. LiveInv /\ DriveInv /\ [Next]_vars => DriveInv'
  BY StepDriveInv
<1>3. LiveInv /\ DriveInv => MarkNeverCollides
  <2> SUFFICES ASSUME LiveInv, DriveInv, NEW p \in Procs, Cycle(p, "mark")
               PROVE  IndexAdmits(Current(p), rows[Current(p)].trade)
    BY DEF MarkNeverCollides, MarkAdmitted
  <2>1. OwnStep(p)
    BY DEF Cycle, At, OwnStep, OwnSteps
  <2>2. Current(p) \in Ops /\ Blocking(Current(p))
    BY <2>1 DEF LiveInv, ProcInv, CallInv, OwnStep, DriveInv, Undecided, Blocking
  <2> QED
    BY <2>2 DEF LiveInv, JournalInv, OneUnresolvedPerTrade, IndexAdmits, UnresolvedOn
<1> QED
  BY <1>1, <1>2, <1>3, LiveInvariant, PTL DEF Spec
=============================================================================
