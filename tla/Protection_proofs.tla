------------------------- MODULE Protection_proofs -------------------------
(* Proofs about profit protection, for any bounds, givebacks and retry     *)
(* time.  Types hold for any processes, the rest for one.                  *)
EXTENDS Protection, TLAPS

(* What a cycle computes is a position again, with the same attempt stamp.  *)
LEMMA AppliedFacts ==
    ASSUME NEW cols \in Protected, NEW profit \in Pips, NEW best \in Pips,
           NEW giveback \in Givebacks \cup {Fallback}, NEW source \in {"atr", "fallback"}
    PROVE  LET new == Applied(cols, profit, best, giveback, source)
           IN /\ new \in Protected
              /\ new.attempt = cols.attempt
              /\ new.active <=> cols.active \/ new.mfe >= Trigger
              /\ new.active => new.exit # NoExit
              /\ ~new.active => new.exit = cols.exit
<1> DEFINE mfe == Greater(cols.mfe, Greater(profit, best))
           active == cols.active \/ mfe >= Trigger
           exit == IF active THEN Ratchet(cols.exit, Candidate(mfe, giveback)) ELSE cols.exit
           snapshot == IF active /\ ~cols.active /\ cols.snapshot = "none" THEN source
                       ELSE cols.snapshot
           new == Applied(cols, profit, best, giveback, source)
<1>1. /\ cols.mfe \in Pips /\ cols.exit \in Exits \cup {NoExit} /\ cols.active \in BOOLEAN
      /\ cols.snapshot \in {"none", "atr", "fallback"} /\ cols.attempt \in 0 .. MaxTime
      /\ MaxPips \in Nat /\ giveback \in Nat
  BY PipsAssumption DEF Protected
<1>2. mfe \in Pips
  BY <1>1 DEF Greater
<1>3. Ratchet(cols.exit, Candidate(mfe, giveback)) \in Exits
  <2>1. Candidate(mfe, giveback) \in Exits
    BY <1>1, <1>2 DEF Candidate, Exits, Pips
  <2> QED
    BY <1>1, <2>1 DEF Ratchet
<1>4. exit \in Exits \cup {NoExit} /\ (active => exit # NoExit)
  BY <1>1, <1>3, NoExitAssumption DEF Exits
<1>5. snapshot \in {"none", "atr", "fallback"} /\ active \in BOOLEAN
  BY <1>1
<1>6. new = [cols EXCEPT !.mfe = mfe, !.active = active, !.exit = exit, !.snapshot = snapshot]
  BY DEF Applied
<1> HIDE DEF mfe, active, exit, snapshot, new
<1>7. /\ new \in Protected /\ new.attempt = cols.attempt /\ new.mfe = mfe
      /\ new.active = active /\ new.exit = exit
  BY <1>1, <1>2, <1>4, <1>5, <1>6 DEF Protected
<1> QED
  BY <1>4, <1>7 DEF new, active, exit
-----------------------------------------------------------------------------
(* Types                                                                    *)

LEMMA FreshFacts ==
    /\ Fresh \in Protected
    /\ [cols |-> Fresh, quarantine |-> TRUE] \in Position
    /\ Idle \in Cycles /\ Down \in Cycles
<1>1. Fresh \in Protected
  BY PipsAssumption, TimeAssumption DEF Fresh, Protected, Pips
<1> QED
  BY <1>1 DEF Position, Idle, Down, Cycles, Steps

LEMMA RestoredFacts ==
    ASSUME NEW r \in Protected
    PROVE  Restored(r) \in Position
BY DEF Restored, Position, ActivatedWithoutRatchet

LEMMA StepTypes == TypeOK /\ [Next]_vars => TypeOK'
<1> SUFFICES ASSUME TypeOK, [Next]_vars
             PROVE  TypeOK'
  OBVIOUS
<1>1. CASE UNCHANGED vars
  BY <1>1 DEF vars, TypeOK
<1>2. CASE Settle \/ Tick
  BY <1>2, TimeAssumption DEF Settle, Tick, TypeOK, fence
<1>3. ASSUME NEW p \in Procs, Start(p)
      PROVE  TypeOK'
  <2>1. Restored(row) \in Position
    BY RestoredFacts DEF TypeOK
  <2>2. epoch + 1 \in 0 .. MaxEpoch
    BY <1>3, TimeAssumption DEF Start, TypeOK
  <2> QED
    BY <1>3, <2>1, <2>2, FreshFacts DEF Start, Leave, TypeOK, outside
<1>4. ASSUME NEW p \in Procs, Crash(p)
      PROVE  TypeOK'
  BY <1>4, FreshFacts DEF Crash, TypeOK, fence, outside
<1>5. ASSUME NEW p \in Procs, Evaluate(p)
      PROVE  TypeOK'
  <2>1. PICK profit \in Pips, best \in Pips,
             giveback \in Givebacks \cup {Fallback}, source \in {"atr", "fallback"} :
          LET cols == Applied(pos[p].cols, profit, best, giveback, source)
          IN /\ pos' = [pos EXCEPT ![p].cols = cols]
             /\ cycle' = [cycle EXCEPT ![p] = [at |-> "check", hit |-> Hit(cols, profit)]]
    BY <1>5 DEF Evaluate
  <2> DEFINE cols == Applied(pos[p].cols, profit, best, giveback, source)
  <2>2. pos[p].cols \in Protected
    BY DEF TypeOK, Position
  <2>3. cols \in Protected
    BY <2>2, AppliedFacts
  <2>4. Hit(cols, profit) \in BOOLEAN
    BY <2>3 DEF Hit, Protected
  <2> HIDE DEF cols
  <2>5. pos' \in [Procs -> Position]
    BY <2>1, <2>3 DEF TypeOK, Position, cols
  <2>6. cycle' \in [Procs -> Cycles]
    BY <2>1, <2>4 DEF TypeOK, Cycles, Steps, cols
  <2> QED
    BY <1>5, <2>5, <2>6 DEF Evaluate, TypeOK, fence, outside
<1>6. ASSUME NEW p \in Procs, NEW step \in Steps, Goto(p, step) \/ Leave(p)
      PROVE  cycle' \in [Procs -> Cycles]
  BY <1>6, FreshFacts DEF Goto, Leave, TypeOK, Cycles
<1>7. ASSUME NEW p \in Procs, NotDurable(p)
      PROVE  pos' \in [Procs -> Position] /\ cycle' \in [Procs -> Cycles]
  BY <1>7, FreshFacts DEF NotDurable, Leave, TypeOK, Position
<1>8. ASSUME NEW p \in Procs
      PROVE  pos[p].cols \in Protected
  BY DEF TypeOK, Position
<1>9. ASSUME NEW p \in Procs, EvaluateUnpriced(p) \/ CheckRow(p)
      PROVE  TypeOK'
  BY <1>6, <1>7, <1>9 DEF EvaluateUnpriced, CheckRow, Steps, TypeOK, fence, outside
<1>10. ASSUME NEW p \in Procs, WriteRow(p) \/ WriteRowFails(p)
       PROVE  TypeOK'
  BY <1>6, <1>7, <1>8, <1>10 DEF WriteRow, WriteRowFails, Steps, TypeOK, fence, outside
<1>11. ASSUME NEW p \in Procs, Decide(p)
       PROVE  TypeOK'
  <2>1. pos' \in [Procs -> Position]
    <3> DEFINE new == [pos[p].cols EXCEPT !.attempt = clock]
    <3>1. new \in Protected
      BY <1>8 DEF TypeOK, Protected
    <3>2. pos' = pos \/ pos' = [pos EXCEPT ![p].cols = new]
      BY <1>11 DEF Decide
    <3> HIDE DEF new
    <3>3. CASE pos' = pos
      BY <3>3 DEF TypeOK
    <3>4. CASE pos' = [pos EXCEPT ![p].cols = new]
      BY <3>1, <3>4 DEF TypeOK, Position
    <3> QED
      BY <3>2, <3>3, <3>4
  <2>2. (cycle[p].hit /\ CloseAllowed(pos[p].cols)) \in BOOLEAN
    BY DEF TypeOK, Cycles
  <2>3. cycle' \in [Procs -> Cycles]
    BY <1>11, <2>2, FreshFacts DEF Decide, TypeOK, Cycles, Steps
  <2> QED
    BY <1>11, <2>1, <2>3 DEF Decide, TypeOK, fence, outside
<1>12. ASSUME NEW p \in Procs, PersistPosition(p) \/ PersistPositionFails(p)
       PROVE  TypeOK'
  BY <1>6, <1>8, <1>12 DEF PersistPosition, PersistPositionFails, Steps, TypeOK, fence, outside
<1>13. ASSUME NEW p \in Procs, Submit(p)
       PROVE  TypeOK'
  <2>1. pos[p].cols.attempt \in 0 .. MaxTime
    BY <1>8 DEF Protected
  <2> QED
    BY <1>6, <1>13, <2>1 DEF Submit, Steps, TypeOK, fence
<1>14. ASSUME NEW p \in Procs, SubmitRefused(p) \/ Answer(p)
       PROVE  TypeOK'
  BY <1>6, <1>14 DEF SubmitRefused, Answer, Steps, TypeOK, fence
<1> QED
  BY <1>1, <1>2, <1>3, <1>4, <1>5, <1>9, <1>10, <1>11, <1>12, <1>13, <1>14 DEF Next, Cycle

(* The columns, the position and the cycle keep the values of the code, and *)
(* no exit lies above the best profit, for any number of processes.         *)
THEOREM ProtectionTypes == Spec => []TypeOK
<1>1. Init => TypeOK
  BY FreshFacts, TimeAssumption DEF Init, TypeOK
<1> QED
  BY <1>1, StepTypes, PTL DEF Spec
-----------------------------------------------------------------------------
(* One process                                                              *)

OneProcess == \A p, q \in Procs : p = q

\* An exit goes with an active protection.
Whole(cols) == cols.active <=> cols.exit # NoExit

\* A cycle that has begun manages its position.
CycleManages(p) == cycle[p].at \notin {"down", "idle"} => ~pos[p].quarantine

\* Outside the write, row and memory agree on the ratchet.
Durable(p) ==
    ~pos[p].quarantine /\ cycle[p].at \notin {"check", "write"} => SameRatchet(pos[p].cols, row)

\* What is about to be written was compared with the row.
Compared(p) == cycle[p].at = "write" => ~Lower(pos[p].cols)

\* Memory is never behind the row, which has the stamp of a close on its way.
StampIsDurable(p) ==
    /\ cycle[p].at # "down" => row.attempt <= pos[p].cols.attempt
    /\ cycle[p].at = "submit" => row.attempt = pos[p].cols.attempt

\* A protective close on its way was allowed.
HitWasAllowed(p) ==
    cycle[p].at \in {"persist", "submit"} /\ cycle[p].hit
        => stamp = 0 \/ pos[p].cols.attempt - stamp >= RetrySec

ProcInv(p) ==
    /\ Whole(pos[p].cols)
    /\ CycleManages(p)
    /\ Durable(p)
    /\ Compared(p)
    /\ StampIsDurable(p)
    /\ HitWasAllowed(p)

ProtInv ==
    /\ TypeOK
    /\ Whole(row)
    /\ stamp <= row.attempt
    /\ row.attempt <= clock
    /\ \A p \in Procs : pos[p].cols.attempt <= clock
    /\ \A p \in Procs : ProcInv(p)

(* The types, spelled out for one process.                                  *)
LEMMA Shapes ==
    ASSUME TypeOK, NEW p \in Procs
    PROVE  /\ pos[p].cols \in Protected /\ pos[p].quarantine \in BOOLEAN
           /\ cycle[p].at \in Steps /\ cycle[p].hit \in BOOLEAN
           /\ row.attempt \in Int /\ pos[p].cols.attempt \in Int
           /\ stamp \in Int /\ clock \in Int /\ RetrySec \in Int
BY TimeAssumption DEF TypeOK, Position, Protected, Cycles

LEMMA InitProtInv == Init => ProtInv
<1> SUFFICES ASSUME Init
             PROVE  ProtInv
  OBVIOUS
<1>1. TypeOK
  BY FreshFacts, TimeAssumption DEF Init, TypeOK
<1>2. Whole(Fresh)
  BY DEF Whole, Fresh
<1>3. \A p \in Procs : pos[p].cols = Fresh /\ pos[p].quarantine /\ cycle[p].at = "down"
  BY DEF Init, Down
<1>4. row = Fresh /\ stamp = 0 /\ clock = 1 /\ Fresh.attempt = 0
  BY DEF Init, Fresh
<1> QED
  BY <1>1, <1>2, <1>3, <1>4
     DEF ProtInv, ProcInv, CycleManages, Durable, Compared, StampIsDurable, HitWasAllowed

(* A step that leaves the row and the stamps as they are keeps the          *)
(* invariant when the process that takes it does.                           *)
LEMMA RowKept ==
    ASSUME OneProcess, ProtInv, TypeOK', NEW p \in Procs,
           UNCHANGED <<row, stamp, clock>>,
           pos'[p].cols.attempt <= clock,
           ProcInv(p)'
    PROVE  ProtInv'
BY DEF ProtInv, OneProcess

LEMMA StartProt ==
    ASSUME OneProcess, ProtInv, TypeOK', NEW p \in Procs, Start(p)
    PROVE  ProtInv'
<1>1. /\ pos'[p] = Restored(row) /\ cycle'[p] = Idle
      /\ UNCHANGED <<row, stamp, clock>>
  BY DEF Start, Leave, outside, ProtInv, TypeOK
<1>2. /\ pos'[p].cols = row /\ cycle'[p].at = "idle"
  BY <1>1 DEF Restored, Idle
<1>3. SameRatchet(row, row) /\ row.attempt <= row.attempt
  BY Shapes DEF SameRatchet, ProtInv
<1>4. ProcInv(p)'
  BY <1>1, <1>2, <1>3
     DEF ProtInv, ProcInv, Whole, CycleManages, Durable, SameRatchet, Compared, StampIsDurable,
         HitWasAllowed
<1> QED
  BY <1>1, <1>2, <1>4, RowKept DEF ProtInv

LEMMA CrashProt ==
    ASSUME OneProcess, ProtInv, TypeOK', NEW p \in Procs, Crash(p)
    PROVE  ProtInv'
<1>1. /\ pos'[p] = [cols |-> Fresh, quarantine |-> TRUE] /\ cycle'[p] = Down
      /\ UNCHANGED <<row, stamp, clock>>
  BY DEF Crash, outside, ProtInv, TypeOK
<1>2. /\ pos'[p].cols = Fresh /\ pos'[p].quarantine /\ cycle'[p].at = "down"
      /\ Fresh.attempt = 0 /\ Whole(Fresh)
  BY <1>1 DEF Down, Fresh, Whole
<1>3. ProcInv(p)'
  BY <1>1, <1>2
     DEF ProcInv, Whole, CycleManages, Durable, Compared, StampIsDurable, HitWasAllowed
<1>4. 0 <= clock
  BY DEF ProtInv, TypeOK
<1> QED
  BY <1>1, <1>2, <1>3, <1>4, RowKept

LEMMA EvaluateProt ==
    ASSUME OneProcess, ProtInv, TypeOK', NEW p \in Procs, Evaluate(p)
    PROVE  ProtInv'
<1>1. PICK profit \in Pips, best \in Pips,
           giveback \in Givebacks \cup {Fallback}, source \in {"atr", "fallback"} :
        LET cols == Applied(pos[p].cols, profit, best, giveback, source)
        IN /\ pos' = [pos EXCEPT ![p].cols = cols]
           /\ cycle' = [cycle EXCEPT ![p] = [at |-> "check", hit |-> Hit(cols, profit)]]
  BY DEF Evaluate
<1> DEFINE cols == Applied(pos[p].cols, profit, best, giveback, source)
<1>2. /\ cols.attempt = pos[p].cols.attempt
      /\ cols.active => cols.exit # NoExit
      /\ ~cols.active => cols.exit = pos[p].cols.exit
      /\ cols.active <=> pos[p].cols.active \/ cols.mfe >= Trigger
  BY Shapes, AppliedFacts DEF ProtInv
<1>3. Whole(cols)
  BY <1>2 DEF Whole, ProtInv, ProcInv
<1> HIDE DEF cols
<1>4. pos'[p].cols = cols /\ pos'[p].quarantine = pos[p].quarantine /\ cycle'[p].at = "check"
  BY <1>1 DEF cols, ProtInv, TypeOK, Position
<1>5. UNCHANGED <<row, stamp, clock>> /\ ~pos[p].quarantine /\ cycle[p].at = "idle"
  BY DEF Evaluate, Managed, outside
<1>6. ProcInv(p)'
  BY <1>2, <1>3, <1>4, <1>5
     DEF ProtInv, ProcInv, Whole, CycleManages, Durable, Compared, StampIsDurable, HitWasAllowed
<1> QED
  BY <1>2, <1>4, <1>5, <1>6, RowKept DEF ProtInv

LEMMA EvaluateUnpricedProt ==
    ASSUME OneProcess, ProtInv, TypeOK', NEW p \in Procs, EvaluateUnpriced(p)
    PROVE  ProtInv'
<1>1. /\ UNCHANGED <<row, pos, stamp, clock>> /\ ~pos[p].quarantine /\ cycle[p].at = "idle"
      /\ cycle'[p].at = "decide"
  BY DEF EvaluateUnpriced, Managed, Goto, outside, ProtInv, TypeOK, Cycles
<1>2. ProcInv(p)'
  BY <1>1
     DEF ProtInv, ProcInv, Whole, CycleManages, Durable, SameRatchet, Compared, StampIsDurable,
         HitWasAllowed
<1> QED
  BY <1>1, <1>2, RowKept DEF ProtInv

(* A position that leaves management keeps its columns.                     *)
LEMMA NotDurableFacts ==
    ASSUME TypeOK, NEW p \in Procs, NotDurable(p)
    PROVE  /\ pos'[p].cols = pos[p].cols /\ pos'[p].quarantine
           /\ cycle'[p].at = "idle" /\ cycle'[p].hit = FALSE
BY DEF NotDurable, Leave, Idle, TypeOK, Position

LEMMA CheckRowProt ==
    ASSUME OneProcess, ProtInv, TypeOK', NEW p \in Procs, CheckRow(p)
    PROVE  ProtInv'
<1>1. cycle[p].at = "check" /\ UNCHANGED <<row, stamp, clock>>
  BY DEF CheckRow, outside
<1>2. CASE ~Lower(pos[p].cols) /\ Goto(p, "write") /\ UNCHANGED pos
  <2>1. cycle'[p].at = "write"
    BY <1>2 DEF Goto, ProtInv, TypeOK, Cycles
  <2>2. ~Lower(pos[p].cols)'
    BY <1>1, <1>2 DEF Lower
  <2>3. ProcInv(p)'
    BY <1>1, <1>2, <2>1, <2>2
       DEF ProtInv, ProcInv, Whole, CycleManages, Durable, Compared, StampIsDurable, HitWasAllowed
  <2> QED
    BY <1>1, <1>2, <2>3, RowKept DEF ProtInv
<1>3. CASE NotDurable(p)
  <2>1. /\ pos'[p].cols = pos[p].cols /\ pos'[p].quarantine /\ cycle'[p].at = "idle"
    BY <1>3, NotDurableFacts DEF ProtInv
  <2>2. ProcInv(p)'
    BY <1>1, <2>1
       DEF ProtInv, ProcInv, Whole, CycleManages, Durable, Compared, StampIsDurable, HitWasAllowed
  <2> QED
    BY <1>1, <2>1, <2>2, RowKept DEF ProtInv
<1> QED
  BY <1>2, <1>3 DEF CheckRow

(* A write of the position of the process, applied or not.                  *)
LEMMA RowWritten ==
    ASSUME OneProcess, ProtInv, TypeOK', NEW p \in Procs,
           cycle[p].at # "down",
           row' = pos[p].cols \/ row' = row,
           pos'[p].cols = pos[p].cols,
           UNCHANGED <<stamp, clock>>,
           ProcInv(p)'
    PROVE  ProtInv'
<1>1. Whole(pos[p].cols) /\ row.attempt <= pos[p].cols.attempt /\ pos[p].cols.attempt <= clock
  BY DEF ProtInv, ProcInv, StampIsDurable
<1>2. Whole(row)' /\ stamp <= row'.attempt /\ row'.attempt <= clock
  BY <1>1, Shapes DEF ProtInv, Whole
<1> QED
  BY <1>1, <1>2 DEF ProtInv, OneProcess

LEMMA WriteRowProt ==
    ASSUME OneProcess, ProtInv, TypeOK', NEW p \in Procs, WriteRow(p)
    PROVE  ProtInv'
<1>1. /\ cycle[p].at = "write" /\ UNCHANGED <<pos, stamp, clock>> /\ row' = pos[p].cols
      /\ cycle'[p].at = "decide"
  BY DEF WriteRow, Goto, outside, ProtInv, TypeOK, Cycles
<1>2. pos[p].cols.attempt <= pos[p].cols.attempt
  BY Shapes DEF ProtInv
<1>3. ProcInv(p)'
  BY <1>1, <1>2
     DEF ProtInv, ProcInv, Whole, CycleManages, Durable, SameRatchet, Compared, StampIsDurable,
         HitWasAllowed
<1> QED
  BY <1>1, <1>3, RowWritten

LEMMA WriteRowFailsProt ==
    ASSUME OneProcess, ProtInv, TypeOK', NEW p \in Procs, WriteRowFails(p)
    PROVE  ProtInv'
<1>1. /\ cycle[p].at = "write" /\ UNCHANGED <<stamp, clock>>
      /\ row' = pos[p].cols \/ row' = row
  BY DEF WriteRowFails, outside
<1>2. pos'[p].cols = pos[p].cols /\ pos'[p].quarantine /\ cycle'[p].at = "idle"
  BY NotDurableFacts DEF WriteRowFails, ProtInv
<1>3. row.attempt <= pos[p].cols.attempt /\ pos[p].cols.attempt <= pos[p].cols.attempt
  BY <1>1, Shapes DEF ProtInv, ProcInv, StampIsDurable
<1>4. ProcInv(p)'
  BY <1>1, <1>2, <1>3
     DEF ProtInv, ProcInv, Whole, CycleManages, Durable, Compared, StampIsDurable, HitWasAllowed
<1> QED
  BY <1>1, <1>2, <1>4, RowWritten

LEMMA DecideProt ==
    ASSUME OneProcess, ProtInv, TypeOK', NEW p \in Procs, Decide(p)
    PROVE  ProtInv'
<1> DEFINE cols == pos[p].cols
           protect == cycle[p].hit /\ CloseAllowed(cols)
<1>1. cycle[p].at = "decide" /\ UNCHANGED <<row, stamp, clock>>
      /\ ~pos[p].quarantine /\ SameRatchet(cols, row) /\ row.attempt <= cols.attempt
  BY DEF Decide, outside, ProtInv, ProcInv, CycleManages, Durable, StampIsDurable
<1>2. /\ cycle'[p].at \in {"persist", "idle"}
      /\ cycle'[p].at = "persist" => cycle'[p].hit = protect
  <2>1. PICK weekend, disabled \in BOOLEAN :
           cycle' = [cycle EXCEPT ![p] =
              IF ~disabled /\ (protect \/ weekend) THEN [at |-> "persist", hit |-> protect]
              ELSE Idle]
    BY DEF Decide
  <2>2. cycle \in [Procs -> Cycles]
    BY DEF ProtInv, TypeOK
  <2>3. cycle'[p] = IF ~disabled /\ (protect \/ weekend) THEN [at |-> "persist", hit |-> protect]
                    ELSE Idle
    BY <2>1, <2>2
  <2>4. CASE ~disabled /\ (protect \/ weekend)
    BY <2>3, <2>4
  <2>5. CASE ~(~disabled /\ (protect \/ weekend))
    <3>1. cycle'[p] = Idle
      BY <2>3, <2>5
    <3> QED
      BY <3>1 DEF Idle
  <2> QED
    BY <2>4, <2>5
<1>3. /\ SameRatchet(pos'[p].cols, row) /\ pos'[p].quarantine = pos[p].quarantine
      /\ pos'[p].cols.attempt = IF protect THEN clock ELSE cols.attempt
      /\ Whole(pos'[p].cols)
  <2>1. CASE protect
    <3>1. pos'[p].cols = [cols EXCEPT !.attempt = clock] /\ pos'[p].quarantine = pos[p].quarantine
      BY <2>1 DEF Decide, ProtInv, TypeOK, Position
    <3> QED
      BY <1>1, <2>1, <3>1, Shapes DEF SameRatchet, Whole, Protected, ProtInv, ProcInv
  <2>2. CASE ~protect
    BY <1>1, <2>2 DEF Decide, ProtInv, ProcInv
  <2> QED
    BY <2>1, <2>2
<1>4. protect => stamp = 0 \/ clock - stamp >= RetrySec
  <2> SUFFICES ASSUME protect
               PROVE  stamp = 0 \/ clock - stamp >= RetrySec
    OBVIOUS
  <2>1. stamp <= cols.attempt /\ stamp \in Nat
    BY <1>1, Shapes DEF ProtInv, TypeOK
  <2> QED
    BY <2>1, Shapes DEF CloseAllowed, ProtInv
<1>5. pos'[p].cols.attempt <= clock /\ row.attempt <= pos'[p].cols.attempt
  BY <1>1, <1>3, Shapes DEF ProtInv
<1> HIDE DEF protect, cols
<1>6. ProcInv(p)'
  BY <1>1, <1>2, <1>3, <1>4, <1>5
     DEF ProcInv, Whole, CycleManages, Durable, SameRatchet, Compared, StampIsDurable, HitWasAllowed
<1> QED
  BY <1>1, <1>5, <1>6, RowKept

LEMMA PersistProt ==
    ASSUME OneProcess, ProtInv, TypeOK', NEW p \in Procs,
           PersistPosition(p) \/ PersistPositionFails(p)
    PROVE  ProtInv'
<1>1. /\ cycle[p].at = "persist" /\ UNCHANGED <<pos, stamp, clock>>
      /\ row' = pos[p].cols \/ row' = row
  BY DEF PersistPosition, PersistPositionFails, outside
<1>2. /\ ~pos[p].quarantine /\ SameRatchet(pos[p].cols, row)
      /\ row.attempt <= pos[p].cols.attempt /\ pos[p].cols.attempt <= pos[p].cols.attempt
      /\ SameRatchet(pos[p].cols, pos[p].cols)
  BY <1>1, Shapes DEF ProtInv, ProcInv, CycleManages, Durable, StampIsDurable, SameRatchet
<1>3. \/ cycle'[p].at = "submit" /\ cycle'[p].hit = cycle[p].hit /\ row' = pos[p].cols
      \/ cycle'[p].at = "idle"
  BY DEF PersistPosition, PersistPositionFails, Goto, Leave, Idle, ProtInv, TypeOK, Cycles
<1>4. ProcInv(p)'
  BY <1>1, <1>2, <1>3
     DEF ProtInv, ProcInv, Whole, CycleManages, Durable, SameRatchet, Compared, StampIsDurable,
         HitWasAllowed
<1> QED
  BY <1>1, <1>4, RowWritten

LEMMA SubmitProt ==
    ASSUME OneProcess, ProtInv, TypeOK', NEW p \in Procs, Submit(p)
    PROVE  ProtInv'
<1>1. /\ cycle[p].at = "submit" /\ UNCHANGED <<row, pos, clock>>
      /\ cycle'[p].at = "await"
      /\ stamp' = IF cycle[p].hit THEN pos[p].cols.attempt ELSE stamp
  BY DEF Submit, Goto, ProtInv, TypeOK, Cycles
<1>2. row.attempt = pos[p].cols.attempt /\ row.attempt <= row.attempt
  BY <1>1, Shapes DEF ProtInv, ProcInv, StampIsDurable
<1>3. stamp' <= row.attempt
  BY <1>1, <1>2 DEF ProtInv
<1>4. ProcInv(p)'
  BY <1>1
     DEF ProtInv, ProcInv, Whole, CycleManages, Durable, SameRatchet, Compared, StampIsDurable,
         HitWasAllowed
<1> QED
  BY <1>1, <1>3, <1>4 DEF ProtInv, OneProcess, Whole

LEMMA AnswerProt ==
    ASSUME OneProcess, ProtInv, TypeOK', NEW p \in Procs, SubmitRefused(p) \/ Answer(p)
    PROVE  ProtInv'
<1>1. /\ UNCHANGED <<row, pos, stamp, clock>> /\ cycle[p].at \in {"submit", "await"}
      /\ cycle'[p].at = "idle"
  BY DEF SubmitRefused, Answer, Leave, Idle, ProtInv, TypeOK
<1>2. ProcInv(p)'
  BY <1>1
     DEF ProtInv, ProcInv, Whole, CycleManages, Durable, SameRatchet, Compared, StampIsDurable,
         HitWasAllowed
<1> QED
  BY <1>1, <1>2, RowKept DEF ProtInv

LEMMA OutsideProt ==
    ASSUME ProtInv, TypeOK', Settle \/ Tick \/ UNCHANGED vars
    PROVE  ProtInv'
<1>1. UNCHANGED <<row, pos, cycle, stamp>> /\ clock' \in {clock, clock + 1}
  BY DEF Settle, Tick, vars
<1>2. \A p \in Procs : pos[p].cols.attempt <= clock' /\ row.attempt <= clock'
  BY <1>1, Shapes DEF ProtInv
<1>3. row.attempt <= clock'
  BY <1>1 DEF ProtInv, TypeOK, Protected
<1>4. \A p \in Procs : ProcInv(p)'
  BY <1>1
     DEF ProtInv, ProcInv, Whole, CycleManages, Durable, SameRatchet, Compared, StampIsDurable,
         HitWasAllowed, Lower
<1> QED
  BY <1>1, <1>2, <1>3, <1>4 DEF ProtInv, Whole

LEMMA StepProtInv ==
    ASSUME OneProcess
    PROVE  ProtInv /\ [Next]_vars => ProtInv'
<1> SUFFICES ASSUME ProtInv, [Next]_vars
             PROVE  ProtInv'
  OBVIOUS
<1>1. TypeOK'
  BY StepTypes DEF ProtInv
<1>2. CASE Settle \/ Tick \/ UNCHANGED vars
  BY <1>1, <1>2, OutsideProt
<1>3. ASSUME NEW p \in Procs, Start(p) \/ Crash(p)
      PROVE  ProtInv'
  BY <1>1, <1>3, StartProt, CrashProt
<1>4. ASSUME NEW p \in Procs, Cycle(p)
      PROVE  ProtInv'
  BY <1>1, <1>4, EvaluateProt, EvaluateUnpricedProt, CheckRowProt, WriteRowProt,
     WriteRowFailsProt, DecideProt, PersistProt, SubmitProt, AnswerProt DEF Cycle
<1> QED
  BY <1>2, <1>3, <1>4 DEF Next

LEMMA ProtectionInvariant ==
    ASSUME OneProcess
    PROVE  Spec => []ProtInv
BY InitProtInv, StepProtInv, PTL DEF Spec
-----------------------------------------------------------------------------
(* With one process, no decision rests on a ratchet a crash would lose.     *)
THEOREM ProtectionDurable ==
    ASSUME OneProcess
    PROVE  Spec => []ManagedIsDurable
<1>1. ProtInv => ManagedIsDurable
  BY DEF ProtInv, ProcInv, Durable, ManagedIsDurable
<1> QED
  BY <1>1, ProtectionInvariant, PTL

(* With one process, the durable ratchet never loosens across its restarts. *)
THEOREM ProtectionRatchetHolds ==
    ASSUME OneProcess
    PROVE  Spec => DurableRatchetHolds
<1>1. ASSUME ProtInv, [Next]_vars
      PROVE  [row.active => row'.active /\ row'.exit # NoExit /\ row'.exit >= row.exit]_vars
  <2> SUFFICES ASSUME row.active
               PROVE  row'.active /\ row'.exit # NoExit /\ row'.exit >= row.exit
    OBVIOUS
  <2>1. row.exit # NoExit /\ row.exit \in Int
    BY <1>1 DEF ProtInv, Whole, TypeOK, Protected, Exits
  <2>2. CASE row' = row
    BY <2>1, <2>2
  <2>3. ASSUME NEW p \in Procs, WriteRow(p) \/ WriteRowFails(p), row' = pos[p].cols
        PROVE  row'.active /\ row'.exit # NoExit /\ row'.exit >= row.exit
    <3>1. ~Lower(pos[p].cols) /\ Whole(pos[p].cols)
      BY <1>1, <2>3 DEF ProtInv, ProcInv, Compared, WriteRow, WriteRowFails
    <3>2. pos[p].cols.active /\ pos[p].cols.exit # NoExit
      BY <3>1 DEF Lower, Whole
    <3>3. pos[p].cols.exit \in Int
      BY <1>1, <3>2, Shapes DEF ProtInv, Protected, Exits
    <3> QED
      BY <2>1, <2>3, <3>1, <3>2, <3>3 DEF Lower
  <2>4. ASSUME NEW p \in Procs, PersistPosition(p) \/ PersistPositionFails(p), row' = pos[p].cols
        PROVE  row'.active /\ row'.exit # NoExit /\ row'.exit >= row.exit
    <3>1. SameRatchet(pos[p].cols, row)
      BY <1>1, <2>4 DEF ProtInv, ProcInv, CycleManages, Durable, PersistPosition, PersistPositionFails
    <3> QED
      BY <2>1, <2>4, <3>1 DEF SameRatchet
  <2> QED
    BY <1>1, <2>2, <2>3, <2>4
       DEF Next, Cycle, Start, Crash, Evaluate, EvaluateUnpriced, CheckRow, WriteRow, WriteRowFails,
           Decide, PersistPosition, PersistPositionFails, Submit, SubmitRefused, Answer, Settle,
           Tick, vars
<1> QED
  BY <1>1, ProtectionInvariant, PTL DEF Spec, DurableRatchetHolds

(* With one process, protective closes keep their distance across restarts. *)
THEOREM ProtectionClosesSpaced ==
    ASSUME OneProcess
    PROVE  Spec => ProtectiveClosesSpaced
<1>1. ASSUME ProtInv, [Next]_vars
      PROVE  [stamp' # stamp /\ stamp # 0 => stamp' - stamp >= RetrySec]_vars
  <2>1. CASE stamp' = stamp
    BY <2>1
  <2>2. ASSUME NEW p \in Procs, Submit(p)
        PROVE  stamp' # stamp /\ stamp # 0 => stamp' - stamp >= RetrySec
    BY <1>1, <2>2 DEF Submit, ProtInv, ProcInv, HitWasAllowed
  <2> QED
    BY <1>1, <2>1, <2>2
       DEF Next, Cycle, Start, Crash, Evaluate, EvaluateUnpriced, CheckRow, WriteRow, WriteRowFails,
           Decide, PersistPosition, PersistPositionFails, SubmitRefused, Answer, Settle,
           Tick, vars, outside
<1> QED
  BY <1>1, ProtectionInvariant, PTL DEF Spec, ProtectiveClosesSpaced
=============================================================================
