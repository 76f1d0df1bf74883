------------------------ MODULE OrderRegistry_proofs ------------------------
(* Proofs about the order registry, for any processes, instruments and ids. *)
EXTENDS OrderRegistry, TLAPS

\* Between the reservation and the filing of the answer.
Busy(p) == call[p].at \in {"reserved", "submitted"}

\* A process that is busy owns the pending row of its order, and the broker
\* has heard of the order exactly when it was submitted.
CallInv(p) ==
    Busy(p) =>
        /\ row[call[p].cid] = Pending(call[p].sym)
        /\ order[p][call[p].cid] # NoOrder
        /\ call[p].at = "reserved" => request[call[p].cid] = NoRequest
        /\ call[p].at = "submitted" => /\ request[call[p].cid] # NoRequest
                                       /\ request[call[p].cid].sym = call[p].sym

OneCaller ==
    \A p, q \in Procs : Busy(p) /\ Busy(q) /\ call[p].cid = call[q].cid => p = q

\* The advisory lock: an instrument has one row that blocks it.
OneBlocker ==
    \A c, d \in Clients :
        /\ row[c] # NoRow /\ Blocks(row[c])
        /\ row[d] # NoRow /\ Blocks(row[d])
        /\ row[c].sym = row[d].sym
        => c = d

\* Reserved by somebody, or perhaps at the broker.
Wanted(c) == MayExpose(c) \/ \E p \in Procs : call[p].at = "reserved" /\ call[p].cid = c

WantedIsHeld ==
    \A p \in Procs, c \in Clients :
        order[p][c] # NoOrder /\ Wanted(c) => blocking[p][row[c].sym] # NoClient

RequestHasRow == \A c \in Clients : request[c] # NoRequest => row[c] # NoRow

OrderHasRow ==
    \A p \in Procs, c \in Clients : order[p][c] # NoOrder => row[c] # NoRow

AbsentIsKnown ==
    \A p \in Procs : absent[p] # NoClient => Up(p) /\ order[p][absent[p]] # NoOrder

RegInv ==
    /\ TypeOK
    /\ \A p \in Procs : CallInv(p)
    /\ OneCaller
    /\ OneBlocker
    /\ ExposureIsDurable
    /\ WantedIsHeld
    /\ RequestHasRow
    /\ OrderHasRow
    /\ AbsentIsKnown

-----------------------------------------------------------------------------
(* A row, an order and a request are there or absent.                       *)
LEMMA Shapes ==
    ASSUME TypeOK, NEW c \in Clients
    PROVE  /\ row[c] # NoRow => row[c] \in Rows
           /\ request[c] # NoRequest => request[c] \in Requests
           /\ MayExpose(c) => request[c] # NoRequest
           /\ \A p \in Procs : order[p][c] # NoOrder => order[p][c] \in Orders
           /\ \A p \in Procs : order[p][c].st \in Statuses => order[p][c] \in Orders
<1>1. row[c] # NoRow => row[c] \in Rows
  BY DEF TypeOK
<1>2. request[c] # NoRequest => request[c] \in Requests
  BY DEF TypeOK
<1>3. MayExpose(c) => request[c] # NoRequest
  BY DEF MayExpose, NoRequest
<1>4. \A p \in Procs : order[p][c] \in Orders \cup {NoOrder}
  BY DEF TypeOK
<1>5. NoOrder.st \notin Statuses
  BY DEF NoOrder, Statuses
<1> QED
  BY <1>1, <1>2, <1>3, <1>4, <1>5

(* A busy process names an instrument and a client id.                      *)
LEMMA BusyFacts ==
    ASSUME TypeOK, NEW p \in Procs, Busy(p)
    PROVE  /\ call[p].sym \in Symbols /\ call[p].cid \in Clients
           /\ call[p] \in [at : {"reserved", "submitted"}, sym : Symbols, cid : Clients]
<1>1. call[p] \in Calls
  BY DEF TypeOK
<1>2. Down.at \notin {"reserved", "submitted"} /\ Idle.at \notin {"reserved", "submitted"}
  BY DEF Down, Idle
<1> QED
  BY <1>1, <1>2 DEF Calls, Busy

(* What a pending row is.                                                   *)
LEMMA PendingFacts ==
    ASSUME NEW s \in Symbols
    PROVE  /\ Pending(s) \in Rows /\ Pending(s) # NoRow
           /\ Pending(s).sym = s /\ Pending(s).st = "PENDING" /\ Blocks(Pending(s))
<1>1. /\ Pending(s) \in Rows /\ Pending(s).sym = s /\ Pending(s).st = "PENDING"
      /\ Blocks(Pending(s))
  BY DEF Pending, Rows, Statuses, Blocks
<1> QED
  BY <1>1 DEF NoRow

(* The processes start with nothing known and nothing sent.                 *)
LEMMA InitRegInv == Init => RegInv
<1> SUFFICES ASSUME Init
             PROVE  RegInv
  OBVIOUS
<1>1. TypeOK
  BY DEF Init, TypeOK, NoHolds, HoldMap, Calls
<1>2. \A p \in Procs : ~Busy(p)
  BY DEF Init, Busy, Down
<1>3. \A c \in Clients : ~MayExpose(c) /\ row[c] = NoRow /\ request[c] = NoRequest
  BY DEF Init, MayExpose, NoRequest
<1>4. \A p \in Procs, c \in Clients : order[p][c] = NoOrder
  BY DEF Init
<1>5. \A p \in Procs : absent[p] = NoClient
  BY DEF Init
<1> QED
  BY <1>1, <1>2, <1>3, <1>4, <1>5
     DEF RegInv, CallInv, OneCaller, OneBlocker, ExposureIsDurable, WantedIsHeld,
         RequestHasRow, OrderHasRow, AbsentIsKnown

(* A step that only touches memories, and lets go of nothing.               *)
LEMMA MemoryOnly ==
    ASSUME RegInv, TypeOK', AbsentIsKnown',
           UNCHANGED <<row, request>>,
           \A q \in Procs : (Busy(q)' <=> Busy(q)) /\ (Busy(q) => call'[q] = call[q]),
           \A q \in Procs, c \in Clients : order'[q][c] # NoOrder <=> order[q][c] # NoOrder,
           \A q \in Procs, s \in Symbols :
                blocking[q][s] # NoClient => blocking'[q][s] # NoClient
    PROVE  RegInv'
<1>1. \A q \in Procs : CallInv(q)'
  <2> SUFFICES ASSUME NEW q \in Procs, Busy(q)
               PROVE  CallInv(q)'
    BY DEF CallInv
  <2>1. call'[q] = call[q] /\ call[q].cid \in Clients
    BY BusyFacts DEF RegInv
  <2> QED
    BY <2>1 DEF RegInv, CallInv
<1>2. OneCaller'
  BY DEF RegInv, OneCaller
<1>3. OneBlocker' /\ ExposureIsDurable' /\ RequestHasRow'
  BY DEF RegInv, OneBlocker, ExposureIsDurable, RequestHasRow, MayExpose
<1>4. OrderHasRow'
  BY DEF RegInv, OrderHasRow
<1>5. WantedIsHeld'
  <2> SUFFICES ASSUME NEW q \in Procs, NEW c \in Clients, order'[q][c] # NoOrder, Wanted(c)'
               PROVE  blocking'[q][row[c].sym] # NoClient
    BY DEF WantedIsHeld
  <2>1. Wanted(c)
    BY DEF Wanted, MayExpose, Busy
  <2>2. row[c] # NoRow /\ row[c].sym \in Symbols
    BY Shapes DEF RegInv, OrderHasRow, Rows
  <2> QED
    BY <2>1, <2>2 DEF RegInv, WantedIsHeld
<1> QED
  BY <1>1, <1>2, <1>3, <1>4, <1>5 DEF RegInv
-----------------------------------------------------------------------------
(* The answer of an order is filed: the call ends, the row of the order may *)
(* change, and only an order the broker does not hold loses its hold.       *)
LEMMA EndsCall ==
    ASSUME RegInv, NEW p \in Procs, Busy(p), TypeOK',
           call' = [call EXCEPT ![p] = Idle],
           UNCHANGED <<request, absent>>,
           \A d \in Clients : d # call[p].cid => row'[d] = row[d],
           row'[call[p].cid] \in Rows,
           row'[call[p].cid].sym = call[p].sym,
           MayExpose(call[p].cid) => Blocks(row'[call[p].cid]),
           \A q \in Procs, c \in Clients : order'[q][c] # NoOrder <=> order[q][c] # NoOrder,
           \A q \in Procs, s \in Symbols :
                blocking[q][s] # NoClient =>
                    \/ blocking'[q][s] # NoClient
                    \/ s = call[p].sym /\ ~MayExpose(call[p].cid)
    PROVE  RegInv'
<1> DEFINE c == call[p].cid
           s == call[p].sym
<1>1. c \in Clients /\ s \in Symbols
  BY BusyFacts DEF RegInv
<1>2. row[c] = Pending(s) /\ row[c] # NoRow /\ row[c].sym = s /\ Blocks(row[c])
  BY <1>1, PendingFacts DEF RegInv, CallInv
<1>3. \A d \in Clients : /\ row'[d] # NoRow <=> row[d] # NoRow
                         /\ row[d] # NoRow => row'[d].sym = row[d].sym
                         /\ row'[d] # NoRow /\ Blocks(row'[d]) => Blocks(row[d])
  BY <1>1, <1>2 DEF Rows, NoRow
<1>4. \A q \in Procs : /\ Busy(q)' => Busy(q) /\ q # p /\ call'[q] = call[q]
                       /\ Busy(q)' => call[q].cid \in Clients /\ call[q].cid # c
  <2> SUFFICES ASSUME NEW q \in Procs, Busy(q)'
               PROVE  Busy(q) /\ q # p /\ call'[q] = call[q]
                      /\ call[q].cid \in Clients /\ call[q].cid # c
    OBVIOUS
  <2>1. Busy(q) /\ q # p /\ call'[q] = call[q]
    BY DEF Busy, Idle, RegInv, TypeOK
  <2> QED
    BY <2>1, BusyFacts DEF RegInv, OneCaller
<1>5. \A q \in Procs : CallInv(q)'
  BY <1>1, <1>4 DEF RegInv, CallInv
<1>6. OneCaller'
  BY <1>4 DEF RegInv, OneCaller
<1>7. OneBlocker'
  BY <1>3 DEF RegInv, OneBlocker
<1>8. ExposureIsDurable'
  BY <1>1, <1>3 DEF RegInv, ExposureIsDurable, MayExpose
<1>9. RequestHasRow' /\ OrderHasRow' /\ AbsentIsKnown'
  <2>1. RequestHasRow' /\ OrderHasRow'
    BY <1>3 DEF RegInv, RequestHasRow, OrderHasRow
  <2>2. \A q \in Procs : Up(q) => Up(q)'
    BY DEF RegInv, TypeOK, Up, Idle
  <2>3. AbsentIsKnown'
    BY <2>2 DEF RegInv, AbsentIsKnown, TypeOK
  <2> QED
    BY <2>1, <2>3
<1>10. WantedIsHeld'
  <2> SUFFICES ASSUME NEW q \in Procs, NEW d \in Clients, order'[q][d] # NoOrder, Wanted(d)'
               PROVE  blocking'[q][row'[d].sym] # NoClient
    BY DEF WantedIsHeld
  <2>1. row[d] # NoRow /\ row[d].sym \in Symbols /\ row'[d].sym = row[d].sym
    BY <1>3, Shapes DEF RegInv, OrderHasRow, Rows
  <2>2. Wanted(d) /\ (d = c => MayExpose(c))
    BY <1>4 DEF Wanted, MayExpose, Busy
  <2>3. Blocks(row[d])
    <3>1. CASE MayExpose(d)
      BY <3>1 DEF RegInv, ExposureIsDurable
    <3>2. ASSUME NEW r \in Procs, call[r].at = "reserved", call[r].cid = d
          PROVE  Blocks(row[d])
      <4>1. Busy(r)
        BY <3>2 DEF Busy
      <4> QED
        BY <3>2, <4>1, BusyFacts, PendingFacts DEF RegInv, CallInv
    <3> QED
      BY <2>2, <3>1, <3>2 DEF Wanted
  <2>4. row[d].sym = s => d = c
    BY <1>1, <1>2, <2>1, <2>3 DEF RegInv, OneBlocker
  <2>5. blocking[q][row[d].sym] # NoClient
    BY <2>1, <2>2 DEF RegInv, WantedIsHeld
  <2> QED
    BY <2>1, <2>2, <2>4, <2>5
<1> QED
  BY <1>5, <1>6, <1>7, <1>8, <1>9, <1>10 DEF RegInv
-----------------------------------------------------------------------------
(* Start-up and the end of a process                                        *)

(* Every snapshot holds the instrument of each of its orders.               *)
LEMMA HoldsOfFacts ==
    ASSUME NEW cs, NEW h \in HoldsOf(cs)
    PROVE  /\ h \in HoldMap
           /\ \A c \in cs : /\ cs \subseteq Clients /\ row[c].sym \in Symbols
                            => h[row[c].sym] # NoClient
<1>1. h \in HoldMap
  BY DEF HoldsOf
<1>2. ASSUME NEW c \in cs, cs \subseteq Clients, row[c].sym \in Symbols
      PROVE  h[row[c].sym] # NoClient
  <2>1. c \in {d \in cs : row[d].sym = row[c].sym}
    OBVIOUS
  <2>2. h[row[c].sym] \in {d \in cs : row[d].sym = row[c].sym}
    BY <1>2, <2>1 DEF HoldsOf
  <2> QED
    BY <1>2, <2>2, NoClientAssumption
<1> QED
  BY <1>1, <1>2

LEMMA StartInv ==
    ASSUME RegInv, NEW p \in Procs, Start(p)
    PROVE  RegInv'
<1> DEFINE known(c) == [sym |-> row[c].sym, st |-> row[c].st,
                        brokerId |-> row[c].st \in {"PARTIAL", "FILLED"}]
<1>1. call[p] = Down /\ call' = [call EXCEPT ![p] = Idle]
  BY DEF Start
<1>2. \A q \in Procs : (Busy(q)' <=> Busy(q)) /\ (Busy(q) => call'[q] = call[q])
  BY <1>1 DEF Busy, Down, Idle, RegInv, TypeOK
<1>3. \A c \in Clients : c \in Selected => known(c) \in Orders
  BY DEF Selected, Orders, Rows, RegInv, TypeOK
<1>4. \A q \in Procs, c \in Clients :
        order'[q][c] = IF q = p THEN (IF c \in Selected THEN known(c) ELSE NoOrder)
                       ELSE order[q][c]
  BY DEF Start, RegInv, TypeOK
<1> HIDE DEF known
<1>5. order' \in [Procs -> [Clients -> Orders \cup {NoOrder}]]
  <2>1. order' = [order EXCEPT ![p] = order'[p]]
    BY <1>4 DEF Start, RegInv, TypeOK
  <2>2. order'[p] = [c \in Clients |-> IF c \in Selected THEN known(c) ELSE NoOrder]
    BY DEF Start, RegInv, TypeOK, known
  <2>3. order'[p] \in [Clients -> Orders \cup {NoOrder}]
    BY <1>3, <2>2
  <2> QED
    BY <2>1, <2>3 DEF RegInv, TypeOK
<1>6. PICK b \in HoldsOf(Selected) : blocking' = [blocking EXCEPT ![p] = b]
  BY DEF Start
<1>7. PICK u \in HoldsOf({c \in Selected : row[c].st = "UNRESOLVED"}) :
        unresolved' = [unresolved EXCEPT ![p] = u]
  BY DEF Start
<1>8. PICK e \in HoldsOf({c \in Selected : Exposing(row[c])}) :
        exposure' = [exposure EXCEPT ![p] = e]
  BY DEF Start
<1>9. TypeOK'
  <2>1. b \in HoldMap /\ u \in HoldMap /\ e \in HoldMap
    BY HoldsOfFacts
  <2>2. /\ blocking' \in [Procs -> HoldMap]
        /\ unresolved' \in [Procs -> HoldMap]
        /\ exposure' \in [Procs -> HoldMap]
    BY <1>6, <1>7, <1>8, <2>1 DEF RegInv, TypeOK
  <2>3. call' \in [Procs -> Calls]
    BY <1>1 DEF RegInv, TypeOK, Calls
  <2> QED
    BY <1>5, <2>2, <2>3 DEF Start, RegInv, TypeOK, thread
<1>10. \A q \in Procs : CallInv(q)'
  <2> SUFFICES ASSUME NEW q \in Procs, Busy(q)
               PROVE  CallInv(q)'
    BY <1>2 DEF CallInv
  <2>1. call'[q] = call[q] /\ call[q].cid \in Clients /\ q # p
    BY <1>1, <1>2, BusyFacts DEF RegInv, Busy, Down
  <2> QED
    BY <1>4, <2>1 DEF RegInv, CallInv, Start
<1>11. OneCaller'
  BY <1>2 DEF RegInv, OneCaller
<1>12. OneBlocker' /\ ExposureIsDurable' /\ RequestHasRow'
  BY DEF RegInv, OneBlocker, ExposureIsDurable, RequestHasRow, MayExpose, Start
<1>13. OrderHasRow'
  BY <1>4 DEF RegInv, OrderHasRow, Selected, Start
<1>14. \A c \in Clients : Wanted(c)' => Wanted(c) /\ row[c] # NoRow /\ Blocks(row[c])
                                        /\ row[c].sym \in Symbols
  <2> SUFFICES ASSUME NEW c \in Clients, Wanted(c)'
               PROVE  Wanted(c) /\ row[c] # NoRow /\ Blocks(row[c]) /\ row[c].sym \in Symbols
    OBVIOUS
  <2>1. Wanted(c)
    BY <1>2 DEF Wanted, MayExpose, Busy, Start
  <2>2. row[c] # NoRow /\ Blocks(row[c])
    <3>1. CASE MayExpose(c)
      BY <3>1 DEF RegInv, ExposureIsDurable
    <3>2. ASSUME NEW r \in Procs, call[r].at = "reserved", call[r].cid = c
          PROVE  row[c] # NoRow /\ Blocks(row[c])
      <4>1. Busy(r)
        BY <3>2 DEF Busy
      <4> QED
        BY <3>2, <4>1, BusyFacts, PendingFacts DEF RegInv, CallInv
    <3> QED
      BY <2>1, <3>1, <3>2 DEF Wanted
  <2> QED
    BY <2>1, <2>2, Shapes DEF RegInv, Rows
<1>15. WantedIsHeld'
  <2> SUFFICES ASSUME NEW q \in Procs, NEW c \in Clients, order'[q][c] # NoOrder, Wanted(c)'
               PROVE  blocking'[q][row[c].sym] # NoClient
    BY DEF WantedIsHeld, Start
  <2>1. CASE q = p
    <3>1. c \in Selected /\ Selected \subseteq Clients /\ row[c].sym \in Symbols
      BY <1>14 DEF Selected
    <3>2. b[row[c].sym] # NoClient
      BY <3>1, HoldsOfFacts
    <3> QED
      BY <1>6, <2>1, <3>2 DEF RegInv, TypeOK
  <2>2. CASE q # p
    BY <1>4, <1>6, <1>14, <2>2 DEF RegInv, WantedIsHeld, TypeOK
  <2> QED
    BY <2>1, <2>2
<1>16. AbsentIsKnown'
  <2>1. \A q \in Procs : absent[q] # NoClient => absent[q] \in Clients
    BY DEF RegInv, TypeOK
  <2>2. absent[p] = NoClient
    BY <1>1 DEF RegInv, AbsentIsKnown, Up, Down
  <2>3. \A q \in Procs : q # p => call'[q] = call[q]
    BY <1>1 DEF RegInv, TypeOK
  <2> QED
    BY <1>4, <2>1, <2>2, <2>3 DEF RegInv, AbsentIsKnown, Start, thread, Up
<1> QED
  BY <1>9, <1>10, <1>11, <1>12, <1>13, <1>15, <1>16 DEF RegInv

LEMMA StartUnreadableInv ==
    ASSUME RegInv, NEW p \in Procs, StartUnreadable(p)
    PROVE  RegInv'
<1>1. call[p] = Down /\ call' = [call EXCEPT ![p] = Idle]
  BY DEF StartUnreadable
<1>2. \A q \in Procs : (Busy(q)' <=> Busy(q)) /\ (Busy(q) => call'[q] = call[q])
                       /\ (Up(q) => Up(q)')
  BY <1>1 DEF Busy, Up, Down, Idle, RegInv, TypeOK
<1>3. call' \in [Procs -> Calls]
  BY <1>1 DEF RegInv, TypeOK, Calls
<1>4. TypeOK'
  BY <1>3 DEF StartUnreadable, RegInv, TypeOK, holds, thread
<1>5. AbsentIsKnown'
  BY <1>2 DEF StartUnreadable, RegInv, AbsentIsKnown, thread
<1> QED
  BY <1>2, <1>4, <1>5, MemoryOnly DEF StartUnreadable, holds

LEMMA CrashInv ==
    ASSUME RegInv, NEW p \in Procs, Crash(p)
    PROVE  RegInv'
<1>1. call' = [call EXCEPT ![p] = Down]
  BY DEF Crash
<1>2. \A q \in Procs : /\ Busy(q)' => Busy(q) /\ q # p /\ call'[q] = call[q]
                       /\ q # p => call'[q] = call[q]
  BY <1>1 DEF Busy, Down, RegInv, TypeOK
<1>3. \A q \in Procs, c \in Clients :
        order'[q][c] = IF q = p THEN NoOrder ELSE order[q][c]
  BY DEF Crash, RegInv, TypeOK
<1>4. TypeOK'
  <2>1. call' \in [Procs -> Calls]
    BY <1>1 DEF RegInv, TypeOK, Calls
  <2>2. NoHolds \in HoldMap /\ [c \in Clients |-> NoOrder] \in [Clients -> Orders \cup {NoOrder}]
    BY DEF NoHolds, HoldMap
  <2>3. /\ blocking' \in [Procs -> HoldMap]
        /\ unresolved' \in [Procs -> HoldMap]
        /\ exposure' \in [Procs -> HoldMap]
        /\ order' \in [Procs -> [Clients -> Orders \cup {NoOrder}]]
    BY <2>2 DEF Crash, RegInv, TypeOK
  <2>4. /\ latch' \in [Procs -> BOOLEAN]
        /\ position' \in [Procs -> SUBSET Symbols]
        /\ imported' \in [Procs -> SUBSET Symbols]
        /\ absent' \in [Procs -> Clients \cup {NoClient}]
    BY DEF Crash, RegInv, TypeOK
  <2> QED
    BY <2>1, <2>3, <2>4 DEF Crash, RegInv, TypeOK
<1>5. \A q \in Procs : CallInv(q)'
  <2> SUFFICES ASSUME NEW q \in Procs, Busy(q)'
               PROVE  CallInv(q)'
    BY DEF CallInv
  <2>1. call'[q] = call[q] /\ call[q].cid \in Clients /\ q # p /\ Busy(q)
    BY <1>2, BusyFacts DEF RegInv
  <2> QED
    BY <1>3, <2>1 DEF RegInv, CallInv, Crash
<1>6. OneCaller'
  BY <1>2 DEF RegInv, OneCaller
<1>7. OneBlocker' /\ ExposureIsDurable' /\ RequestHasRow'
  BY DEF RegInv, OneBlocker, ExposureIsDurable, RequestHasRow, MayExpose, Crash
<1>8. OrderHasRow'
  BY <1>3 DEF RegInv, OrderHasRow, Crash
<1>9. WantedIsHeld'
  <2> SUFFICES ASSUME NEW q \in Procs, NEW c \in Clients, order'[q][c] # NoOrder, Wanted(c)'
               PROVE  blocking'[q][row[c].sym] # NoClient
    BY DEF WantedIsHeld, Crash
  <2>1. Wanted(c)
    BY <1>2 DEF Wanted, MayExpose, Busy, Crash
  <2>2. q # p /\ order[q][c] # NoOrder
    BY <1>3
  <2>3. blocking'[q] = blocking[q]
    BY <2>2 DEF Crash, RegInv, TypeOK
  <2> QED
    BY <2>1, <2>2, <2>3 DEF RegInv, WantedIsHeld
<1>10. AbsentIsKnown'
  <2>1. \A q \in Procs : absent'[q] = IF q = p THEN NoClient ELSE absent[q]
    BY DEF Crash, RegInv, TypeOK
  <2>2. \A q \in Procs : absent[q] # NoClient => absent[q] \in Clients
    BY DEF RegInv, TypeOK
  <2> QED
    BY <1>2, <1>3, <2>1, <2>2 DEF RegInv, AbsentIsKnown, Up
<1> QED
  BY <1>4, <1>5, <1>6, <1>7, <1>8, <1>9, <1>10 DEF RegInv
-----------------------------------------------------------------------------
(* try_begin_order_submission                                               *)

(* A process takes the hold of an instrument.                               *)
LEMMA HoldTaken ==
    ASSUME TypeOK, NEW p \in Procs, NEW s \in Symbols, NEW c \in Clients,
           blocking' = [blocking EXCEPT ![p][s] = c]
    PROVE  /\ blocking' \in [Procs -> HoldMap]
           /\ \A q \in Procs, t \in Symbols :
                blocking[q][t] # NoClient => blocking'[q][t] # NoClient
           /\ blocking'[p][s] # NoClient
<1>1. blocking \in [Procs -> HoldMap] /\ c # NoClient
  BY NoClientAssumption DEF TypeOK
<1>2. blocking' \in [Procs -> HoldMap]
  BY <1>1 DEF HoldMap
<1>3. \A q \in Procs, t \in Symbols :
        blocking'[q][t] = IF q = p /\ t = s THEN c ELSE blocking[q][t]
  BY <1>1 DEF HoldMap
<1> QED
  BY <1>1, <1>2, <1>3

(* The insertion of a row under the advisory lock: the id is new to every   *)
(* process and to the broker, and the instrument has no other blocking row. *)
LEMMA RowInserted ==
    ASSUME RegInv, NEW s \in Symbols, NEW c \in Clients,
           ~RowBlocked(s), row[c] = NoRow,
           row' = [row EXCEPT ![c] = Pending(s)],
           UNCHANGED request
    PROVE  /\ row' \in [Clients -> Rows \cup {NoRow}]
           /\ \A d \in Clients : row'[d] = IF d = c THEN Pending(s) ELSE row[d]
           /\ OneBlocker' /\ ExposureIsDurable' /\ RequestHasRow'
           /\ request[c] = NoRequest /\ ~MayExpose(c)
           /\ \A q \in Procs : order[q][c] = NoOrder
           /\ \A q \in Procs : Busy(q) => call[q].cid \in Clients /\ call[q].cid # c
<1>1. Pending(s) \in Rows /\ Pending(s) # NoRow /\ Pending(s).sym = s
  BY PendingFacts
<1>2. \A d \in Clients : row'[d] = IF d = c THEN Pending(s) ELSE row[d]
  BY DEF RegInv, TypeOK
<1>3. row' \in [Clients -> Rows \cup {NoRow}]
  BY <1>1 DEF RegInv, TypeOK
<1>4. request[c] = NoRequest /\ ~MayExpose(c)
  BY Shapes DEF RegInv, RequestHasRow
<1>5. \A q \in Procs : order[q][c] = NoOrder
  BY DEF RegInv, OrderHasRow
<1>6. \A q \in Procs : Busy(q) => call[q].cid \in Clients /\ call[q].cid # c
  BY <1>5, BusyFacts DEF RegInv, CallInv
<1>7. OneBlocker'
  BY <1>1, <1>2 DEF RegInv, OneBlocker, RowBlocked
<1>8. ExposureIsDurable'
  BY <1>2, <1>4 DEF RegInv, ExposureIsDurable, MayExpose
<1>9. RequestHasRow'
  BY <1>1, <1>2 DEF RegInv, RequestHasRow
<1> QED
  BY <1>2, <1>3, <1>4, <1>5, <1>6, <1>7, <1>8, <1>9

LEMMA ReserveInv ==
    ASSUME RegInv, NEW p \in Procs, NEW s \in Symbols, NEW c \in Clients, Reserve(p, s, c)
    PROVE  RegInv'
<1> DEFINE new == [sym |-> s, st |-> "PENDING", brokerId |-> FALSE]
           mine == [at |-> "reserved", sym |-> s, cid |-> c]
<1>1. /\ call[p] = Idle /\ ~RowBlocked(s) /\ row[c] = NoRow
      /\ row' = [row EXCEPT ![c] = Pending(s)]
      /\ blocking' = [blocking EXCEPT ![p][s] = c]
      /\ order' = [order EXCEPT ![p][c] = new]
      /\ call' = [call EXCEPT ![p] = mine]
      /\ UNCHANGED <<unresolved, exposure, latch, position, imported, absent, request>>
  BY DEF Reserve, MayReserve, thread
<1>2. /\ row' \in [Clients -> Rows \cup {NoRow}]
      /\ \A d \in Clients : row'[d] = IF d = c THEN Pending(s) ELSE row[d]
      /\ OneBlocker' /\ ExposureIsDurable' /\ RequestHasRow'
      /\ request[c] = NoRequest /\ ~MayExpose(c)
      /\ \A q \in Procs : order[q][c] = NoOrder
      /\ \A q \in Procs : Busy(q) => call[q].cid \in Clients /\ call[q].cid # c
  BY <1>1, RowInserted
<1>3. new \in Orders /\ new # NoOrder /\ mine \in Calls
  BY DEF Orders, Statuses, NoOrder, Calls
<1>4. \A q \in Procs, d \in Clients :
        order'[q][d] = IF q = p /\ d = c THEN new ELSE order[q][d]
  BY <1>1 DEF RegInv, TypeOK
<1>5. \A q \in Procs : call'[q] = IF q = p THEN mine ELSE call[q]
  BY <1>1 DEF RegInv, TypeOK
<1>6. \A q \in Procs : /\ Busy(q)' => q = p \/ (q # p /\ Busy(q))
                       /\ Up(q) => Up(q)'
  BY <1>5 DEF Busy, Up
<1>7. /\ blocking' \in [Procs -> HoldMap]
      /\ \A q \in Procs, t \in Symbols :
            blocking[q][t] # NoClient => blocking'[q][t] # NoClient
      /\ blocking'[p][s] # NoClient
  BY <1>1, HoldTaken DEF RegInv
<1>8. TypeOK'
  <2>1. order' \in [Procs -> [Clients -> Orders \cup {NoOrder}]]
    BY <1>1, <1>3 DEF RegInv, TypeOK
  <2>2. call' \in [Procs -> Calls]
    BY <1>1, <1>3 DEF RegInv, TypeOK
  <2> QED
    BY <1>1, <1>2, <1>7, <2>1, <2>2 DEF RegInv, TypeOK
<1>9. \A q \in Procs : CallInv(q)'
  <2>1. CallInv(p)'
    BY <1>1, <1>2, <1>3, <1>4, <1>5 DEF CallInv
  <2>2. ASSUME NEW q \in Procs, q # p, Busy(q)
        PROVE  CallInv(q)'
    BY <1>1, <1>2, <1>4, <1>5, <2>2 DEF RegInv, CallInv
  <2> QED
    BY <1>6, <2>1, <2>2 DEF CallInv
<1>10. OneCaller'
  <2>1. \A q \in Procs : q # p /\ Busy(q) => call'[q] = call[q] /\ call[q].cid # call'[p].cid
    BY <1>2, <1>5
  <2> QED
    BY <1>6, <2>1 DEF RegInv, OneCaller
<1>11. OrderHasRow'
  <2>1. Pending(s) # NoRow
    BY PendingFacts
  <2> QED
    BY <1>2, <1>4, <2>1 DEF RegInv, OrderHasRow
<1>12. WantedIsHeld'
  <2> SUFFICES ASSUME NEW q \in Procs, NEW d \in Clients, order'[q][d] # NoOrder, Wanted(d)'
               PROVE  blocking'[q][row'[d].sym] # NoClient
    BY DEF WantedIsHeld
  <2>1. CASE d = c
    <3>1. q = p
      BY <1>2, <1>4, <2>1
    <3> QED
      BY <1>2, <1>7, <2>1, <3>1, PendingFacts
  <2>2. CASE d # c
    <3>1. Wanted(d)
      BY <1>1, <1>5, <2>2 DEF Wanted, MayExpose
    <3>2. order[q][d] # NoOrder /\ row'[d] = row[d]
      BY <1>2, <1>4, <2>2
    <3>3. row[d].sym \in Symbols
      BY <3>2, Shapes DEF RegInv, OrderHasRow, Rows
    <3> QED
      BY <1>7, <3>1, <3>2, <3>3 DEF RegInv, WantedIsHeld
  <2> QED
    BY <2>1, <2>2
<1>13. AbsentIsKnown'
  <2>1. \A q \in Procs : absent[q] # NoClient => absent[q] \in Clients
    BY DEF RegInv, TypeOK
  <2> QED
    BY <1>1, <1>3, <1>4, <1>6, <2>1 DEF RegInv, AbsentIsKnown
<1> QED
  BY <1>2, <1>8, <1>9, <1>10, <1>11, <1>12, <1>13 DEF RegInv

LEMMA ReserveBlockedInv ==
    ASSUME RegInv, NEW p \in Procs, NEW s \in Symbols, NEW c \in Clients,
           ReserveBlocked(p, s, c)
    PROVE  RegInv'
<1>1. /\ blocking' \in [Procs -> HoldMap]
      /\ \A q \in Procs, t \in Symbols :
            blocking[q][t] # NoClient => blocking'[q][t] # NoClient
  BY HoldTaken DEF ReserveBlocked, RegInv
<1>2. UNCHANGED <<row, order, unresolved, exposure, latch, position, call, imported, absent, request>>
  BY DEF ReserveBlocked, thread
<1>3. TypeOK'
  BY <1>1, <1>2 DEF RegInv, TypeOK
<1>4. AbsentIsKnown' /\ \A q \in Procs : (Busy(q)' <=> Busy(q))
  BY <1>2 DEF RegInv, AbsentIsKnown, Busy, Up
<1> QED
  BY <1>1, <1>2, <1>3, <1>4, MemoryOnly

LEMMA ReserveFailsInv ==
    ASSUME RegInv, NEW p \in Procs, NEW s \in Symbols, NEW c \in Clients,
           ReserveFails(p, s, c)
    PROVE  RegInv'
<1>1. /\ blocking' \in [Procs -> HoldMap]
      /\ \A q \in Procs, t \in Symbols :
            blocking[q][t] # NoClient => blocking'[q][t] # NoClient
  BY HoldTaken DEF ReserveFails, RegInv
<1>2. /\ UNCHANGED <<order, unresolved, exposure, position, call, imported, absent, request>>
      /\ latch' = [latch EXCEPT ![p] = TRUE]
  BY DEF ReserveFails, thread
<1>3. AbsentIsKnown' /\ \A q \in Procs : (Busy(q)' <=> Busy(q))
  BY <1>2 DEF RegInv, AbsentIsKnown, Busy, Up
<1>4. CASE UNCHANGED row
  <2>1. TypeOK'
    BY <1>1, <1>2, <1>4 DEF RegInv, TypeOK
  <2> QED
    BY <1>1, <1>2, <1>3, <1>4, <2>1, MemoryOnly
<1>5. CASE ~RowBlocked(s) /\ row[c] = NoRow /\ row' = [row EXCEPT ![c] = Pending(s)]
  <2>1. /\ row' \in [Clients -> Rows \cup {NoRow}]
        /\ \A d \in Clients : row'[d] = IF d = c THEN Pending(s) ELSE row[d]
        /\ OneBlocker' /\ ExposureIsDurable' /\ RequestHasRow'
        /\ \A q \in Procs : order[q][c] = NoOrder
        /\ \A q \in Procs : Busy(q) => call[q].cid \in Clients /\ call[q].cid # c
    BY <1>2, <1>5, RowInserted
  <2>2. TypeOK'
    BY <1>1, <1>2, <2>1 DEF RegInv, TypeOK
  <2>3. (\A q \in Procs : CallInv(q)') /\ OneCaller'
    <3>1. OneCaller'
      BY <1>2, <1>3 DEF RegInv, OneCaller
    <3>2. ASSUME NEW q \in Procs, Busy(q)
          PROVE  CallInv(q)'
      BY <1>2, <2>1, <3>2 DEF RegInv, CallInv
    <3> QED
      BY <1>3, <3>1, <3>2 DEF CallInv
  <2>4. OrderHasRow'
    BY <1>2, <2>1 DEF RegInv, OrderHasRow
  <2>5. WantedIsHeld'
    <3> SUFFICES ASSUME NEW q \in Procs, NEW d \in Clients, order'[q][d] # NoOrder, Wanted(d)'
                 PROVE  blocking'[q][row'[d].sym] # NoClient
      BY DEF WantedIsHeld
    <3>1. order[q][d] # NoOrder /\ row'[d] = row[d] /\ Wanted(d)
      BY <1>2, <2>1 DEF Wanted, MayExpose
    <3>2. row[d].sym \in Symbols
      BY <3>1, Shapes DEF RegInv, OrderHasRow, Rows
    <3> QED
      BY <1>1, <3>1, <3>2 DEF RegInv, WantedIsHeld
  <2> QED
    BY <1>3, <2>1, <2>2, <2>3, <2>4, <2>5 DEF RegInv
<1> QED
  BY <1>4, <1>5 DEF ReserveFails

LEMMA NoConnectionInv ==
    ASSUME RegInv, NEW p \in Procs, NEW s \in Symbols, NEW c \in Clients,
           NoConnection(p, s, c)
    PROVE  RegInv'
<1>1. /\ UNCHANGED <<row, order, blocking, unresolved, exposure, position, call, imported, absent, request>>
      /\ latch' = [latch EXCEPT ![p] = TRUE]
  BY DEF NoConnection, holds, thread
<1>2. TypeOK'
  BY <1>1 DEF RegInv, TypeOK
<1>3. AbsentIsKnown' /\ \A q \in Procs : (Busy(q)' <=> Busy(q))
  BY <1>1 DEF RegInv, AbsentIsKnown, Busy, Up
<1> QED
  BY <1>1, <1>2, <1>3, MemoryOnly
-----------------------------------------------------------------------------
(* The submission and its answer                                            *)

LEMMA SubmitInv ==
    ASSUME RegInv, NEW p \in Procs, Submit(p)
    PROVE  RegInv'
<1> DEFINE c == call[p].cid
           s == call[p].sym
           sent == [sym |-> s, st |-> "SENT"]
           mine == [call[p] EXCEPT !.at = "submitted"]
<1>1. /\ call[p].at = "reserved"
      /\ request' = [request EXCEPT ![c] = sent]
      /\ call' = [call EXCEPT ![p] = mine]
      /\ UNCHANGED <<row, order, blocking, unresolved, exposure, latch, position, imported, absent>>
  BY DEF Submit, holds, thread
<1>2. Busy(p) /\ c \in Clients /\ s \in Symbols
      /\ call[p] \in [at : {"reserved", "submitted"}, sym : Symbols, cid : Clients]
  BY <1>1, BusyFacts DEF Busy, RegInv
<1>3. mine \in Calls /\ mine.at = "submitted" /\ mine.cid = c /\ mine.sym = s
  BY <1>2 DEF Calls
<1>4. row[c] = Pending(s) /\ request[c] = NoRequest
  BY <1>1, <1>2 DEF RegInv, CallInv
<1>5. sent \in Requests /\ sent # NoRequest /\ sent.sym = s
  BY <1>2 DEF Requests, NoRequest
<1> HIDE DEF mine, sent
<1>6. \A q \in Procs : call'[q] = IF q = p THEN mine ELSE call[q]
  BY <1>1 DEF RegInv, TypeOK
<1>7. \A d \in Clients : request'[d] = IF d = c THEN sent ELSE request[d]
  BY <1>1, <1>2 DEF RegInv, TypeOK
<1>8. \A q \in Procs : /\ Busy(q)' <=> Busy(q)
                       /\ Up(q)' <=> Up(q)
                       /\ call'[q].cid = call[q].cid
                       /\ q # p /\ Busy(q) => call[q].cid \in Clients /\ call[q].cid # c
  <2>1. \A q \in Procs : /\ Busy(q)' <=> Busy(q)
                         /\ Up(q)' <=> Up(q)
                         /\ call'[q].cid = call[q].cid
    BY <1>1, <1>3, <1>6 DEF Busy, Up
  <2>2. \A q \in Procs : q # p /\ Busy(q) => call[q].cid \in Clients /\ call[q].cid # c
    BY <1>2, BusyFacts DEF RegInv, OneCaller
  <2> QED
    BY <2>1, <2>2
<1>9. TypeOK'
  <2>1. call' \in [Procs -> Calls]
    BY <1>1, <1>3 DEF RegInv, TypeOK
  <2>2. request' \in [Clients -> Requests \cup {NoRequest}]
    BY <1>1, <1>5 DEF RegInv, TypeOK
  <2> QED
    BY <1>1, <2>1, <2>2 DEF RegInv, TypeOK
<1>10. \A q \in Procs : CallInv(q)'
  <2>1. CallInv(p)'
    BY <1>1, <1>2, <1>3, <1>4, <1>5, <1>6, <1>7 DEF RegInv, CallInv
  <2>2. ASSUME NEW q \in Procs, q # p, Busy(q)
        PROVE  CallInv(q)'
    BY <1>1, <1>6, <1>7, <1>8, <2>2 DEF RegInv, CallInv
  <2> QED
    BY <1>8, <2>1, <2>2 DEF CallInv
<1>11. OneCaller'
  BY <1>8 DEF RegInv, OneCaller
<1>12. OneBlocker' /\ OrderHasRow'
  BY <1>1 DEF RegInv, OneBlocker, OrderHasRow
<1>13. ExposureIsDurable' /\ RequestHasRow'
  <2>1. row[c] # NoRow /\ row[c].sym = s /\ Blocks(row[c])
    BY <1>2, <1>4, PendingFacts
  <2> QED
    BY <1>1, <1>5, <1>7, <2>1 DEF RegInv, ExposureIsDurable, RequestHasRow, MayExpose
<1>14. WantedIsHeld'
  <2> SUFFICES ASSUME NEW q \in Procs, NEW d \in Clients, order[q][d] # NoOrder, Wanted(d)'
               PROVE  blocking[q][row[d].sym] # NoClient
    BY <1>1 DEF WantedIsHeld
  <2>1. Wanted(d)
    BY <1>1, <1>3, <1>6, <1>7 DEF Wanted, MayExpose
  <2> QED
    BY <2>1 DEF RegInv, WantedIsHeld
<1>15. AbsentIsKnown'
  BY <1>1, <1>8 DEF RegInv, AbsentIsKnown
<1> QED
  BY <1>9, <1>10, <1>11, <1>12, <1>13, <1>14, <1>15 DEF RegInv

(* What EndsCall asks of the call, the row and the order of a busy process. *)
LEMMA BusyRow ==
    ASSUME RegInv, NEW p \in Procs, Busy(p)
    PROVE  /\ call[p].cid \in Clients /\ call[p].sym \in Symbols
           /\ row[call[p].cid] \in Rows /\ row[call[p].cid] # NoRow
           /\ row[call[p].cid].sym = call[p].sym /\ row[call[p].cid].st = "PENDING"
           /\ Blocks(row[call[p].cid])
           /\ order[p][call[p].cid] \in Orders /\ order[p][call[p].cid] # NoOrder
           /\ [call EXCEPT ![p] = Idle] \in [Procs -> Calls]
<1>1. call[p].cid \in Clients /\ call[p].sym \in Symbols
  BY BusyFacts DEF RegInv
<1>2. row[call[p].cid] = Pending(call[p].sym) /\ order[p][call[p].cid] # NoOrder
  BY <1>1 DEF RegInv, CallInv
<1>3. order[p][call[p].cid] \in Orders
  BY <1>1, <1>2, Shapes DEF RegInv
<1>4. [call EXCEPT ![p] = Idle] \in [Procs -> Calls]
  BY DEF RegInv, TypeOK, Calls
<1> QED
  BY <1>1, <1>2, <1>3, <1>4, PendingFacts

(* A write to the row of a busy process, applied or not.                    *)
LEMMA RowChange ==
    ASSUME RegInv, NEW p \in Procs, Busy(p), NEW st \in Statuses,
           RowWritten(call[p].cid, st) \/ UNCHANGED row,
           st # "CANCELLED" \/ ~MayExpose(call[p].cid)
    PROVE  /\ row' \in [Clients -> Rows \cup {NoRow}]
           /\ \A d \in Clients : d # call[p].cid => row'[d] = row[d]
           /\ row'[call[p].cid] \in Rows /\ row'[call[p].cid].sym = call[p].sym
           /\ MayExpose(call[p].cid) => Blocks(row'[call[p].cid])
<1> DEFINE c == call[p].cid
           new == [row[c] EXCEPT !.st = st]
<1>1. /\ c \in Clients /\ call[p].sym \in Symbols /\ row[c] \in Rows
      /\ row[c].sym = call[p].sym /\ Blocks(row[c])
  BY BusyRow
<1>2. /\ new \in Rows /\ new.sym = call[p].sym
      /\ st # "CANCELLED" => Blocks(new)
  BY <1>1 DEF Rows, Blocks
<1>3. row' = row \/ row' = [row EXCEPT ![c] = new]
  BY DEF RowWritten
<1> HIDE DEF new
<1>4. CASE row' = row
  BY <1>1, <1>4 DEF RegInv, TypeOK
<1>5. CASE row' = [row EXCEPT ![c] = new]
  <2>1. row' \in [Clients -> Rows \cup {NoRow}]
    BY <1>2, <1>5 DEF RegInv, TypeOK
  <2>2. row'[c] = new /\ \A d \in Clients : d # c => row'[d] = row[d]
    BY <1>1, <1>5 DEF RegInv, TypeOK
  <2> QED
    BY <1>2, <2>1, <2>2
<1> QED
  BY <1>3, <1>4, <1>5

(* A status given to an order the process has.                              *)
LEMMA OrderChange ==
    ASSUME TypeOK, NEW p \in Procs, NEW c \in Clients, NEW o \in Orders,
           order[p][c] # NoOrder,
           order' = [order EXCEPT ![p][c] = o]
    PROVE  /\ order' \in [Procs -> [Clients -> Orders \cup {NoOrder}]]
           /\ \A q \in Procs, d \in Clients : order'[q][d] # NoOrder <=> order[q][d] # NoOrder
<1>1. o # NoOrder
  BY DEF Orders, NoOrder, Statuses
<1>2. order' \in [Procs -> [Clients -> Orders \cup {NoOrder}]]
  BY DEF TypeOK
<1>3. \A q \in Procs, d \in Clients :
        order'[q][d] = IF q = p /\ d = c THEN o ELSE order[q][d]
  BY DEF TypeOK
<1> QED
  BY <1>1, <1>2, <1>3

(* An order that is given up: unless its outcome is already held, its row   *)
(* may be cancelled and its hold goes.                                      *)
LEMMA CancelOrderInv ==
    ASSUME RegInv, NEW p \in Procs, Busy(p), CancelOrder(p),
           ~MayExpose(call[p].cid),
           call' = [call EXCEPT ![p] = Idle],
           UNCHANGED <<latch, position, imported, absent, request>>
    PROVE  RegInv'
<1> DEFINE c == call[p].cid
           s == call[p].sym
           o == [order[p][c] EXCEPT !.st = "CANCELLED"]
<1>1. /\ c \in Clients /\ s \in Symbols /\ row[c] \in Rows /\ row[c].sym = s
      /\ order[p][c] \in Orders /\ order[p][c] # NoOrder
      /\ call' \in [Procs -> Calls] /\ Blocks(row[c])
  BY BusyRow
<1>2. CASE UNCHANGED <<row, order, holds>>
  <2>1. TypeOK'
    BY <1>1, <1>2 DEF RegInv, TypeOK, holds
  <2> QED
    BY <1>1, <1>2, <2>1, EndsCall DEF holds
<1>3. CASE /\ RowWritten(c, "CANCELLED") \/ UNCHANGED row
           /\ order' = [order EXCEPT ![p][c].st = "CANCELLED"]
           /\ unresolved' = Pop(unresolved, p, s)
           /\ blocking' = Pop(blocking, p, s)
           /\ UNCHANGED exposure
  <2>1. /\ row' \in [Clients -> Rows \cup {NoRow}]
        /\ \A d \in Clients : d # c => row'[d] = row[d]
        /\ row'[c] \in Rows /\ row'[c].sym = s
    BY <1>3, RowChange DEF Statuses
  <2>2. o \in Orders
    BY <1>1 DEF Orders, Statuses
  <2>3. order' = [order EXCEPT ![p][c] = o]
    BY <1>3
  <2> HIDE DEF o
  <2>4. /\ order' \in [Procs -> [Clients -> Orders \cup {NoOrder}]]
        /\ \A q \in Procs, d \in Clients : order'[q][d] # NoOrder <=> order[q][d] # NoOrder
    BY <1>1, <2>2, <2>3, OrderChange DEF RegInv
  <2>5. blocking' = [blocking EXCEPT ![p][s] = NoClient]
        /\ unresolved' = [unresolved EXCEPT ![p][s] = NoClient]
    BY <1>3 DEF Pop
  <2>6. /\ blocking' \in [Procs -> HoldMap] /\ unresolved' \in [Procs -> HoldMap]
        /\ \A q \in Procs, t \in Symbols : t # s => blocking'[q][t] = blocking[q][t]
    BY <2>5 DEF RegInv, TypeOK, HoldMap
  <2>7. TypeOK'
    BY <1>1, <1>3, <2>1, <2>4, <2>6 DEF RegInv, TypeOK
  <2>8. \A q \in Procs, t \in Symbols :
            blocking[q][t] # NoClient =>
                blocking'[q][t] # NoClient \/ (t = s /\ ~MayExpose(c))
    BY <2>6
  <2> QED
    BY <2>1, <2>4, <2>7, <2>8, EndsCall
<1> QED
  BY <1>2, <1>3 DEF CancelOrder

LEMMA WithdrawInv ==
    ASSUME RegInv, NEW p \in Procs, Withdraw(p)
    PROVE  RegInv'
<1>1. Busy(p) /\ call[p].at = "reserved"
  BY DEF Withdraw, Busy
<1>2. ~MayExpose(call[p].cid)
  BY <1>1, BusyRow, Shapes DEF RegInv, CallInv
<1> QED
  BY <1>1, <1>2, CancelOrderInv DEF Withdraw, thread

LEMMA RejectedInv ==
    ASSUME RegInv, NEW p \in Procs, Rejected(p)
    PROVE  RegInv'
<1>1. Busy(p) /\ ~MayExpose(call[p].cid)
  BY DEF Rejected, Refusal, MayExpose, Busy
<1> QED
  BY <1>1, CancelOrderInv DEF Rejected, thread

LEMMA AcceptedInv ==
    ASSUME RegInv, NEW p \in Procs, Accepted(p) \/ Withheld(p)
    PROVE  RegInv'
<1>1. Busy(p) /\ call' = [call EXCEPT ![p] = Idle]
      /\ UNCHANGED <<row, order, blocking, unresolved, exposure, latch, position, imported, absent, request>>
  BY DEF Accepted, Withheld, Busy, holds, thread
<1>2. call' \in [Procs -> Calls]
  BY <1>1, BusyRow
<1>3. TypeOK'
  BY <1>1, <1>2 DEF RegInv, TypeOK
<1> QED
  BY <1>1, <1>3, BusyRow, EndsCall

(* dict.setdefault takes a hold that is free and keeps one that is not.      *)
LEMMA DefaultFacts ==
    ASSUME NEW h \in [Procs -> HoldMap], NEW p \in Procs, NEW s \in Symbols, NEW c \in Clients
    PROVE  /\ SetDefault(h, p, s, c) \in [Procs -> HoldMap]
           /\ \A q \in Procs, t \in Symbols :
                h[q][t] # NoClient => SetDefault(h, p, s, c)[q][t] # NoClient
<1>1. CASE SetDefault(h, p, s, c) = h
  BY <1>1
<1>2. CASE SetDefault(h, p, s, c) = [h EXCEPT ![p][s] = c]
  <2>1. [h EXCEPT ![p][s] = c] \in [Procs -> HoldMap]
    BY DEF HoldMap
  <2>2. \A q \in Procs, t \in Symbols :
          [h EXCEPT ![p][s] = c][q][t] = IF q = p /\ t = s THEN c ELSE h[q][t]
    BY DEF HoldMap
  <2> QED
    BY <1>2, <2>1, <2>2, NoClientAssumption
<1> QED
  BY <1>1, <1>2 DEF SetDefault

LEMMA HeldInv ==
    ASSUME RegInv, NEW p \in Procs, Held(p)
    PROVE  RegInv'
<1> DEFINE c == call[p].cid
           s == call[p].sym
           o == [order[p][c] EXCEPT !.st = "UNRESOLVED"]
<1>1. /\ Busy(p) /\ call' = [call EXCEPT ![p] = Idle]
      /\ exposure' = SetDefault(exposure, p, s, c)
      /\ blocking' = SetDefault(blocking, p, s, c)
      /\ unresolved' = SetDefault(unresolved, p, s, c)
      /\ UNCHANGED <<latch, position, imported, absent, request>>
  BY DEF Held, Busy, thread
<1>2. /\ c \in Clients /\ s \in Symbols /\ row[c] \in Rows /\ row[c].sym = s
      /\ order[p][c] \in Orders /\ order[p][c] # NoOrder
      /\ call' \in [Procs -> Calls] /\ Blocks(row[c])
  BY <1>1, BusyRow
<1>3. o \in Orders
  BY <1>2 DEF Orders, Statuses
<1>4. /\ RowWritten(c, "UNRESOLVED") \/ UNCHANGED row
      /\ \/ order' = order
         \/ order' = [order EXCEPT ![p][c] = o]
  BY DEF Held
<1> HIDE DEF o
<1>5. /\ row' \in [Clients -> Rows \cup {NoRow}]
      /\ \A d \in Clients : d # c => row'[d] = row[d]
      /\ row'[c] \in Rows /\ row'[c].sym = s
      /\ MayExpose(c) => Blocks(row'[c])
  BY <1>1, <1>4, RowChange DEF Statuses
<1>6. /\ order' \in [Procs -> [Clients -> Orders \cup {NoOrder}]]
      /\ \A q \in Procs, d \in Clients : order'[q][d] # NoOrder <=> order[q][d] # NoOrder
  <2>1. CASE order' = order
    BY <2>1 DEF RegInv, TypeOK
  <2>2. CASE order' = [order EXCEPT ![p][c] = o]
    BY <1>2, <1>3, <2>2, OrderChange DEF RegInv
  <2> QED
    BY <1>4, <2>1, <2>2
<1>7. blocking \in [Procs -> HoldMap] /\ unresolved \in [Procs -> HoldMap]
      /\ exposure \in [Procs -> HoldMap]
  BY DEF RegInv, TypeOK
<1>8. /\ blocking' \in [Procs -> HoldMap] /\ unresolved' \in [Procs -> HoldMap]
      /\ exposure' \in [Procs -> HoldMap]
      /\ \A q \in Procs, t \in Symbols :
            blocking[q][t] # NoClient => blocking'[q][t] # NoClient
  <2> HIDE DEF c, s
  <2> QED
    BY <1>1, <1>2, <1>7, DefaultFacts
<1>9. TypeOK'
  BY <1>1, <1>2, <1>5, <1>6, <1>8 DEF RegInv, TypeOK
<1> QED
  BY <1>1, <1>5, <1>6, <1>8, <1>9, EndsCall

LEMMA FilledInv ==
    ASSUME RegInv, NEW p \in Procs, Filled(p)
    PROVE  RegInv'
<1> DEFINE c == call[p].cid
           s == call[p].sym
           o(st) == [order[p][c] EXCEPT !.st = st, !.brokerId = TRUE]
<1>1. /\ Busy(p) /\ call' = [call EXCEPT ![p] = Idle]
      /\ exposure' = SetDefault(exposure, p, s, c)
      /\ blocking' = SetDefault(blocking, p, s, c)
      /\ UNCHANGED <<unresolved, imported, absent, request>>
  BY DEF Filled, FillHolds, Busy, thread
<1>2. /\ c \in Clients /\ s \in Symbols /\ row[c] \in Rows /\ row[c].sym = s
      /\ order[p][c] \in Orders /\ order[p][c] # NoOrder
      /\ call' \in [Procs -> Calls] /\ Blocks(row[c])
  BY <1>1, BusyRow
<1>3. PICK st \in {"PARTIAL", "FILLED"} :
        /\ \/ RowWritten(c, st) /\ UNCHANGED latch
           \/ (RowWritten(c, st) \/ UNCHANGED row) /\ latch' = [latch EXCEPT ![p] = TRUE]
        /\ order' = [order EXCEPT ![p][c].st = st, ![p][c].brokerId = TRUE]
  BY DEF Filled
<1>4. st \in Statuses /\ st # "CANCELLED"
  BY DEF Statuses
<1>5. /\ RowWritten(c, st) \/ UNCHANGED row
      /\ latch' \in [Procs -> BOOLEAN]
  BY <1>3 DEF RegInv, TypeOK
<1>6. /\ row' \in [Clients -> Rows \cup {NoRow}]
      /\ \A d \in Clients : d # c => row'[d] = row[d]
      /\ row'[c] \in Rows /\ row'[c].sym = s
      /\ MayExpose(c) => Blocks(row'[c])
  BY <1>1, <1>4, <1>5, RowChange
<1>7. o(st) \in Orders
  BY <1>2, <1>4 DEF Orders
<1>8. order' = [order EXCEPT ![p][c] = o(st)]
  BY <1>2, <1>3 DEF RegInv, TypeOK
<1> HIDE DEF o
<1>9. /\ order' \in [Procs -> [Clients -> Orders \cup {NoOrder}]]
      /\ \A q \in Procs, d \in Clients : order'[q][d] # NoOrder <=> order[q][d] # NoOrder
  BY <1>2, <1>7, <1>8, OrderChange DEF RegInv
<1>10. blocking \in [Procs -> HoldMap] /\ exposure \in [Procs -> HoldMap]
  BY DEF RegInv, TypeOK
<1>11. /\ blocking' \in [Procs -> HoldMap] /\ exposure' \in [Procs -> HoldMap]
       /\ \A q \in Procs, t \in Symbols :
             blocking[q][t] # NoClient => blocking'[q][t] # NoClient
  <2> HIDE DEF c, s
  <2> QED
    BY <1>1, <1>2, <1>10, DefaultFacts
<1>12. position' \in [Procs -> SUBSET Symbols]
  <2>1. position \in [Procs -> SUBSET Symbols]
    BY DEF RegInv, TypeOK
  <2>2. position' = position \/ position' = [position EXCEPT ![p] = @ \cup {s}]
    BY DEF Filled
  <2> QED
    BY <1>2, <2>1, <2>2
<1>13. TypeOK'
  BY <1>1, <1>2, <1>5, <1>6, <1>9, <1>11, <1>12 DEF RegInv, TypeOK
<1> QED
  BY <1>1, <1>6, <1>9, <1>11, <1>13, EndsCall
-----------------------------------------------------------------------------
(* The reconciler's thread, the management of the position, the broker      *)

LEMMA ReadPendingInv ==
    ASSUME RegInv, NEW p \in Procs, NEW c \in Clients, ReadPending(p, c)
    PROVE  RegInv'
<1>1. /\ Up(p) /\ order[p][c].st = "PENDING"
      /\ absent' = [absent EXCEPT ![p] = c]
      /\ UNCHANGED <<row, order, blocking, unresolved, exposure, latch, position, imported, call, request>>
  BY DEF ReadPending, holds
<1>2. TypeOK'
  BY <1>1 DEF RegInv, TypeOK
<1>3. order[p][c] # NoOrder
  BY <1>1 DEF NoOrder
<1>4. AbsentIsKnown'
  BY <1>1, <1>3 DEF RegInv, AbsentIsKnown, Up, TypeOK
<1>5. \A q \in Procs : (Busy(q)' <=> Busy(q))
  BY <1>1 DEF Busy
<1> QED
  BY <1>1, <1>2, <1>4, <1>5, MemoryOnly

LEMMA CancelAbsentInv ==
    ASSUME RegInv, NEW p \in Procs, CancelAbsent(p)
    PROVE  RegInv'
<1> DEFINE c == absent[p]
           o == [order[p][c] EXCEPT !.st = "CANCELLED"]
<1>1. /\ c # NoClient
      /\ absent' = [absent EXCEPT ![p] = NoClient]
      /\ order' = order \/ order' = [order EXCEPT ![p][c] = o]
      /\ UNCHANGED <<row, blocking, unresolved, exposure, latch, position, imported, call, request>>
  BY DEF CancelAbsent, holds
<1>2. c \in Clients /\ order[p][c] # NoOrder
  BY <1>1 DEF RegInv, TypeOK, AbsentIsKnown
<1>3. order[p][c] \in Orders
  BY <1>2, Shapes DEF RegInv
<1>4. o \in Orders
  BY <1>3 DEF Orders, Statuses
<1> HIDE DEF o
<1>5. /\ order' \in [Procs -> [Clients -> Orders \cup {NoOrder}]]
      /\ \A q \in Procs, d \in Clients : order'[q][d] # NoOrder <=> order[q][d] # NoOrder
  <2>1. CASE order' = order
    BY <2>1 DEF RegInv, TypeOK
  <2>2. CASE order' = [order EXCEPT ![p][c] = o]
    BY <1>2, <1>4, <2>2, OrderChange DEF RegInv
  <2> QED
    BY <1>1, <2>1, <2>2
<1>6. TypeOK'
  BY <1>1, <1>5 DEF RegInv, TypeOK
<1>7. AbsentIsKnown'
  <2>1. \A q \in Procs : absent'[q] # NoClient => /\ absent'[q] = absent[q]
                                                  /\ absent[q] \in Clients
    BY <1>1 DEF RegInv, TypeOK
  <2> QED
    BY <1>1, <1>5, <2>1 DEF RegInv, AbsentIsKnown, Up
<1>8. \A q \in Procs : (Busy(q)' <=> Busy(q))
  BY <1>1 DEF Busy
<1> QED
  BY <1>1, <1>5, <1>6, <1>7, <1>8, MemoryOnly

LEMMA MemorySetsInv ==
    ASSUME RegInv, NEW p \in Procs, NEW s \in Symbols,
           ImportPending(p, s) \/ ClosePosition(p, s)
    PROVE  RegInv'
<1>1. UNCHANGED <<row, order, blocking, unresolved, exposure, latch, call, absent, request>>
  BY DEF ImportPending, ClosePosition, holds, thread
<1>2. imported' \in [Procs -> SUBSET Symbols] /\ position' \in [Procs -> SUBSET Symbols]
  <2>1. imported \in [Procs -> SUBSET Symbols] /\ position \in [Procs -> SUBSET Symbols]
    BY DEF RegInv, TypeOK
  <2>2. CASE ImportPending(p, s)
    BY <2>1, <2>2 DEF ImportPending
  <2>3. CASE ClosePosition(p, s)
    BY <2>1, <2>3 DEF ClosePosition, thread
  <2> QED
    BY <2>2, <2>3
<1>3. TypeOK'
  BY <1>1, <1>2 DEF RegInv, TypeOK
<1>4. AbsentIsKnown' /\ \A q \in Procs : (Busy(q)' <=> Busy(q))
  BY <1>1 DEF RegInv, AbsentIsKnown, Busy, Up
<1> QED
  BY <1>1, <1>3, <1>4, MemoryOnly

LEMMA BrokerDecidesInv ==
    ASSUME RegInv, NEW c \in Clients, BrokerDecides(c)
    PROVE  RegInv'
<1>1. /\ request[c].st = "SENT"
      /\ UNCHANGED <<row, order, blocking, unresolved, exposure, latch, position, call, imported, absent>>
  BY DEF BrokerDecides, holds, thread
<1>2. PICK st \in {"OPEN", "REFUSED"} : request' = [request EXCEPT ![c].st = st]
  BY DEF BrokerDecides
<1>3. request[c] \in Requests /\ MayExpose(c)
  BY <1>1, Shapes DEF RegInv, TypeOK, NoRequest, MayExpose
<1>4. \A d \in Clients : /\ request'[d] # NoRequest <=> request[d] # NoRequest
                         /\ request[d] # NoRequest => request'[d].sym = request[d].sym
                         /\ MayExpose(d)' => MayExpose(d)
  <2>1. request'[c].st = st /\ request'[c].sym = request[c].sym
    BY <1>2, <1>3 DEF Requests, RegInv, TypeOK
  <2>2. request'[c] # NoRequest /\ request[c] # NoRequest
    BY <1>1, <2>1 DEF NoRequest
  <2>3. \A d \in Clients : d # c => request'[d] = request[d]
    BY <1>2 DEF RegInv, TypeOK
  <2> QED
    BY <1>3, <2>1, <2>2, <2>3 DEF MayExpose
<1>5. TypeOK'
  <2>1. request' \in [Clients -> Requests \cup {NoRequest}]
    BY <1>2, <1>3 DEF Requests, RegInv, TypeOK
  <2> QED
    BY <1>1, <2>1 DEF RegInv, TypeOK
<1>6. \A q \in Procs : CallInv(q)'
  <2> SUFFICES ASSUME NEW q \in Procs, Busy(q)
               PROVE  CallInv(q)'
    BY <1>1 DEF CallInv, Busy
  <2>1. call[q].cid \in Clients
    BY BusyFacts DEF RegInv
  <2> QED
    BY <1>1, <1>4, <2>1 DEF RegInv, CallInv
<1>7. OneCaller'
  BY <1>1 DEF RegInv, OneCaller, Busy
<1>8. OneBlocker' /\ OrderHasRow' /\ AbsentIsKnown' /\ RequestHasRow'
  BY <1>1, <1>4 DEF RegInv, OneBlocker, OrderHasRow, AbsentIsKnown, RequestHasRow, Up
<1>9. ExposureIsDurable'
  BY <1>1, <1>4, Shapes DEF RegInv, ExposureIsDurable
<1>10. WantedIsHeld'
  BY <1>1, <1>4 DEF RegInv, WantedIsHeld, Wanted
<1> QED
  BY <1>5, <1>6, <1>7, <1>8, <1>9, <1>10 DEF RegInv
-----------------------------------------------------------------------------
(* Every step of the program and of the broker keeps the invariant.         *)
LEMMA StepRegInv == RegInv /\ [Next]_vars => RegInv'
<1> SUFFICES ASSUME RegInv, [Next]_vars
             PROVE  RegInv'
  OBVIOUS
<1>1. CASE UNCHANGED vars
  <2>1. UNCHANGED <<row, order, blocking, unresolved, exposure, latch, position, imported, call, absent, request>>
    BY <1>1 DEF vars, holds, thread
  <2>2. TypeOK' /\ AbsentIsKnown' /\ \A q \in Procs : (Busy(q)' <=> Busy(q))
    BY <2>1 DEF RegInv, TypeOK, AbsentIsKnown, Busy, Up
  <2> QED
    BY <2>1, <2>2, MemoryOnly
<1>2. ASSUME NEW c \in Clients, BrokerDecides(c)
      PROVE  RegInv'
  BY <1>2, BrokerDecidesInv
<1>3. ASSUME NEW p \in Procs, ProcNext(p)
      PROVE  RegInv'
  <2>1. CASE Start(p) \/ StartUnreadable(p) \/ Crash(p)
    BY <2>1, StartInv, StartUnreadableInv, CrashInv
  <2>2. ASSUME NEW s \in Symbols, NEW c \in Clients,
               \/ Reserve(p, s, c)
               \/ ReserveBlocked(p, s, c)
               \/ ReserveFails(p, s, c)
               \/ NoConnection(p, s, c)
        PROVE  RegInv'
    BY <2>2, ReserveInv, ReserveBlockedInv, ReserveFailsInv, NoConnectionInv
  <2>3. CASE Submit(p) \/ Withdraw(p) \/ Rejected(p)
    BY <2>3, SubmitInv, WithdrawInv, RejectedInv
  <2>4. CASE Accepted(p) \/ Withheld(p) \/ Held(p) \/ Filled(p)
    BY <2>4, AcceptedInv, HeldInv, FilledInv
  <2>5. ASSUME NEW c \in Clients, ReadPending(p, c)
        PROVE  RegInv'
    BY <2>5, ReadPendingInv
  <2>6. CASE CancelAbsent(p)
    BY <2>6, CancelAbsentInv
  <2>7. ASSUME NEW s \in Symbols, ImportPending(p, s) \/ ClosePosition(p, s)
        PROVE  RegInv'
    BY <2>7, MemorySetsInv
  <2> QED
    BY <1>3, <2>1, <2>2, <2>3, <2>4, <2>5, <2>6, <2>7 DEF ProcNext
<1> QED
  BY <1>1, <1>2, <1>3 DEF Next

LEMMA RegistryInvariant == Spec => []RegInv
BY InitRegInv, StepRegInv, PTL DEF Spec

(* The table, the registries and the holds keep their columns and values.   *)
THEOREM RegistryTypes == Spec => []TypeOK
<1>1. RegInv => TypeOK
  BY DEF RegInv
<1> QED
  BY <1>1, RegistryInvariant, PTL

(* An order that may hold exposure keeps a row that blocks its instrument.  *)
THEOREM RegistryDurable == Spec => []ExposureIsDurable
<1>1. RegInv => ExposureIsDurable
  BY DEF RegInv
<1> QED
  BY <1>1, RegistryInvariant, PTL

(* Every process that knows of such an order holds its instrument.          *)
THEOREM RegistryHeld == Spec => []KnownExposureIsHeld
<1>1. RegInv => KnownExposureIsHeld
  BY DEF RegInv, KnownExposureIsHeld, WantedIsHeld, Wanted, ExposureIsDurable
<1> QED
  BY <1>1, RegistryInvariant, PTL
-----------------------------------------------------------------------------
(* The refinement                                                           *)

(* Two orders of an instrument never may hold exposure together.            *)
LEMMA OneExposure ==
    ASSUME RegInv, NEW c \in Clients, NEW d \in Clients,
           MayExpose(c), MayExpose(d), request[c].sym = request[d].sym
    PROVE  c = d
<1>1. /\ row[c] # NoRow /\ Blocks(row[c]) /\ row[c].sym = request[c].sym
      /\ row[d] # NoRow /\ Blocks(row[d]) /\ row[d].sym = request[d].sym
  BY DEF RegInv, ExposureIsDurable
<1> QED
  BY <1>1 DEF RegInv, OneBlocker

(* A step that leaves the broker's knowledge alone is a stutter.            *)
LEMMA GuardStutters ==
    ASSUME UNCHANGED request
    PROVE  UNCHANGED Guard!guardVars
BY DEF Guard!guardVars, MayExpose

(* A submission exposes its instrument, which nothing else exposed.         *)
LEMMA SubmitExposes ==
    ASSUME RegInv, NEW p \in Procs, Submit(p),
           NEW c \in Clients, c = call[p].cid,
           NEW s \in Symbols, s = call[p].sym
    PROVE  Guard!Expose(s, c)
<1> DEFINE sent == [sym |-> s, st |-> "SENT"]
           held(t) == {d \in Clients : MayExpose(d) /\ request[d].sym = t}
           map == [t \in Symbols |-> held(t)]
<1>1. Busy(p) /\ call[p].at = "reserved" /\ request' = [request EXCEPT ![c] = sent]
  BY DEF Submit, Busy
<1>2. /\ request[c] = NoRequest
      /\ row[c] # NoRow /\ row[c].sym = s /\ Blocks(row[c])
  BY <1>1, BusyRow DEF RegInv, CallInv
<1>3. \A d \in Clients : request'[d] = IF d = c THEN sent ELSE request[d]
  BY <1>1, <1>2 DEF RegInv, TypeOK
<1>4. /\ sent # NoRequest
      /\ MayExpose(c)' /\ request'[c].sym = s
      /\ ~MayExpose(c)
      /\ \A d \in Clients : d # c => /\ MayExpose(d)' <=> MayExpose(d)
                                     /\ request'[d].sym = request[d].sym
  BY <1>2, <1>3 DEF MayExpose, NoRequest
<1>5. held(s) = {}
  <2> SUFFICES ASSUME NEW d \in Clients, MayExpose(d), request[d].sym = s
               PROVE  FALSE
    OBVIOUS
  <2>1. row[d] # NoRow /\ Blocks(row[d]) /\ row[d].sym = s
    BY DEF RegInv, ExposureIsDurable
  <2>2. d = c
    BY <1>2, <2>1 DEF RegInv, OneBlocker
  <2> QED
    BY <1>4, <2>2
<1>6. held(s)' = {c}
  BY <1>2, <1>4, <1>5
<1>7. \A t \in Symbols : t # s => held(t)' = held(t)
  BY <1>4
<1>8. map' = [map EXCEPT ![s] = {c}]
  <2> HIDE DEF held
  <2> QED
    BY <1>2, <1>6, <1>7
<1>9. map[s] = {}
  BY <1>2, <1>5
<1>10. c \notin {d \in Clients : request[d] # NoRequest}
  BY <1>2
<1>11. {d \in Clients : request[d] # NoRequest}'
          = {d \in Clients : request[d] # NoRequest} \cup {c}
  BY <1>2, <1>3, <1>4
<1> QED
  BY <1>2, <1>8, <1>9, <1>10, <1>11 DEF Guard!Expose

(* The broker's decision exposes nothing new; its refusal makes room.       *)
LEMMA DecisionClears ==
    ASSUME RegInv, NEW c \in Clients, BrokerDecides(c),
           NEW s \in Symbols, s = request[c].sym
    PROVE  Guard!Clear(s) \/ UNCHANGED Guard!guardVars
<1> DEFINE held(t) == {d \in Clients : MayExpose(d) /\ request[d].sym = t}
           map == [t \in Symbols |-> held(t)]
           known == {d \in Clients : request[d] # NoRequest}
<1>1. request[c].st = "SENT"
  BY DEF BrokerDecides
<1>2. PICK st \in {"OPEN", "REFUSED"} : request' = [request EXCEPT ![c].st = st]
  BY DEF BrokerDecides
<1>3. request[c] \in Requests /\ MayExpose(c)
  BY <1>1, Shapes DEF RegInv, TypeOK, NoRequest, MayExpose, Requests
<1>4. request'[c].st = st /\ request'[c].sym = s
  BY <1>2, <1>3 DEF Requests, RegInv, TypeOK
<1>5. \A d \in Clients : d # c => request'[d] = request[d]
  BY <1>2 DEF RegInv, TypeOK
<1>6. known' = known
  BY <1>1, <1>4, <1>5 DEF NoRequest
<1>7. \A d \in Clients : /\ d # c => (MayExpose(d)' <=> MayExpose(d))
                         /\ request'[d].sym = request[d].sym
  BY <1>4, <1>5 DEF MayExpose
<1>8. CASE st = "OPEN"
  <2>1. MayExpose(c)'
    BY <1>4, <1>8 DEF MayExpose
  <2>2. \A t \in Symbols : held(t)' = held(t)
    BY <1>3, <1>7, <2>1
  <2>3. map' = map
    BY <2>2
  <2> QED
    BY <1>3, <1>6, <2>3 DEF Guard!guardVars
<1>9. CASE st = "REFUSED"
  <2>1. ~MayExpose(c)'
    BY <1>4, <1>9 DEF MayExpose
  <2>2. held(s)' = {}
    BY <1>3, <1>7, <2>1, OneExposure
  <2>3. \A t \in Symbols : t # s => held(t)' = held(t)
    BY <1>7
  <2>4. map' = [map EXCEPT ![s] = {}]
    <3> HIDE DEF held
    <3> QED
      BY <1>3, <2>2, <2>3
  <2> QED
    BY <1>3, <1>6, <2>4 DEF Guard!Clear
<1> QED
  BY <1>8, <1>9

(* The registry implements the guard: it begins where the guard begins, and *)
(* a submission, a refusal and nothing else move it.                        *)
THEOREM RegistryImplementsGuard == Spec => ImplementsGuard
<1>1. Init => Guard!GuardInit
  BY DEF Init, Guard!GuardInit, MayExpose, NoRequest
<1>2. ASSUME RegInv, [Next]_vars
      PROVE  [Guard!GuardNext]_(Guard!guardVars)
  <2>1. CASE UNCHANGED vars
    BY <2>1, GuardStutters DEF vars
  <2>2. ASSUME NEW c \in Clients, BrokerDecides(c)
        PROVE  [Guard!GuardNext]_(Guard!guardVars)
    <3>1. request[c] \in Requests
      BY <1>2, <2>2, Shapes DEF BrokerDecides, RegInv, NoRequest
    <3>2. PICK s \in Symbols : s = request[c].sym
      BY <3>1 DEF Requests
    <3>3. Guard!Clear(s) \/ UNCHANGED Guard!guardVars
      BY <1>2, <2>2, <3>2, DecisionClears
    <3> QED
      BY <3>3 DEF Guard!GuardNext
  <2>3. ASSUME NEW p \in Procs, ProcNext(p)
        PROVE  [Guard!GuardNext]_(Guard!guardVars)
    <3>1. CASE Submit(p)
      <4>1. Busy(p)
        BY <3>1 DEF Submit, Busy
      <4>2. PICK c \in Clients, s \in Symbols : c = call[p].cid /\ s = call[p].sym
        BY <1>2, <4>1, BusyRow
      <4>3. Guard!Expose(s, c)
        BY <1>2, <3>1, <4>2, SubmitExposes
      <4> QED
        BY <4>3 DEF Guard!GuardNext
    <3>2. CASE ~Submit(p)
      <4>1. UNCHANGED request
        BY <2>3, <3>2 DEF ProcNext, Start, StartUnreadable, Crash, Reserve, ReserveBlocked,
             ReserveFails, NoConnection, Withdraw, Rejected, Accepted, Withheld, Held, Filled,
             ReadPending, CancelAbsent, ImportPending, ClosePosition
      <4> QED
        BY <4>1, GuardStutters
    <3> QED
      BY <3>1, <3>2
  <2> QED
    BY <1>2, <2>1, <2>2, <2>3 DEF Next
<1> QED
  BY <1>1, <1>2, RegistryInvariant, PTL DEF Spec, ImplementsGuard, Guard!GuardSpec
=============================================================================
