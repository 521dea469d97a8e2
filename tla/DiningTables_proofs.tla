------------------------ MODULE DiningTables_proofs ------------------------
(***************************************************************************)
(* The four properties of the floor, for any number of tables, guests, orders *)
(* and sessions.  TableHasOneOwner is not inductive: that a table's session   *)
(* also has the table, and that a table without one names none, is what lets  *)
(* completion, release and reassignment free exactly the right tables.        *)
(***************************************************************************)
EXTENDS DiningTables, FiniteSetTheorems, WellFoundedInduction, TLAPS

TypeInv ==
    /\ table \in [Tables -> Table]
    /\ sessions \in Seq(Session) /\ Len(sessions) <= MaxSessions
    /\ order \in [Orders -> Order]
    /\ hold \in [Orders -> {"none", "active", "lapsed"}]

(* A row of an order says what its status allows, and its session is one that *)
(* was opened.                                                               *)
RowInv ==
    \A o \in Orders :
        /\ order[o].session <= Len(sessions)
        /\ order[o].status = "new" => hold[o] = "none" /\ order[o].session = 0
        /\ order[o].status # "new" => order[o].table \in Tables
        /\ hold[o] # "none" => order[o].session = 0
        /\ o \in AppOrders /\ order[o].status # "new" => order[o].phone \in Customers

(* A table that nobody overrode belongs to the session, or to the hold, that *)
(* says so.                                                                  *)
TableInv ==
    \A t \in Tables \ overridden :
        /\ table[t].state = "occupied" =>
              table[t].session \in Active /\ t \in sessions[table[t].session].tables
        /\ table[t].state # "occupied" => table[t].session = 0
        /\ \A s \in Active : t \in sessions[s].tables =>
              table[t].state = "occupied" /\ table[t].session = s
        /\ table[t].state = "held" => \E o \in Orders : HoldsOn(t) = {o}
        /\ table[t].state # "held" => HoldsOn(t) = {}

IInv == TypeInv /\ RowInv /\ TableInv /\ OwedSessionStaysOpen /\ SessionsAreTheGuests

-----------------------------------------------------------------------------
(* A guest's session is the one opened last, if there is one: any set of       *)
(* sessions has a latest.                                                     *)
LEMMA Latest ==
  ASSUME TypeInv, NEW p, ActiveOf(p) # {}
  PROVE  LatestOf(p) \in ActiveOf(p)
<1> DEFINE left == {Len(sessions) - s : s \in ActiveOf(p)}
<1>1. Len(sessions) \in Nat /\ ActiveOf(p) \subseteq 1..Len(sessions)
  BY DEF TypeInv, ActiveOf, Active
<1>2. left \subseteq Nat /\ left # {}
  BY <1>1
<1>3. PICK x \in left : \A y \in left : ~(<<y, x>> \in OpToRel(<, Nat))
  BY <1>2, NatLessThanWellFounded, WFMin
<1>4. ASSUME NEW y \in left, y < x PROVE FALSE
  <2>1. <<y, x>> \in OpToRel(<, Nat)
    BY <1>2, <1>4, Zenon DEF OpToRel
  <2> QED
    BY <1>3, <2>1
<1>5. PICK s \in ActiveOf(p) : x = Len(sessions) - s
  OBVIOUS
<1>6. ASSUME NEW r \in ActiveOf(p) PROVE r <= s
  <2>1. Len(sessions) - r \in left
    OBVIOUS
  <2>2. ~(Len(sessions) - r < x)
    BY <1>4, <2>1
  <2> QED
    BY <1>1, <1>5, <2>2
<1> QED
  BY <1>6 DEF LatestOf

(* What the session found for a guest is: one that may be joined and has the   *)
(* table, or a new one at a table that is free or held for the caller.        *)
LEMMA Found ==
  ASSUME TypeInv, TableInv, NEW p \in Phones, NEW t \in Tables, NEW sid, NEW fromApp, NEW ref,
         NEW s \in SessionFor(p, t, sid, fromApp, ref)
  PROVE  /\ s \in Active \cup {0}
         /\ fromApp /\ p # NoPhone /\ s # 0 => sessions[s].phone \in {NoPhone, p}
         /\ t \notin overridden /\ s # 0 =>
               table[t].state = "occupied" /\ table[t].session = s
         /\ t \notin overridden /\ s = 0 =>
               \/ table[t].state = "available"
               \/ table[t].state = "held" /\ ref \cap HoldsOn(t) # {}
<1>1. Active \subseteq 1..Len(sessions) /\ 0 \notin Active
  BY DEF TypeInv, Active
<1>2. table[t] \in Table
  BY DEF TypeInv
<1>3. CASE sid # 0
  BY <1>1, <1>3 DEF SessionFor, MayJoin, TableInv
<1>4. CASE sid = 0 /\ ActiveOf(p) # {}
  BY <1>1, <1>4, Latest DEF SessionFor, SeatedElsewhere, ActiveOf, TableInv
<1>5. CASE sid = 0 /\ ActiveOf(p) = {} /\ SessionAt(t) # {}
  BY <1>1, <1>5 DEF SessionFor, SessionAt, MayJoin
<1>6. CASE sid = 0 /\ ActiveOf(p) = {} /\ SessionAt(t) = {}
  <2>1. s \in NewSession(t, ref)
    BY <1>6 DEF SessionFor
  <2>2. t \notin overridden => table[t].state # "occupied"
    BY <1>6 DEF SessionAt, TableInv
  <2> QED
    BY <1>2, <2>1, <2>2 DEF NewSession, Table
<1> QED
  BY <1>3, <1>4, <1>5, <1>6

(* A guest becomes known.                                                    *)
LEMMA Binding ==
  ASSUME TypeInv, NEW s \in Active, NEW p \in Phones
  PROVE  /\ Bound(s, p) \in Seq(Session) /\ Len(Bound(s, p)) = Len(sessions)
         /\ \A r \in 1..Len(sessions) : r # s => Bound(s, p)[r] = sessions[r]
         /\ Bound(s, p)[s] = [sessions[s] EXCEPT !.phone = IF @ = NoPhone THEN p ELSE @]
<1>1. sessions \in Seq(Session) /\ s \in 1..Len(sessions) /\ Len(sessions) \in Nat
  BY DEF TypeInv, Active
<1> DEFINE row == [sessions[s] EXCEPT !.phone = IF @ = NoPhone THEN p ELSE @]
<1>2. row \in Session
  <2>1. sessions[s] \in Session
    BY <1>1
  <2> QED
    BY <2>1 DEF Session
<1>3. Bound(s, p) = [sessions EXCEPT ![s] = row]
  BY DEF Bound
<1> HIDE DEF row
<1>4. /\ Bound(s, p) \in Seq(Session) /\ Len(Bound(s, p)) = Len(sessions)
      /\ \A r \in 1..Len(sessions) : r # s => Bound(s, p)[r] = sessions[r]
      /\ Bound(s, p)[s] = row
  BY <1>1, <1>2, <1>3
<1> QED
  BY <1>4 DEF row

\* What seating p at t in session s does.
Seated(p, t, s) ==
    /\ sessions' \in Seq(Session) /\ Len(sessions') <= MaxSessions
    /\ Len(sessions') >= Len(sessions)
    /\ SeatOf(s) \in 1..Len(sessions') /\ SeatOf(s) \in 1..MaxSessions
    /\ 1..Len(sessions') = 1..Len(sessions) \cup {SeatOf(s)}
    /\ \A r \in 1..Len(sessions) : r # SeatOf(s) => sessions'[r] = sessions[r]
    /\ sessions'[SeatOf(s)].active
    /\ s = 0 => /\ SeatOf(s) = Len(sessions) + 1
                /\ sessions'[SeatOf(s)].tables = {t}
                /\ sessions'[SeatOf(s)].phone = p
    /\ s # 0 => /\ SeatOf(s) = s /\ s \in Active
                /\ sessions'[s].tables = sessions[s].tables \cup {t}
                /\ sessions'[s].phone = IF sessions[s].phone = NoPhone THEN p
                                        ELSE sessions[s].phone
    /\ table' \in [Tables -> Table]
    /\ table'[t] = [state |-> "occupied", session |-> SeatOf(s)]
    /\ \A u \in Tables : u # t => table'[u] = table[u]

(* What seating does: one session is opened or joined and has the table.      *)
LEMMA Seating ==
  ASSUME TypeInv, NEW p \in Phones, NEW t \in Tables, NEW s \in Active \cup {0},
         Seat(p, t, s)
  PROVE  Seated(p, t, s)
<1>1. /\ sessions \in Seq(Session) /\ Len(sessions) \in Nat /\ MaxSessions \in Nat
      /\ Active \subseteq 1..Len(sessions) /\ Len(sessions) <= MaxSessions
      /\ table \in [Tables -> Table]
  BY FiniteFloor DEF TypeInv, Active
<1> DEFINE k == SeatOf(s)
           fresh == [phone |-> p, active |-> TRUE, forced |-> FALSE, tables |-> {}]
           joined == IF s = 0 THEN Append(sessions, fresh) ELSE Bound(s, p)
           row == [joined[k] EXCEPT !.tables = joined[k].tables \cup {t}]
<1>2. /\ k <= MaxSessions
      /\ sessions' = [joined EXCEPT ![k] = row]
      /\ table' = [table EXCEPT ![t] = [state |-> "occupied", session |-> k]]
  BY DEF Seat
<1>3. k \in 1..MaxSessions
  BY <1>1, <1>2 DEF SeatOf
<1>4. /\ table' \in [Tables -> Table]
      /\ table'[t] = [state |-> "occupied", session |-> k]
      /\ \A u \in Tables : u # t => table'[u] = table[u]
  BY <1>1, <1>2, <1>3 DEF Table
<1>5. CASE s = 0
  <2>1. fresh \in Session
    BY DEF Session
  <2>2. /\ k = Len(sessions) + 1
        /\ joined = Append(sessions, fresh)
    BY <1>5 DEF SeatOf
  <2> HIDE DEF fresh, joined, k
  <2>3. /\ joined \in Seq(Session) /\ Len(joined) = k
        /\ joined[k] = fresh
        /\ \A r \in 1..Len(sessions) : joined[r] = sessions[r]
    BY <1>1, <2>1, <2>2
  <2>4. row \in Session /\ row.active /\ row.tables = {t} /\ row.phone = p
    <3>1. fresh.active /\ fresh.tables = {} /\ fresh.phone = p
      BY DEF fresh
    <3>2. row = [fresh EXCEPT !.tables = fresh.tables \cup {t}]
      BY <2>3
    <3> HIDE DEF row
    <3> QED
      BY <2>1, <3>1, <3>2 DEF Session
  <2> HIDE DEF row
  <2>5. k \in 1..Len(joined) /\ \A r \in 1..Len(sessions) : r \in 1..Len(joined) /\ r # k
    BY <1>1, <2>2, <2>3
  <2>6. /\ sessions' \in Seq(Session) /\ Len(sessions') = k /\ sessions'[k] = row
        /\ \A r \in 1..Len(sessions) : sessions'[r] = sessions[r]
    BY <1>2, <2>3, <2>4, <2>5
  <2>7. 1..k = 1..Len(sessions) \cup {k}
    BY <1>1, <2>2
  <2> QED
    BY <1>1, <1>3, <1>4, <1>5, <2>2, <2>4, <2>6, <2>7 DEF k, Seated
<1>6. CASE s # 0
  <2>1. k = s /\ s \in Active /\ s \in 1..Len(sessions) /\ joined = Bound(s, p)
    BY <1>1, <1>6 DEF SeatOf
  <2>2. /\ joined \in Seq(Session) /\ Len(joined) = Len(sessions)
        /\ \A r \in 1..Len(sessions) : r # s => joined[r] = sessions[r]
        /\ joined[s] = [sessions[s] EXCEPT !.phone = IF @ = NoPhone THEN p ELSE @]
    BY <2>1, Binding
  <2>3. sessions[s] \in Session /\ sessions[s].active
    BY <1>1, <2>1 DEF Active
  <2>4. /\ row \in Session /\ row.active
        /\ row.tables = sessions[s].tables \cup {t}
        /\ row.phone = IF sessions[s].phone = NoPhone THEN p ELSE sessions[s].phone
    BY <2>1, <2>2, <2>3 DEF Session
  <2> HIDE DEF joined, row, k
  <2>5. /\ sessions' \in Seq(Session) /\ Len(sessions') = Len(sessions)
        /\ sessions'[s] = row
        /\ \A r \in 1..Len(sessions) : r # s => sessions'[r] = sessions[r]
    BY <1>1, <1>2, <2>1, <2>2, <2>4
  <2> QED
    BY <1>1, <1>3, <1>4, <1>6, <2>1, <2>4, <2>5 DEF k, Seated
<1> QED
  BY <1>5, <1>6

-----------------------------------------------------------------------------
(* Seating keeps the invariant.                                              *)

(* The floor: the table was its own, or nobody's.                            *)
LEMMA SeatKeepsFloor ==
  ASSUME TypeInv, TableInv, NEW p \in Phones, NEW t \in Tables, NEW s \in Active \cup {0},
         Seat(p, t, s), overridden' = overridden,
         t \notin overridden /\ s # 0 => table[t].state = "occupied" /\ table[t].session = s,
         t \notin overridden /\ s = 0 => table[t].state # "occupied",
         t \notin overridden => HoldsOn(t)' = {},
         \A u \in Tables : u # t => HoldsOn(u)' = HoldsOn(u)
  PROVE  TableInv'
<1> DEFINE k == SeatOf(s)
<1>1. /\ 1..Len(sessions') = 1..Len(sessions) \cup {k}
      /\ \A r \in 1..Len(sessions) : r # k => sessions'[r] = sessions[r]
      /\ sessions'[k].active
      /\ t \in sessions'[k].tables
      /\ table'[t] = [state |-> "occupied", session |-> k]
      /\ \A u \in Tables : u # t => table'[u] = table[u]
      /\ \A u \in sessions'[k].tables : u = t \/ (s # 0 /\ u \in sessions[s].tables)
      /\ s # 0 => k = s /\ s \in Active /\ \A u \in sessions[s].tables : u \in sessions'[k].tables
      /\ s = 0 => k = Len(sessions) + 1
      /\ sessions' \in Seq(Session) /\ sessions \in Seq(Session)
  <2>0. Seated(p, t, s)
    BY Seating
  <2>1. /\ 1..Len(sessions') = 1..Len(sessions) \cup {k}
        /\ \A r \in 1..Len(sessions) : r # k => sessions'[r] = sessions[r]
        /\ sessions'[k].active
        /\ table'[t] = [state |-> "occupied", session |-> k]
        /\ \A u \in Tables : u # t => table'[u] = table[u]
        /\ sessions' \in Seq(Session)
    BY <2>0 DEF Seated
  <2>2. s = 0 => k = Len(sessions) + 1 /\ sessions'[k].tables = {t}
    BY <2>0 DEF Seated
  <2>3. s # 0 => k = s /\ s \in Active /\ sessions'[k].tables = sessions[s].tables \cup {t}
    BY <2>0 DEF Seated
  <2> HIDE DEF k
  <2>4. /\ t \in sessions'[k].tables
        /\ \A u \in sessions'[k].tables : u = t \/ (s # 0 /\ u \in sessions[s].tables)
    <3>1. CASE s = 0
      BY <2>2, <3>1
    <3>2. CASE s # 0
      BY <2>3, <3>2
    <3> QED
      BY <3>1, <3>2
  <2> QED
    BY <2>1, <2>2, <2>3, <2>4 DEF TypeInv
<1> HIDE DEF k
<1>2. Active' = Active \cup {k}
  <2>1. Active' = {r \in 1..Len(sessions') : sessions'[r].active}
    BY <1>1 DEF Active
  <2>2. Active = {r \in 1..Len(sessions) : sessions[r].active}
    BY <1>1 DEF Active
  <2> QED
    BY <1>1, <2>1, <2>2
<1> SUFFICES ASSUME NEW u \in Tables \ overridden
             PROVE  /\ table'[u].state = "occupied" =>
                          table'[u].session \in Active' /\ u \in sessions'[table'[u].session].tables
                    /\ table'[u].state # "occupied" => table'[u].session = 0
                    /\ \A r \in Active' : u \in sessions'[r].tables =>
                          table'[u].state = "occupied" /\ table'[u].session = r
                    /\ table'[u].state = "held" => \E o \in Orders : HoldsOn(u)' = {o}
                    /\ table'[u].state # "held" => HoldsOn(u)' = {}
  BY DEF TableInv
<1>3. ASSUME NEW r \in Active', u \in sessions'[r].tables, r # k
      PROVE  r \in Active /\ u \in sessions[r].tables
  BY <1>1, <1>2, <1>3 DEF Active
<1>4. CASE u = t
  <2>1. ASSUME NEW r \in Active', t \in sessions'[r].tables, r # k PROVE FALSE
    <3>1. table[t].state = "occupied" /\ table[t].session = r
      BY <1>3, <1>4, <2>1 DEF TableInv
    <3> QED
      BY <1>1, <1>4, <2>1, <3>1
  <2> QED
    BY <1>1, <1>2, <1>4, <2>1
<1>5. CASE u # t
  <2>1. table'[u] = table[u] /\ HoldsOn(u)' = HoldsOn(u)
    BY <1>1, <1>5
  <2>2. ASSUME NEW r \in Active', u \in sessions'[r].tables
        PROVE  r \in Active /\ u \in sessions[r].tables
    BY <1>1, <1>3, <1>5, <2>2
  <2>3. ASSUME NEW r \in Active, u \in sessions[r].tables
        PROVE  r \in Active' /\ u \in sessions'[r].tables
    <3>1. CASE r = k
      <4>1. r \in 1..Len(sessions) /\ Len(sessions) \in Nat
        BY DEF Active, TypeInv
      <4>2. s # 0
        BY <1>1, <3>1, <4>1
      <4> QED
        BY <1>1, <1>2, <2>3, <3>1, <4>2
    <3>2. CASE r # k
      BY <1>1, <1>2, <2>3, <3>2 DEF Active
    <3> QED
      BY <3>1, <3>2
  <2> QED
    BY <2>1, <2>2, <2>3 DEF TableInv
<1> QED
  BY <1>4, <1>5

(* The orders: whoever is in the session that is joined stays in it.          *)
LEMMA SeatKeepsOrders ==
  ASSUME IInv, NEW p \in Phones, NEW t \in Tables, NEW s \in Active \cup {0},
         Seat(p, t, s),
         \A x \in Orders :
            \/ order'[x] = order[x]
            \/ /\ order'[x].session = SeatOf(s)
               /\ x \in AppOrders => /\ p # NoPhone /\ order'[x].phone = p
                                     /\ s # 0 => sessions[s].phone \in {NoPhone, p}
  PROVE  OwedSessionStaysOpen' /\ SessionsAreTheGuests'
<1> DEFINE k == SeatOf(s)
<1>1. /\ 1..Len(sessions') = 1..Len(sessions) \cup {k}
      /\ \A r \in 1..Len(sessions) : r # k => sessions'[r] = sessions[r]
      /\ sessions'[k].active
      /\ s = 0 => k = Len(sessions) + 1 /\ sessions'[k].phone = p
      /\ s # 0 => /\ k = s /\ s \in Active
                  /\ sessions'[s].phone = IF sessions[s].phone = NoPhone THEN p
                                          ELSE sessions[s].phone
      /\ sessions' \in Seq(Session) /\ sessions \in Seq(Session)
      /\ Len(sessions) \in Nat
  <2>1. Seated(p, t, s)
    BY Seating DEF IInv
  <2>2. /\ 1..Len(sessions') = 1..Len(sessions) \cup {k}
        /\ \A r \in 1..Len(sessions) : r # k => sessions'[r] = sessions[r]
        /\ sessions'[k].active
        /\ sessions' \in Seq(Session)
    BY <2>1 DEF Seated
  <2>3. s = 0 => k = Len(sessions) + 1 /\ sessions'[k].phone = p
    BY <2>1 DEF Seated
  <2>4. s # 0 => /\ k = s /\ s \in Active
                 /\ sessions'[s].phone = IF sessions[s].phone = NoPhone THEN p
                                         ELSE sessions[s].phone
    BY <2>1 DEF Seated
  <2> QED
    BY <2>2, <2>3, <2>4 DEF IInv, TypeInv
<1> HIDE DEF k
<1>2. \A x \in Orders : order[x].session \in Nat /\ order[x].session <= Len(sessions)
  BY FiniteFloor DEF IInv, TypeInv, RowInv, Order
<1>3. OwedSessionStaysOpen'
  <2> SUFFICES ASSUME NEW x \in Orders, order'[x].session # 0, ~order'[x].paid,
                      order'[x].status \in {"pending", "confirmed"}
               PROVE  \/ sessions'[order'[x].session].active
                      \/ sessions'[order'[x].session].forced
    BY DEF OwedSessionStaysOpen
  <2>1. CASE order'[x].session = k
    BY <1>1, <2>1
  <2>2. CASE order'[x].session # k
    <3>1. order'[x] = order[x]
      BY <2>2 DEF k
    <3>2. order[x].session \in 1..Len(sessions)
      BY <1>1, <1>2, <3>1
    <3> QED
      BY <1>1, <2>2, <3>1, <3>2 DEF IInv, OwedSessionStaysOpen
  <2> QED
    BY <2>1, <2>2
<1>4. SessionsAreTheGuests'
  <2> SUFFICES ASSUME NEW x \in AppOrders, order'[x].session \in Active'
               PROVE  sessions'[order'[x].session].phone = order'[x].phone
    BY DEF SessionsAreTheGuests
  <2>1. x \in Orders
    BY DEF Orders
  <2>2. CASE order'[x] # order[x]
    BY <1>1, <2>1, <2>2 DEF k
  <2>3. CASE order'[x] = order[x]
    <3>1. order[x].session \in 1..Len(sessions)
      BY <1>1, <1>2, <2>1, <2>3 DEF Active
    <3>2. CASE order[x].session # k
      BY <1>1, <2>3, <3>1, <3>2 DEF IInv, SessionsAreTheGuests, Active
    <3>3. CASE order[x].session = k
      <4>1. s # 0 /\ order[x].session = s /\ s \in Active
        BY <1>1, <3>1, <3>3
      <4>2. sessions[s].phone = order[x].phone
        BY <4>1 DEF IInv, SessionsAreTheGuests
      <4>3. order[x].phone # NoPhone
        BY <2>1, <4>1, NobodyNowhere DEF IInv, RowInv
      <4> QED
        BY <1>1, <2>3, <4>1, <4>2, <4>3
    <3> QED
      BY <3>2, <3>3
  <2> QED
    BY <2>2, <2>3
<1> QED
  BY <1>3, <1>4

(* An order that takes its table.                                            *)
LEMMA SeatOrderKeeps ==
  ASSUME IInv, NEW o \in Orders, NEW p \in Phones, NEW sid, NEW fromApp, NEW change \in Order,
         order[o].status # "new", change.status # "new",
         change.table = order[o].table, change.phone = order[o].phone,
         o \in AppOrders => fromApp /\ p = order[o].phone,
         SeatOrder(o, p, sid, fromApp, change)
  PROVE  IInv'
<1>0. PICK t \in Tables : t = order[o].table
  BY DEF IInv, RowInv
<1>1. PICK s \in SessionFor(p, t, sid, fromApp, {o}) :
         /\ Seat(p, t, s)
         /\ order' = [order EXCEPT ![o] = [change EXCEPT !.session = SeatOf(s)]]
         /\ hold' = [hold EXCEPT ![o] = "none"]
         /\ overridden' = overridden
  BY <1>0 DEF SeatOrder
<1> DEFINE row == [change EXCEPT !.session = SeatOf(s)]
<1>3. /\ s \in Active \cup {0}
      /\ fromApp /\ p # NoPhone /\ s # 0 => sessions[s].phone \in {NoPhone, p}
      /\ t \notin overridden /\ s # 0 =>
            table[t].state = "occupied" /\ table[t].session = s
      /\ t \notin overridden /\ s = 0 =>
            \/ table[t].state = "available"
            \/ table[t].state = "held" /\ {o} \cap HoldsOn(t) # {}
  BY Found DEF IInv
<1>4. /\ sessions' \in Seq(Session) /\ Len(sessions') <= MaxSessions
      /\ Len(sessions') >= Len(sessions)
      /\ SeatOf(s) \in 1..Len(sessions') /\ SeatOf(s) \in 1..MaxSessions
      /\ table' \in [Tables -> Table]
  BY <1>1, <1>3, Seating DEF IInv, Seated
<1>5. /\ row \in Order /\ row.session = SeatOf(s) /\ row.status = change.status
      /\ row.table = t /\ row.phone = order[o].phone
  BY <1>0, <1>4, FiniteFloor DEF Order
<1> HIDE DEF row
<1>6. /\ order' \in [Orders -> Order] /\ order'[o] = row
      /\ \A x \in Orders : x # o => order'[x] = order[x]
      /\ hold' \in [Orders -> {"none", "active", "lapsed"}] /\ hold'[o] = "none"
      /\ \A x \in Orders : x # o => hold'[x] = hold[x]
  BY <1>1, <1>5 DEF IInv, TypeInv, row
<1>7. TypeInv'
  BY <1>4, <1>6 DEF TypeInv
<1>8. RowInv'
  <2> SUFFICES ASSUME NEW x \in Orders
               PROVE  /\ order'[x].session <= Len(sessions')
                      /\ order'[x].status = "new" => hold'[x] = "none" /\ order'[x].session = 0
                      /\ order'[x].status # "new" => order'[x].table \in Tables
                      /\ hold'[x] # "none" => order'[x].session = 0
                      /\ x \in AppOrders /\ order'[x].status # "new" => order'[x].phone \in Customers
    BY DEF RowInv
  <2>1. CASE x = o
    BY <1>4, <1>5, <1>6, <2>1 DEF IInv, RowInv
  <2>2. CASE x # o
    <3>1. order[x].session \in Nat /\ Len(sessions) \in Nat /\ Len(sessions') \in Nat
      BY <1>4, FiniteFloor DEF IInv, TypeInv, Order
    <3> QED
      BY <1>4, <1>6, <2>2, <3>1 DEF IInv, RowInv
  <2> QED
    BY <2>1, <2>2
<1>9. TableInv'
  <2>1. \A u \in Tables : HoldsOn(u)' = HoldsOn(u) \ {o}
    BY <1>0, <1>5, <1>6 DEF HoldsOn
  <2>2. \A u \in Tables : u # t => HoldsOn(u)' = HoldsOn(u)
    BY <1>0, <2>1 DEF HoldsOn
  <2>3. t \notin overridden => HoldsOn(t)' = {}
    <3> SUFFICES ASSUME t \notin overridden PROVE HoldsOn(t) \ {o} = {}
      BY <2>1
    <3>1. CASE table[t].state # "held"
      BY <3>1 DEF IInv, TableInv
    <3>2. CASE table[t].state = "held"
      <4>1. o \in HoldsOn(t)
        BY <1>3, <3>2
      <4>2. PICK x \in Orders : HoldsOn(t) = {x}
        BY <3>2 DEF IInv, TableInv
      <4> QED
        BY <4>1, <4>2
    <3> QED
      BY <3>1, <3>2
  <2>4. t \notin overridden /\ s = 0 => table[t].state # "occupied"
    BY <1>3
  <2>5. TypeInv /\ TableInv /\ Seat(p, t, s) /\ overridden' = overridden
    BY <1>1 DEF IInv
  <2>6. t \notin overridden /\ s # 0 => table[t].state = "occupied" /\ table[t].session = s
    BY <1>3
  <2> QED
    BY <1>3, <2>2, <2>3, <2>4, <2>5, <2>6, SeatKeepsFloor
<1>10. OwedSessionStaysOpen' /\ SessionsAreTheGuests'
  <2>1. o \in AppOrders => p # NoPhone /\ p = order[o].phone /\ fromApp
    BY NobodyNowhere DEF IInv, RowInv
  <2>2. \A x \in Orders :
            \/ order'[x] = order[x]
            \/ /\ order'[x].session = SeatOf(s)
               /\ x \in AppOrders => /\ p # NoPhone /\ order'[x].phone = p
                                     /\ s # 0 => sessions[s].phone \in {NoPhone, p}
    BY <1>3, <1>5, <1>6, <2>1
  <2> QED
    BY <1>1, <1>3, <2>2, SeatKeepsOrders
<1> QED
  BY <1>7, <1>8, <1>9, <1>10 DEF IInv

-----------------------------------------------------------------------------
(* What the other actions have in common.                                    *)

(* One order's row is written.                                               *)
LEMMA RowKeeps ==
  ASSUME TypeInv, RowInv, NEW o \in Orders, NEW row \in Order,
         order' = [order EXCEPT ![o] = row], Len(sessions') = Len(sessions),
         hold' \in [Orders -> {"none", "active", "lapsed"}],
         \A x \in Orders : x # o => hold'[x] = hold[x],
         row.session <= Len(sessions), row.status # "new", row.table \in Tables,
         hold'[o] # "none" => row.session = 0,
         o \in AppOrders => row.phone \in Customers
  PROVE  /\ order' \in [Orders -> Order] /\ RowInv'
         /\ order'[o] = row /\ \A x \in Orders : x # o => order'[x] = order[x]
<1>1. /\ order' \in [Orders -> Order] /\ order'[o] = row
      /\ \A x \in Orders : x # o => order'[x] = order[x]
  BY DEF TypeInv
<1>2. ASSUME NEW x \in Orders
      PROVE  /\ order'[x].session <= Len(sessions')
             /\ order'[x].status = "new" => hold'[x] = "none" /\ order'[x].session = 0
             /\ order'[x].status # "new" => order'[x].table \in Tables
             /\ hold'[x] # "none" => order'[x].session = 0
             /\ x \in AppOrders /\ order'[x].status # "new" => order'[x].phone \in Customers
  <2>1. CASE x = o
    BY <1>1, <2>1
  <2>2. CASE x # o
    BY <1>1, <2>2 DEF RowInv
  <2> QED
    BY <2>1, <2>2
<1> QED
  BY <1>1, <1>2 DEF RowInv

(* The floor stays when tables, holds and the sessions' tables do.            *)
LEMMA SameFloor ==
  ASSUME TypeInv, TableInv, table' = table, overridden' = overridden,
         sessions' \in Seq(Session), Len(sessions') = Len(sessions),
         \A r \in 1..Len(sessions) : /\ sessions'[r].active = sessions[r].active
                                     /\ sessions'[r].tables = sessions[r].tables,
         \A u \in Tables : HoldsOn(u)' = HoldsOn(u)
  PROVE  TableInv'
<1>1. Active' = Active /\ Active \subseteq 1..Len(sessions)
  BY DEF TypeInv, Active
<1>2. \A r \in Active : sessions'[r].tables = sessions[r].tables
  BY <1>1
<1> SUFFICES ASSUME NEW u \in Tables \ overridden
             PROVE  /\ table[u].state = "occupied" =>
                          table[u].session \in Active /\ u \in sessions'[table[u].session].tables
                    /\ table[u].state # "occupied" => table[u].session = 0
                    /\ \A r \in Active : u \in sessions'[r].tables =>
                          table[u].state = "occupied" /\ table[u].session = r
                    /\ table[u].state = "held" => \E o \in Orders : HoldsOn(u)' = {o}
                    /\ table[u].state # "held" => HoldsOn(u)' = {}
  BY <1>1 DEF TableInv
<1>3. HoldsOn(u)' = HoldsOn(u)
  OBVIOUS
<1> QED
  BY <1>2, <1>3 DEF TableInv

(* Sessions stay open, and orders join only open ones.                       *)
LEMMA OwedKept ==
  ASSUME IInv, Len(sessions') = Len(sessions),
         \A r \in 1..Len(sessions) : /\ sessions'[r].active = sessions[r].active
                                     /\ sessions'[r].forced = sessions[r].forced,
         \A x \in Orders :
            \/ order'[x].session \in Active \cup {0}
            \/ order'[x].paid
            \/ order'[x].status = "dropped"
            \/ /\ order'[x].session = order[x].session
               /\ order'[x].paid = order[x].paid
               /\ order'[x].status = order[x].status
  PROVE  OwedSessionStaysOpen'
<1>1. Active \subseteq 1..Len(sessions) /\ Len(sessions) \in Nat
  BY DEF IInv, TypeInv, Active
<1> SUFFICES ASSUME NEW x \in Orders, order'[x].session # 0, ~order'[x].paid,
                    order'[x].status \in {"pending", "confirmed"}
             PROVE  \/ sessions'[order'[x].session].active
                    \/ sessions'[order'[x].session].forced
  BY DEF OwedSessionStaysOpen
<1>2. CASE order'[x].session \in Active
  BY <1>1, <1>2 DEF Active
<1>3. CASE /\ order'[x].session = order[x].session
           /\ order'[x].paid = order[x].paid
           /\ order'[x].status = order[x].status
  <2>1. order[x].session \in 1..Len(sessions)
    BY <1>1, <1>3, FiniteFloor DEF IInv, TypeInv, RowInv, Order
  <2> QED
    BY <1>3, <2>1 DEF IInv, OwedSessionStaysOpen
<1> QED
  BY <1>2, <1>3

(* A hold goes with the table's state.                                       *)
LEMMA Freeing ==
  ASSUME TypeInv, TableInv, NEW gone \in SUBSET Orders,
         sessions' = sessions, overridden' = overridden,
         \A x \in gone : hold[x] # "none",
         \A x \in Orders : hold'[x] = IF x \in gone THEN "none" ELSE hold[x],
         \A x \in Orders : order'[x].table = order[x].table,
         table' = Freed({order[x].table : x \in gone})
  PROVE  table' \in [Tables -> Table] /\ TableInv'
<1>1. table' \in [Tables -> Table]
  BY FiniteFloor DEF TypeInv, Freed, Free, Table
<1>2. \A u \in Tables : HoldsOn(u)' = HoldsOn(u) \ gone
  BY DEF HoldsOn
<1>3. Active' = Active
  BY DEF Active
<1> SUFFICES ASSUME NEW u \in Tables \ overridden
             PROVE  /\ table'[u].state = "occupied" =>
                          table'[u].session \in Active /\ u \in sessions[table'[u].session].tables
                    /\ table'[u].state # "occupied" => table'[u].session = 0
                    /\ \A r \in Active : u \in sessions[r].tables =>
                          table'[u].state = "occupied" /\ table'[u].session = r
                    /\ table'[u].state = "held" => \E o \in Orders : HoldsOn(u)' = {o}
                    /\ table'[u].state # "held" => HoldsOn(u)' = {}
  BY <1>1, <1>3 DEF TableInv
<1>4. CASE u \in {order[x].table : x \in gone}
  <2>1. PICK x \in gone : u = order[x].table
    BY <1>4
  <2>2. x \in HoldsOn(u)
    BY <2>1 DEF HoldsOn
  <2>3. table[u].state = "held" /\ HoldsOn(u) = {x}
    BY <2>2 DEF TableInv
  <2>4. table'[u] = [state |-> "available", session |-> 0]
    BY <1>4 DEF Freed, Free
  <2>5. HoldsOn(u)' = {}
    BY <1>2, <2>3
  <2> QED
    BY <2>3, <2>4, <2>5 DEF TableInv
<1>5. CASE u \notin {order[x].table : x \in gone}
  <2>1. HoldsOn(u)' = HoldsOn(u)
    BY <1>2, <1>5 DEF HoldsOn
  <2>2. table'[u] = table[u]
    BY <1>5 DEF Freed
  <2>3. /\ table[u].state = "held" => \E o \in Orders : HoldsOn(u) = {o}
        /\ table[u].state # "held" => HoldsOn(u) = {}
    BY DEF TableInv
  <2>4. /\ table[u].state = "occupied" =>
              table[u].session \in Active /\ u \in sessions[table[u].session].tables
        /\ table[u].state # "occupied" => table[u].session = 0
        /\ \A r \in Active : u \in sessions[r].tables =>
              table[u].state = "occupied" /\ table[u].session = r
    BY DEF TableInv
  <2> QED
    BY <2>1, <2>2, <2>3, <2>4
<1> QED
  BY <1>4, <1>5

(* An order that is placed, or whose checkout is sent again, takes a hold at a  *)
(* free table, or none at one where its guest sits.                          *)
LEMMA HoldingKeeps ==
  ASSUME TypeInv, RowInv, TableInv, NEW o \in Orders, NEW t \in Tables, NEW p,
         NEW row \in Order, hold[o] = "none" \/ order[o].table = t, row.table = t,
         order' = [order EXCEPT ![o] = row],
         Available(t, p), WriteHold(o, t), sessions' = sessions, overridden' = overridden
  PROVE  /\ table' \in [Tables -> Table] /\ TableInv'
         /\ hold' \in [Orders -> {"none", "active", "lapsed"}]
         /\ \A x \in Orders : x # o => hold'[x] = hold[x]
<1>1. /\ hold[o] = "none" \/ order[o].table = t
      /\ order'[o].table = t
      /\ \A x \in Orders : x # o => order'[x] = order[x]
  BY DEF TypeInv
<1>2. CASE table[t].state = "occupied"
  <2>1. hold' = hold /\ table' = table
    BY <1>2 DEF WriteHold
  <2>2. \A u \in Tables : HoldsOn(u)' = HoldsOn(u)
    BY <1>1, <2>1 DEF HoldsOn
  <2>3. TableInv'
    BY <2>1, <2>2, SameFloor DEF TypeInv
  <2> QED
    BY <2>1, <2>3 DEF TypeInv
<1>3. CASE table[t].state # "occupied"
  <2>1. /\ hold' = [hold EXCEPT ![o] = "active"]
        /\ table' = [table EXCEPT ![t].state = "held"]
        /\ table[t].state = "available"
    BY <1>3 DEF WriteHold, Available, SessionAt
  <2>2. /\ hold' \in [Orders -> {"none", "active", "lapsed"}] /\ hold'[o] = "active"
        /\ \A x \in Orders : x # o => hold'[x] = hold[x]
    BY <2>1 DEF TypeInv
  <2>3. table[t] \in Table
    BY DEF TypeInv
  <2>4. /\ table' \in [Tables -> Table]
        /\ table'[t].state = "held" /\ table'[t].session = table[t].session
        /\ \A u \in Tables : u # t => table'[u] = table[u]
    BY <2>1, <2>3 DEF TypeInv, Table
  <2>5. Active' = Active
    BY DEF Active
  <2>6. TableInv'
    <3> SUFFICES ASSUME NEW u \in Tables \ overridden
                 PROVE  /\ table'[u].state = "occupied" =>
                              table'[u].session \in Active /\ u \in sessions[table'[u].session].tables
                        /\ table'[u].state # "occupied" => table'[u].session = 0
                        /\ \A r \in Active : u \in sessions[r].tables =>
                              table'[u].state = "occupied" /\ table'[u].session = r
                        /\ table'[u].state = "held" => \E x \in Orders : HoldsOn(u)' = {x}
                        /\ table'[u].state # "held" => HoldsOn(u)' = {}
      BY <2>4, <2>5 DEF TableInv
    <3>1. CASE u = t
      <4>1. HoldsOn(t) = {}
        BY <2>1, <3>1 DEF TableInv
      <4>2. HoldsOn(t)' = {o}
        BY <1>1, <2>2, <4>1 DEF HoldsOn
      <4> QED
        BY <2>1, <2>4, <3>1, <4>2 DEF TableInv
    <3>2. CASE u # t
      <4>1. HoldsOn(u)' = HoldsOn(u)
        BY <1>1, <2>2, <3>2 DEF HoldsOn
      <4> QED
        BY <2>4, <3>2, <4>1 DEF TableInv
    <3> QED
      BY <3>1, <3>2
  <2> QED
    BY <2>2, <2>4, <2>6
<1> QED
  BY <1>2, <1>3

-----------------------------------------------------------------------------
(* Orders and holds.                                                         *)

(* A hold that lapsed still holds its table until it is swept.               *)
LEMMA HoldLapsesKeeps ==
  ASSUME IInv, NEW o \in Orders, HoldLapses(o)
  PROVE  IInv'
<1>1. /\ hold[o] = "active" /\ hold' = [hold EXCEPT ![o] = "lapsed"]
      /\ table' = table /\ sessions' = sessions /\ order' = order /\ overridden' = overridden
  BY DEF HoldLapses
<1>2. TypeInv' /\ RowInv'
  BY <1>1 DEF IInv, TypeInv, RowInv
<1>3. \A u \in Tables : HoldsOn(u)' = HoldsOn(u)
  BY <1>1 DEF IInv, TypeInv, HoldsOn
<1>4. TableInv'
  BY <1>1, <1>3, SameFloor DEF IInv, TypeInv
<1>5. OwedSessionStaysOpen' /\ SessionsAreTheGuests'
  BY <1>1 DEF IInv, OwedSessionStaysOpen, SessionsAreTheGuests, Active
<1> QED
  BY <1>2, <1>4, <1>5 DEF IInv

(* The sweep removes the lapsed holds and frees their tables.                *)
LEMMA SweepKeeps ==
  ASSUME IInv, Sweep
  PROVE  IInv'
<1>1. /\ hold' = [o \in Orders |-> IF o \in Lapsed THEN "none" ELSE hold[o]]
      /\ table' = Freed({order[o].table : o \in Lapsed})
      /\ sessions' = sessions /\ order' = order /\ overridden' = overridden
  BY DEF Sweep
<1>2. Lapsed \in SUBSET Orders /\ \A o \in Lapsed : hold[o] # "none"
  BY DEF Lapsed
<1>3. table' \in [Tables -> Table] /\ TableInv'
  BY <1>1, <1>2, Freeing DEF IInv
<1>4. TypeInv' /\ RowInv'
  BY <1>1, <1>3 DEF IInv, TypeInv, RowInv
<1>5. OwedSessionStaysOpen' /\ SessionsAreTheGuests'
  BY <1>1 DEF IInv, OwedSessionStaysOpen, SessionsAreTheGuests, Active
<1> QED
  BY <1>3, <1>4, <1>5 DEF IInv

(* The session an order is placed into is open, and its guest's or nobody's.  *)
LEMMA ContextIsOpen ==
  ASSUME TypeInv, NEW p \in Customers, NEW t \in Tables, NEW s \in Context(p, t)
  PROVE  s \in Active \cup {0} /\ (s # 0 => OpenTo(s, p))
<1>1. CASE ActiveOf(p) # {}
  BY <1>1, Latest DEF Context, ActiveOf, OpenTo
<1>2. CASE ActiveOf(p) = {}
  BY <1>2 DEF Context, SessionAt
<1> QED
  BY <1>1, <1>2

(* A new order is pending, at a table, in a session that was opened or in none. *)
LEMMA NewOrderType ==
  ASSUME TypeInv, NEW p \in Phones, NEW t \in Tables, NEW s \in Active \cup {0}
  PROVE  /\ NewOrder(p, t, s) \in Order
         /\ NewOrder(p, t, s).status = "pending" /\ NewOrder(p, t, s).phone = p
         /\ NewOrder(p, t, s).table = t /\ NewOrder(p, t, s).session = s
         /\ s <= Len(sessions)
<1>1. s \in 0..MaxSessions /\ s <= Len(sessions)
  BY FiniteFloor DEF TypeInv, Active
<1> QED
  BY <1>1 DEF NewOrder, Order

(* Who is in an open session is in it still when its guest becomes known.     *)
LEMMA BindingKeepsGuests ==
  ASSUME IInv, NEW s \in Active, NEW p \in Phones, sessions' = Bound(s, p),
         \A x \in AppOrders : \/ order'[x] = order[x]
                              \/ /\ order'[x].session = s /\ order'[x].phone = p
                                 /\ p # NoPhone /\ OpenTo(s, p)
  PROVE  SessionsAreTheGuests'
<1>1. /\ sessions \in Seq(Session) /\ Active \subseteq 1..Len(sessions) /\ 0 \notin Active
      /\ s \in 1..Len(sessions)
  BY DEF IInv, TypeInv, Active
<1>2. /\ sessions' \in Seq(Session) /\ Len(sessions') = Len(sessions)
      /\ \A r \in 1..Len(sessions) : r # s => sessions'[r] = sessions[r]
      /\ sessions'[s] = [sessions[s] EXCEPT !.phone = IF @ = NoPhone THEN p ELSE @]
  BY Binding DEF IInv
<1>3. sessions[s] \in Session
  BY <1>1
<1>4. sessions'[s].phone = IF sessions[s].phone = NoPhone THEN p ELSE sessions[s].phone
  BY <1>2, <1>3 DEF Session
<1>5. \A r \in 1..Len(sessions) : sessions'[r].active = sessions[r].active
  BY <1>2, <1>3 DEF Session
<1>6. Active' = Active
  BY <1>1, <1>2, <1>5 DEF Active
<1> SUFFICES ASSUME NEW x \in AppOrders, order'[x].session \in Active
             PROVE  sessions'[order'[x].session].phone = order'[x].phone
  BY <1>6 DEF SessionsAreTheGuests
<1>7. CASE order'[x] = order[x]
  <2>1. sessions[order[x].session].phone = order[x].phone
    BY <1>7 DEF IInv, SessionsAreTheGuests
  <2>2. order[x].phone # NoPhone
    BY <1>1, <1>7, NobodyNowhere DEF IInv, RowInv, Orders
  <2> QED
    BY <1>1, <1>2, <1>4, <1>7, <2>1, <2>2
<1>8. CASE order'[x] # order[x]
  BY <1>4, <1>8 DEF OpenTo
<1> QED
  BY <1>7, <1>8

(* An app order joins a session or takes a hold on a free table.             *)
LEMMA PlaceOrderKeeps ==
  ASSUME IInv, NEW o \in AppOrders, NEW p \in Customers, NEW t \in Tables, PlaceOrder(o, p, t)
  PROVE  IInv'
<1>0. o \in Orders /\ p \in Phones /\ p # NoPhone /\ TypeInv /\ RowInv /\ TableInv
  BY NobodyNowhere DEF IInv, Orders, Phones
<1>1. PICK s \in Context(p, t) :
        /\ order' = [order EXCEPT ![o] = NewOrder(p, t, s)]
        /\ IF s = 0 THEN WriteHold(o, t) /\ sessions' = sessions
           ELSE sessions' = Bound(s, p) /\ hold' = hold /\ table' = table
  BY DEF PlaceOrder
<1>2. order[o].status = "new" /\ Available(t, p) /\ overridden' = overridden
  BY DEF PlaceOrder
<1>3. s \in Active \cup {0} /\ (s # 0 => OpenTo(s, p))
  BY <1>0, ContextIsOpen
<1> DEFINE row == NewOrder(p, t, s)
<1>4. /\ row \in Order /\ row.status = "pending" /\ row.phone = p
      /\ row.table = t /\ row.session = s /\ s <= Len(sessions)
  BY <1>0, <1>3, NewOrderType
<1> HIDE DEF row
<1>5. order' = [order EXCEPT ![o] = row] /\ order'[o] = row
      /\ \A x \in Orders : x # o => order'[x] = order[x]
  BY <1>0, <1>1 DEF row, TypeInv
<1>6. hold[o] = "none"
  BY <1>0, <1>2 DEF RowInv
<1>7. CASE s = 0
  <2>1. WriteHold(o, t) /\ sessions' = sessions
    BY <1>1, <1>7
  <2>2. /\ table' \in [Tables -> Table] /\ TableInv'
        /\ hold' \in [Orders -> {"none", "active", "lapsed"}]
        /\ \A x \in Orders : x # o => hold'[x] = hold[x]
    BY <1>0, <1>2, <1>4, <1>5, <1>6, <2>1, HoldingKeeps
  <2>3. order' \in [Orders -> Order] /\ RowInv'
    BY <1>0, <1>4, <1>5, <1>7, <2>1, <2>2, RowKeeps
  <2>4. OwedSessionStaysOpen'
    BY <1>3, <1>4, <1>5, <1>7, <2>1, OwedKept
  <2>5. SessionsAreTheGuests'
    <3>1. 0 \notin Active
      BY DEF Active, IInv, TypeInv
    <3> QED
      BY <1>4, <1>5, <1>7, <2>1, <3>1 DEF IInv, SessionsAreTheGuests, Active, Orders
  <2> QED
    BY <1>0, <2>1, <2>2, <2>3, <2>4, <2>5 DEF IInv, TypeInv
<1>8. CASE s # 0
  <2>1. sessions' = Bound(s, p) /\ hold' = hold /\ table' = table /\ s \in Active
    BY <1>1, <1>3, <1>8
  <2>2. /\ sessions' \in Seq(Session) /\ Len(sessions') = Len(sessions)
        /\ \A r \in 1..Len(sessions) : r # s => sessions'[r] = sessions[r]
        /\ sessions'[s] = [sessions[s] EXCEPT !.phone = IF @ = NoPhone THEN p ELSE @]
    BY <1>0, <2>1, Binding
  <2>3. sessions[s] \in Session
    BY <1>0, <2>1 DEF TypeInv, Active
  <2>4. \A r \in 1..Len(sessions) : /\ sessions'[r].active = sessions[r].active
                                    /\ sessions'[r].forced = sessions[r].forced
                                    /\ sessions'[r].tables = sessions[r].tables
    BY <2>2, <2>3 DEF Session
  <2>5. \A u \in Tables : HoldsOn(u)' = HoldsOn(u)
    BY <1>5, <1>6, <2>1 DEF HoldsOn
  <2>6. TableInv'
    BY <1>0, <1>2, <2>1, <2>2, <2>4, <2>5, SameFloor
  <2>7. order' \in [Orders -> Order] /\ RowInv'
    BY <1>0, <1>4, <1>5, <1>6, <2>1, <2>2, RowKeeps DEF TypeInv
  <2>8. OwedSessionStaysOpen'
    BY <1>4, <1>5, <2>1, <2>2, <2>4, OwedKept
  <2>9. SessionsAreTheGuests'
    BY <1>0, <1>3, <1>4, <1>5, <1>8, <2>1, BindingKeepsGuests DEF Orders
  <2> QED
    BY <1>0, <2>1, <2>2, <2>6, <2>7, <2>8, <2>9 DEF IInv, TypeInv
<1> QED
  BY <1>7, <1>8

(* A row that stays in its session, or in none.                              *)
LEMMA RowInPlace ==
  ASSUME IInv, NEW o \in Orders, NEW row \in Order,
         order' = [order EXCEPT ![o] = row], sessions' = sessions,
         \/ row.session = 0
         \/ row.session = order[o].session /\ row.phone = order[o].phone,
         \/ row.session = 0 \/ row.paid \/ row.status = "dropped"
         \/ row.paid = order[o].paid /\ row.status = order[o].status
  PROVE  OwedSessionStaysOpen' /\ SessionsAreTheGuests'
<1>1. order'[o] = row /\ \A x \in Orders : x # o => order'[x] = order[x]
  BY DEF IInv, TypeInv
<1>2. 0 \notin Active /\ Active' = Active
  BY DEF IInv, TypeInv, Active
<1>3. \A x \in Orders :
            \/ order'[x].session \in Active \cup {0}
            \/ order'[x].paid
            \/ order'[x].status = "dropped"
            \/ /\ order'[x].session = order[x].session
               /\ order'[x].paid = order[x].paid
               /\ order'[x].status = order[x].status
  BY <1>1
<1>4. OwedSessionStaysOpen'
  BY <1>3, OwedKept
<1>5. SessionsAreTheGuests'
  BY <1>1, <1>2 DEF IInv, SessionsAreTheGuests, Orders
<1> QED
  BY <1>4, <1>5

(* A checkout sent again writes no row: its hold is new, or the one it has.   *)
LEMMA RetryCheckoutKeeps ==
  ASSUME IInv, NEW o \in AppOrders, RetryCheckout(o)
  PROVE  IInv'
<1>0. o \in Orders /\ TypeInv /\ RowInv /\ TableInv
  BY DEF IInv, Orders
<1> DEFINE t == order[o].table
           p == order[o].phone
<1>1. /\ order[o].status # "new" /\ order[o].session = 0
      /\ Available(t, p) /\ WriteHold(o, t)
      /\ sessions' = sessions /\ order' = order /\ overridden' = overridden
  BY DEF RetryCheckout
<1>2. /\ order[o] \in Order /\ t \in Tables
      /\ order' = [order EXCEPT ![o] = order[o]]
  BY <1>0, <1>1 DEF TypeInv, RowInv
<1>3. /\ table' \in [Tables -> Table] /\ TableInv'
      /\ hold' \in [Orders -> {"none", "active", "lapsed"}]
      /\ \A x \in Orders : x # o => hold'[x] = hold[x]
  BY <1>0, <1>1, <1>2, HoldingKeeps
<1>4. RowInv'
  BY <1>0, <1>1, <1>3 DEF RowInv
<1>5. OwedSessionStaysOpen' /\ SessionsAreTheGuests'
  BY <1>1 DEF IInv, OwedSessionStaysOpen, SessionsAreTheGuests, Active
<1> QED
  BY <1>0, <1>1, <1>3, <1>4, <1>5 DEF IInv, TypeInv

(* A bill held at the till takes its table with a hold, and no session.      *)
LEMMA HoldBillKeeps ==
  ASSUME IInv, NEW o \in CashierOrders, NEW p \in Phones, NEW t \in Tables, HoldBill(o, p, t)
  PROVE  IInv'
<1>0. o \in Orders /\ o \notin AppOrders /\ TypeInv /\ RowInv /\ TableInv
  BY DistinctOrders DEF IInv, Orders
<1> DEFINE row == [NewOrder(p, t, 0) EXCEPT !.bill = TRUE]
<1>1. /\ row \in Order /\ row.status = "pending" /\ row.table = t /\ row.session = 0
      /\ 0 <= Len(sessions)
  <2>1. NewOrder(p, t, 0) \in Order /\ 0 <= Len(sessions)
    BY <1>0, NewOrderType
  <2> QED
    BY <2>1 DEF NewOrder, Order
<1>2. /\ order[o].status = "new" /\ Available(t, p) /\ WriteHold(o, t)
      /\ order' = [order EXCEPT ![o] = row]
      /\ sessions' = sessions /\ overridden' = overridden
  BY DEF HoldBill
<1> HIDE DEF row
<1>3. /\ table' \in [Tables -> Table] /\ TableInv'
      /\ hold' \in [Orders -> {"none", "active", "lapsed"}]
      /\ \A x \in Orders : x # o => hold'[x] = hold[x]
  BY <1>0, <1>1, <1>2, HoldingKeeps DEF RowInv
<1>4. order' \in [Orders -> Order] /\ RowInv'
  BY <1>0, <1>1, <1>2, <1>3, RowKeeps
<1>5. OwedSessionStaysOpen' /\ SessionsAreTheGuests'
  BY <1>0, <1>1, <1>2, RowInPlace
<1> QED
  BY <1>0, <1>2, <1>3, <1>4, <1>5 DEF IInv, TypeInv

(* A row written beside the floor: no hold of the order is concerned.         *)
LEMMA RowBesideFloor ==
  ASSUME IInv, NEW o \in Orders, NEW row \in Order,
         order' = [order EXCEPT ![o] = row],
         table' = table, sessions' = sessions, hold' = hold, overridden' = overridden,
         row.status # "new", row.table \in Tables, row.session <= Len(sessions),
         \/ hold[o] = "none"
         \/ row.table = order[o].table /\ row.session = order[o].session,
         o \in AppOrders => row.phone \in Customers,
         \/ row.session = 0
         \/ row.session = order[o].session /\ row.phone = order[o].phone,
         \/ row.session = 0 \/ row.paid \/ row.status = "dropped"
         \/ row.paid = order[o].paid /\ row.status = order[o].status
  PROVE  IInv'
<1>1. TypeInv /\ RowInv /\ TableInv
  BY DEF IInv
<1>2. hold'[o] # "none" => row.session = 0
  BY <1>1 DEF RowInv
<1>3. /\ order' \in [Orders -> Order] /\ RowInv'
      /\ order'[o] = row /\ \A x \in Orders : x # o => order'[x] = order[x]
  BY <1>1, <1>2, RowKeeps DEF TypeInv
<1>4. \A u \in Tables : HoldsOn(u)' = HoldsOn(u)
  BY <1>3 DEF HoldsOn
<1>5. TableInv'
  BY <1>1, <1>4, SameFloor DEF TypeInv
<1>6. OwedSessionStaysOpen' /\ SessionsAreTheGuests'
  BY RowInPlace
<1> QED
  BY <1>1, <1>3, <1>5, <1>6 DEF IInv, TypeInv

(* A sale at the till names a table, which it neither holds nor takes.       *)
LEMMA SellAtTableKeeps ==
  ASSUME IInv, NEW o \in CashierOrders, NEW p \in Phones, NEW t \in Tables, SellAtTable(o, p, t)
  PROVE  IInv'
<1>0. o \in Orders /\ o \notin AppOrders /\ TypeInv /\ RowInv
  BY DistinctOrders DEF IInv, Orders
<1>1. PICK status \in {"pending", "confirmed"} :
         order' = [order EXCEPT ![o] = [NewOrder(p, t, 0) EXCEPT !.status = status]]
  BY DEF SellAtTable
<1> DEFINE row == [NewOrder(p, t, 0) EXCEPT !.status = status]
<1>2. /\ row \in Order /\ row.status # "new" /\ row.table \in Tables /\ row.session = 0
      /\ 0 <= Len(sessions)
  <2>1. NewOrder(p, t, 0) \in Order /\ 0 <= Len(sessions)
    BY <1>0, NewOrderType
  <2> QED
    BY <2>1 DEF NewOrder, Order
<1>3. /\ order[o].status = "new"
      /\ table' = table /\ sessions' = sessions /\ hold' = hold /\ overridden' = overridden
  BY DEF SellAtTable
<1>4. hold[o] = "none"
  BY <1>0, <1>3 DEF RowInv
<1> HIDE DEF row
<1>5. order' = [order EXCEPT ![o] = row]
  BY <1>1 DEF row
<1> QED
  BY <1>0, <1>2, <1>3, <1>4, <1>5, RowBesideFloor

(* What is known of an order that was placed.                                *)
LEMMA Placed ==
  ASSUME IInv, NEW o \in Orders, order[o].status # "new"
  PROVE  /\ order[o] \in Order /\ order[o].table \in Tables /\ order[o].phone \in Phones
         /\ order[o].session <= Len(sessions)
         /\ o \in AppOrders => order[o].phone \in Customers
  BY DEF IInv, TypeInv, RowInv, Order

(* An order is dropped and its hold is left behind.                          *)
LEMMA DropWithoutHoldKeeps ==
  ASSUME IInv, NEW o \in Orders, DropWithoutHold(o)
  PROVE  IInv'
<1> DEFINE row == [order[o] EXCEPT !.status = "dropped"]
<1>1. /\ order[o].status = "pending" /\ order' = [order EXCEPT ![o] = row]
      /\ table' = table /\ sessions' = sessions /\ hold' = hold /\ overridden' = overridden
  BY DEF DropWithoutHold, Dropped
<1>2. /\ order[o] \in Order /\ order[o].table \in Tables
      /\ order[o].session <= Len(sessions)
      /\ o \in AppOrders => order[o].phone \in Customers
  BY <1>1, Placed
<1>3. /\ row \in Order /\ row.status = "dropped" /\ row.table = order[o].table
      /\ row.session = order[o].session /\ row.phone = order[o].phone
  BY <1>2 DEF Order
<1> HIDE DEF row
<1> QED
  BY <1>1, <1>2, <1>3, RowBesideFloor

(* A settlement without seating changes the order only.                      *)
LEMMA SettleOnlyKeeps ==
  ASSUME IInv, NEW o \in Orders, SettleOnly(o)
  PROVE  IInv'
<1> DEFINE row == [order[o] EXCEPT !.paid = TRUE]
<1>1. /\ order[o].status # "new" /\ order' = [order EXCEPT ![o] = row]
      /\ table' = table /\ sessions' = sessions /\ hold' = hold /\ overridden' = overridden
  BY DEF SettleOnly
<1>2. /\ order[o] \in Order /\ order[o].table \in Tables
      /\ order[o].session <= Len(sessions)
      /\ o \in AppOrders => order[o].phone \in Customers
  BY <1>1, Placed
<1>3. /\ row \in Order /\ row.status = order[o].status /\ row.paid /\ row.table = order[o].table
      /\ row.session = order[o].session /\ row.phone = order[o].phone
  BY <1>2 DEF Order
<1> HIDE DEF row
<1> QED
  BY <1>1, <1>2, <1>3, RowBesideFloor

(* An order is dropped together with its hold.                               *)
LEMMA DropKeeps ==
  ASSUME IInv, NEW o \in Orders, Drop(o)
  PROVE  IInv'
<1>0. TypeInv /\ RowInv /\ TableInv
  BY DEF IInv
<1> DEFINE row == [order[o] EXCEPT !.status = "dropped"]
           gone == {x \in {o} : hold[x] # "none"}
<1>1. /\ order[o].status = "pending" /\ order' = [order EXCEPT ![o] = row]
      /\ hold' = [hold EXCEPT ![o] = "none"]
      /\ table' = Freed({t \in {order[o].table} : hold[o] # "none"})
      /\ sessions' = sessions /\ overridden' = overridden
  BY DEF Drop, Dropped
<1>2. /\ order[o] \in Order /\ order[o].table \in Tables
      /\ order[o].session <= Len(sessions)
      /\ o \in AppOrders => order[o].phone \in Customers
  BY <1>1, Placed
<1>3. /\ row \in Order /\ row.status = "dropped" /\ row.table = order[o].table
      /\ row.session = order[o].session /\ row.phone = order[o].phone
  BY <1>2 DEF Order
<1> HIDE DEF row
<1>4. /\ hold' \in [Orders -> {"none", "active", "lapsed"}] /\ hold'[o] = "none"
      /\ \A x \in Orders : x # o => hold'[x] = hold[x]
  BY <1>0, <1>1 DEF TypeInv
<1>5. /\ order' \in [Orders -> Order] /\ RowInv'
      /\ order'[o] = row /\ \A x \in Orders : x # o => order'[x] = order[x]
  BY <1>0, <1>1, <1>2, <1>3, <1>4, RowKeeps
<1>6. table' \in [Tables -> Table] /\ TableInv'
  <2>1. {t \in {order[o].table} : hold[o] # "none"} = {order[x].table : x \in gone}
    OBVIOUS
  <2>2. /\ gone \in SUBSET Orders /\ \A x \in gone : hold[x] # "none"
        /\ \A x \in Orders : hold'[x] = IF x \in gone THEN "none" ELSE hold[x]
    BY <1>4
  <2>3. \A x \in Orders : order'[x].table = order[x].table
    BY <1>3, <1>5
  <2>4. table' = Freed({order[x].table : x \in gone})
    BY <1>1, <2>1
  <2> HIDE DEF gone
  <2> QED
    BY <1>0, <1>1, <2>2, <2>3, <2>4, Freeing
<1>7. OwedSessionStaysOpen' /\ SessionsAreTheGuests'
  BY <1>1, <1>3, RowInPlace
<1> QED
  BY <1>0, <1>1, <1>4, <1>5, <1>6, <1>7 DEF IInv, TypeInv

(* Acceptance seats the order in the session that it was placed in, if any.  *)
LEMMA AcceptKeeps ==
  ASSUME IInv, NEW o \in Orders, Accept(o)
  PROVE  IInv'
<1> DEFINE change == [order[o] EXCEPT !.status = "confirmed"]
<1>1. order[o].status = "pending"
      /\ SeatOrder(o, order[o].phone, order[o].session, o \in AppOrders, change)
  BY DEF Accept
<1>2. order[o] \in Order /\ order[o].phone \in Phones
  BY <1>1, Placed
<1>3. /\ change \in Order /\ change.status # "new"
      /\ change.table = order[o].table /\ change.phone = order[o].phone
  BY <1>2 DEF Order
<1> HIDE DEF change
<1> QED
  BY <1>1, <1>2, <1>3, SeatOrderKeeps

(* A settlement seats its order as acceptance does.                          *)
LEMMA SeatPaidKeeps ==
  ASSUME IInv, NEW o \in Orders, order[o].status # "new", SeatPaid(o)
  PROVE  IInv'
<1> DEFINE change == [order[o] EXCEPT !.paid = TRUE]
<1>1. order[o].status # "new" /\ SeatOrder(o, order[o].phone, 0, o \in AppOrders, change)
  BY DEF SeatPaid
<1>2. order[o] \in Order /\ order[o].phone \in Phones
  BY <1>1, Placed
<1>3. /\ change \in Order /\ change.status = order[o].status
      /\ change.table = order[o].table /\ change.phone = order[o].phone
  BY <1>2 DEF Order
<1> HIDE DEF change
<1> QED
  BY <1>1, <1>2, <1>3, SeatOrderKeeps

(* A guest at a held table is seated with the bill that it is held for.      *)
LEMMA ClaimHeldKeeps ==
  ASSUME IInv, NEW p \in Phones, NEW t \in Tables, ClaimHeld(p, t)
  PROVE  IInv'
<1>1. PICK o \in HoldsOn(t) \cap CashierOrders :
         SeatOrder(o, IF p = NoPhone THEN order[o].phone ELSE p, 0, FALSE, order[o])
  BY DEF ClaimHeld
<1>2. o \in Orders /\ o \notin AppOrders /\ order[o].status # "new"
  BY DistinctOrders DEF IInv, RowInv, HoldsOn
<1>3. order[o] \in Order /\ order[o].phone \in Phones
  BY <1>2, Placed
<1>4. (IF p = NoPhone THEN order[o].phone ELSE p) \in Phones
  BY <1>3
<1> QED
  BY <1>1, <1>2, <1>3, <1>4, SeatOrderKeeps

(* A check-in opens a session or continues one.                              *)
LEMMA CheckInKeeps ==
  ASSUME IInv, NEW p \in Phones, NEW t \in Tables, CheckIn(p, t)
  PROVE  IInv'
<1>0. TypeInv /\ RowInv /\ TableInv
  BY DEF IInv
<1>1. PICK s \in SessionFor(p, t, 0, FALSE, {}) : Seat(p, t, s)
  BY DEF CheckIn
<1>2. /\ table[t].state = "available"
      /\ order' = order /\ hold' = hold /\ overridden' = overridden
  BY DEF CheckIn
<1>3. /\ s \in Active \cup {0}
      /\ t \notin overridden /\ s # 0 =>
            table[t].state = "occupied" /\ table[t].session = s
  <2>1. PICK fromApp, ref : fromApp = FALSE /\ ref = {}
    OBVIOUS
  <2>2. s \in SessionFor(p, t, 0, fromApp, ref)
    BY <1>1, <2>1
  <2> QED
    BY <1>0, <2>2, Found
<1>4. \A u \in Tables : HoldsOn(u)' = HoldsOn(u)
  BY <1>2 DEF HoldsOn
<1>5. t \notin overridden => HoldsOn(t)' = {}
  BY <1>0, <1>2, <1>4 DEF TableInv
<1>6. TableInv'
  BY <1>0, <1>1, <1>2, <1>3, <1>4, <1>5, SeatKeepsFloor
<1>7. OwedSessionStaysOpen' /\ SessionsAreTheGuests'
  BY <1>1, <1>2, <1>3, SeatKeepsOrders
<1>8. Seated(p, t, s)
  BY <1>0, <1>1, <1>3, Seating
<1>9. TypeInv'
  BY <1>0, <1>2, <1>8 DEF TypeInv, Seated
<1>10. RowInv'
  <2>1. \A x \in Orders : order[x].session \in Nat
    BY <1>0, FiniteFloor DEF TypeInv, Order
  <2>2. Len(sessions) \in Nat /\ Len(sessions') \in Nat /\ Len(sessions') >= Len(sessions)
    BY <1>0, <1>8 DEF TypeInv, Seated
  <2> QED
    BY <1>0, <1>2, <2>1, <2>2 DEF RowInv
<1> QED
  BY <1>6, <1>7, <1>9, <1>10 DEF IInv

(* A claim binds the session at a table to the guest, and the orders follow it. *)
LEMMA ClaimSessionKeeps ==
  ASSUME IInv, NEW p \in Phones, NEW t \in Tables, ClaimSession(p, t)
  PROVE  IInv'
<1>0. TypeInv /\ RowInv /\ TableInv
  BY DEF IInv
<1>1. PICK s \in SessionAt(t) :
        /\ sessions' = Bound(s, p)
        /\ order' = [o \in Orders |->
                         IF order[o].session = s /\ order[o].phone = NoPhone
                         THEN [order[o] EXCEPT !.phone = p] ELSE order[o]]
  BY DEF ClaimSession
<1>2. /\ table' = table /\ hold' = hold /\ overridden' = overridden /\ s \in Active
      /\ 0 \notin Active
  BY <1>1 DEF ClaimSession, SessionAt, IInv, TypeInv, Active
<1>3. ASSUME NEW x \in Orders
      PROVE  /\ order'[x] \in Order
             /\ order'[x].status = order[x].status /\ order'[x].paid = order[x].paid
             /\ order'[x].session = order[x].session /\ order'[x].table = order[x].table
  <2>1. order[x] \in Order
    BY <1>0 DEF TypeInv
  <2>2. order'[x] = IF order[x].session = s /\ order[x].phone = NoPhone
                    THEN [order[x] EXCEPT !.phone = p] ELSE order[x]
    BY <1>1
  <2> QED
    BY <2>1, <2>2 DEF Order
<1>4. order' \in [Orders -> Order]
  BY <1>1, <1>3
<1>5. ASSUME NEW x \in AppOrders PROVE order'[x] = order[x]
  <2>1. x \in Orders
    BY DEF Orders
  <2>2. ~(order[x].session = s /\ order[x].phone = NoPhone)
    BY <1>0, <1>2, <2>1, NobodyNowhere DEF RowInv
  <2> QED
    BY <1>1, <2>1, <2>2
<1>6. /\ sessions \in Seq(Session) /\ sessions' \in Seq(Session)
      /\ Len(sessions') = Len(sessions)
      /\ \A r \in 1..Len(sessions) : /\ sessions'[r].active = sessions[r].active
                                     /\ sessions'[r].forced = sessions[r].forced
                                     /\ sessions'[r].tables = sessions[r].tables
  <2>1. /\ sessions' \in Seq(Session) /\ Len(sessions') = Len(sessions)
        /\ \A r \in 1..Len(sessions) : r # s => sessions'[r] = sessions[r]
        /\ sessions'[s] = [sessions[s] EXCEPT !.phone = IF @ = NoPhone THEN p ELSE @]
    BY <1>0, <1>1, <1>2, Binding
  <2>2. sessions[s] \in Session /\ sessions \in Seq(Session)
    BY <1>0, <1>2 DEF TypeInv, Active
  <2> QED
    BY <2>1, <2>2 DEF Session
<1>7. \A u \in Tables : HoldsOn(u)' = HoldsOn(u)
  BY <1>2, <1>3 DEF HoldsOn
<1>8. TableInv'
  BY <1>0, <1>2, <1>6, <1>7, SameFloor
<1>9. OwedSessionStaysOpen'
  BY <1>3, <1>6, OwedKept
<1>10. SessionsAreTheGuests'
  BY <1>1, <1>2, <1>5, BindingKeepsGuests
<1>11. RowInv'
  BY <1>0, <1>2, <1>3, <1>5, <1>6 DEF RowInv
<1> QED
  BY <1>0, <1>2, <1>4, <1>6, <1>8, <1>9, <1>10, <1>11 DEF IInv, TypeInv

-----------------------------------------------------------------------------
(* The staff.                                                                *)

(* Sessions are closed once nothing is owed, or by force.                     *)
LEMMA Closing ==
  ASSUME IInv, order' = order, NEW mine \in SUBSET Active, NEW forced \in SUBSET mine,
         \A r \in mine \ forced : Blockers(r) = {},
         sessions' = [r \in DOMAIN sessions |->
                        IF r \in mine THEN Closed(r \in forced) ELSE sessions[r]]
  PROVE  /\ sessions' \in Seq(Session) /\ Len(sessions') = Len(sessions)
         /\ Active' = Active \ mine
         /\ \A r \in Active' : sessions'[r] = sessions[r]
         /\ OwedSessionStaysOpen' /\ SessionsAreTheGuests'
<1>1. /\ sessions \in Seq(Session) /\ Len(sessions) \in Nat
      /\ DOMAIN sessions = 1..Len(sessions) /\ Active \subseteq 1..Len(sessions)
  BY DEF IInv, TypeInv, Active
<1>2. ASSUME NEW b \in BOOLEAN PROVE Closed(b) \in Session /\ ~Closed(b).active /\ Closed(b).forced = b
  BY DEF Closed, Session, Phones
<1>3. ASSUME NEW r \in 1..Len(sessions)
      PROVE  /\ sessions'[r] \in Session
             /\ r \in mine => ~sessions'[r].active /\ sessions'[r].forced = (r \in forced)
             /\ r \notin mine => sessions'[r] = sessions[r]
  <2>1. CASE r \in mine
    <3>1. sessions'[r] = Closed(r \in forced)
      BY <1>1, <2>1
    <3>2. PICK b \in BOOLEAN : b = (r \in forced)
      <4>1. CASE r \in forced
        BY <4>1, TRUE = (r \in forced)
      <4>2. CASE r \notin forced
        BY <4>2, FALSE = (r \in forced)
      <4> QED
        BY <4>1, <4>2
    <3>3. sessions'[r] = Closed(b)
      BY <3>1, <3>2
    <3>4. Closed(b) \in Session /\ ~Closed(b).active /\ Closed(b).forced = b
      BY <1>2
    <3> QED
      BY <2>1, <3>2, <3>3, <3>4
  <2>2. CASE r \notin mine
    BY <1>1, <2>2
  <2> QED
    BY <2>1, <2>2
<1>4. sessions' \in [1..Len(sessions) -> Session]
  BY <1>1, <1>3
<1>5. sessions' \in Seq(Session) /\ Len(sessions') = Len(sessions)
  BY <1>1, <1>4
<1>6. Active' = Active \ mine
  <2>1. Active' = {r \in 1..Len(sessions) : sessions'[r].active}
    BY <1>1, <1>5 DEF Active
  <2>2. Active = {r \in 1..Len(sessions) : sessions[r].active}
    BY <1>1 DEF Active
  <2> QED
    BY <1>3, <2>1, <2>2
<1>7. \A r \in Active' : sessions'[r] = sessions[r]
  BY <1>1, <1>3, <1>6
<1>8. OwedSessionStaysOpen'
  <2> SUFFICES ASSUME NEW x \in Orders, order[x].session # 0, ~order[x].paid,
                      order[x].status \in {"pending", "confirmed"}
               PROVE  \/ sessions'[order[x].session].active
                      \/ sessions'[order[x].session].forced
    BY DEF OwedSessionStaysOpen
  <2>1. order[x].session \in 1..Len(sessions)
    BY <1>1, FiniteFloor DEF IInv, TypeInv, RowInv, Order
  <2>2. x \in Blockers(order[x].session)
    BY DEF Blockers
  <2> QED
    BY <1>3, <2>1, <2>2 DEF IInv, OwedSessionStaysOpen
<1>9. SessionsAreTheGuests'
  BY <1>6, <1>7 DEF IInv, SessionsAreTheGuests
<1> QED
  BY <1>5, <1>6, <1>7, <1>8, <1>9

(* Freed tables are available, the others stay as they are.                  *)
LEMMA FreedType ==
  ASSUME TypeInv, NEW ts
  PROVE  /\ Freed(ts) \in [Tables -> Table]
         /\ \A u \in Tables : Freed(ts)[u] = IF u \in ts THEN [state |-> "available", session |-> 0]
                                             ELSE table[u]
  BY FiniteFloor DEF TypeInv, Freed, Free, Table

(* A session without blockers is closed and all of its tables are free.      *)
LEMMA CompleteKeeps ==
  ASSUME IInv, NEW s \in Active, Complete(s)
  PROVE  IInv'
<1>0. TypeInv /\ RowInv /\ TableInv
  BY DEF IInv
<1>1. /\ Blockers(s) = {} /\ sessions' = [sessions EXCEPT ![s] = Closed(FALSE)]
      /\ table' = Freed(sessions[s].tables)
      /\ order' = order /\ hold' = hold /\ overridden' = overridden
  BY DEF Complete
<1>2. sessions' = [r \in DOMAIN sessions |->
                     IF r \in {s} THEN Closed(r \in {}) ELSE sessions[r]]
  <2>1. Closed(FALSE) = Closed(s \in {})
    BY (s \in {}) = FALSE, Zenon
  <2>2. sessions' = [r \in DOMAIN sessions |-> IF r = s THEN Closed(s \in {}) ELSE sessions[r]]
    BY <1>1, <2>1
  <2> QED
    BY <2>2, Zenon
<1>3. /\ sessions' \in Seq(Session) /\ Len(sessions') = Len(sessions)
      /\ Active' = Active \ {s}
      /\ \A r \in Active' : sessions'[r] = sessions[r]
      /\ OwedSessionStaysOpen' /\ SessionsAreTheGuests'
  <2> DEFINE mine == {s}
             forced == {}
  <2>1. mine \in SUBSET Active /\ forced \in SUBSET mine /\ \A r \in mine \ forced : Blockers(r) = {}
    BY <1>1
  <2>2. sessions' = [r \in DOMAIN sessions |->
                        IF r \in mine THEN Closed(r \in forced) ELSE sessions[r]]
    BY <1>2
  <2>3. mine = {s}
    OBVIOUS
  <2> HIDE DEF mine, forced
  <2> QED
    BY <1>1, <2>1, <2>2, <2>3, Closing
<1>4. /\ table' \in [Tables -> Table]
      /\ \A u \in Tables : table'[u] = IF u \in sessions[s].tables
                                       THEN [state |-> "available", session |-> 0] ELSE table[u]
  BY <1>0, <1>1, FreedType
<1>5. TypeInv' /\ RowInv'
  BY <1>0, <1>1, <1>3, <1>4 DEF TypeInv, RowInv
<1>6. TableInv'
  <2> SUFFICES ASSUME NEW u \in Tables \ overridden
               PROVE  /\ table'[u].state = "occupied" =>
                            table'[u].session \in Active' /\ u \in sessions'[table'[u].session].tables
                      /\ table'[u].state # "occupied" => table'[u].session = 0
                      /\ \A r \in Active' : u \in sessions'[r].tables =>
                            table'[u].state = "occupied" /\ table'[u].session = r
                      /\ table'[u].state = "held" => \E o \in Orders : HoldsOn(u)' = {o}
                      /\ table'[u].state # "held" => HoldsOn(u)' = {}
    BY <1>1 DEF TableInv
  <2>1. HoldsOn(u)' = HoldsOn(u)
    BY <1>1 DEF HoldsOn
  <2>2. CASE u \in sessions[s].tables
    <3>1. table[u].state = "occupied" /\ table[u].session = s /\ HoldsOn(u) = {}
      BY <1>0, <2>2 DEF TableInv
    <3>2. \A r \in Active' : u \notin sessions'[r].tables
      BY <1>0, <1>3, <3>1 DEF TableInv
    <3> QED
      BY <1>4, <2>1, <2>2, <3>1, <3>2
  <2>3. CASE u \notin sessions[s].tables
    <3>1. table'[u] = table[u]
      BY <1>4, <2>3
    <3>2. /\ table[u].state = "held" => \E o \in Orders : HoldsOn(u) = {o}
          /\ table[u].state # "held" => HoldsOn(u) = {}
      BY <1>0 DEF TableInv
    <3>3. /\ table[u].state = "occupied" =>
                table[u].session \in Active' /\ u \in sessions'[table[u].session].tables
          /\ table[u].state # "occupied" => table[u].session = 0
          /\ \A r \in Active' : u \in sessions'[r].tables =>
                table[u].state = "occupied" /\ table[u].session = r
      BY <1>0, <1>3, <2>3 DEF TableInv
    <3> QED
      BY <2>1, <3>1, <3>2, <3>3
  <2> QED
    BY <2>2, <2>3
<1> QED
  BY <1>3, <1>5, <1>6 DEF IInv

(* A release closes the session, owed or not, and frees the table.           *)
LEMMA ReleaseKeeps ==
  ASSUME IInv, NEW t \in Tables, Release(t)
  PROVE  IInv'
<1>0. TypeInv /\ RowInv /\ TableInv
  BY DEF IInv
<1> DEFINE mine == Active \cap {table[t].session}
           forced == {s \in mine : Blockers(s) # {}}
           closed == mine \ forced
           free == {t} \cup UNION {sessions[s].tables : s \in closed}
           left == (UNION {sessions[s].tables : s \in forced}) \ {t}
<1>1. /\ sessions' = [s \in DOMAIN sessions |->
                        IF s \in mine THEN Closed(s \in forced) ELSE sessions[s]]
      /\ table' = Freed(free)
      /\ hold' = [o \in Orders |-> IF o \in HoldsOn(t) THEN "none" ELSE hold[o]]
      /\ overridden' = overridden \cup left
      /\ order' = order
  BY DEF Release
<1>2. /\ mine \in SUBSET Active /\ forced \in SUBSET mine
      /\ \A r \in mine \ forced : Blockers(r) = {}
      /\ \A r \in mine : r = table[t].session
  OBVIOUS
<1>3. /\ \A u \in Tables : u \in free <=> u = t \/ \E s \in mine \ forced : u \in sessions[s].tables
      /\ \A u \in Tables : u \in left <=> u # t /\ \E s \in forced : u \in sessions[s].tables
      /\ \A r \in Active : r = table[t].session => r \in mine
  <2>1. ASSUME NEW u \in Tables
        PROVE  u \in free <=> u = t \/ \E s \in mine \ forced : u \in sessions[s].tables
    <3> HIDE DEF mine, forced
    <3> QED
      OBVIOUS
  <2>2. ASSUME NEW u \in Tables
        PROVE  u \in left <=> u # t /\ \E s \in forced : u \in sessions[s].tables
    <3> DEFINE all == UNION {sessions[s].tables : s \in forced}
    <3> HIDE DEF mine, forced
    <3>1. u \in all <=> \E s \in forced : u \in sessions[s].tables
      OBVIOUS
    <3>2. left = all \ {t}
      OBVIOUS
    <3> HIDE DEF all, left
    <3> QED
      BY <3>1, <3>2
  <2> QED
    BY <2>1, <2>2
<1> HIDE DEF mine, forced, free, left
<1>4. /\ sessions' \in Seq(Session) /\ Len(sessions') = Len(sessions)
      /\ Active' = Active \ mine
      /\ \A r \in Active' : sessions'[r] = sessions[r]
      /\ OwedSessionStaysOpen' /\ SessionsAreTheGuests'
  BY <1>1, <1>2, Closing
<1>5. /\ table' \in [Tables -> Table]
      /\ \A u \in Tables : table'[u] = IF u \in free
                                       THEN [state |-> "available", session |-> 0] ELSE table[u]
  BY <1>0, <1>1, FreedType
<1>6. TypeInv' /\ RowInv'
  BY <1>0, <1>1, <1>4, <1>5 DEF TypeInv, RowInv
<1>7. TableInv'
  <2> SUFFICES ASSUME NEW u \in Tables \ overridden'
               PROVE  /\ table'[u].state = "occupied" =>
                            table'[u].session \in Active' /\ u \in sessions'[table'[u].session].tables
                      /\ table'[u].state # "occupied" => table'[u].session = 0
                      /\ \A r \in Active' : u \in sessions'[r].tables =>
                            table'[u].state = "occupied" /\ table'[u].session = r
                      /\ table'[u].state = "held" => \E o \in Orders : HoldsOn(u)' = {o}
                      /\ table'[u].state # "held" => HoldsOn(u)' = {}
    BY DEF TableInv
  <2>1. u \notin overridden /\ u \notin left
    BY <1>1
  <2>2. HoldsOn(u)' = HoldsOn(u) \ HoldsOn(t)
    BY <1>1 DEF HoldsOn
  <2>3. CASE u \in free
    <3>1. HoldsOn(u)' = {}
      <4>1. CASE u = t
        BY <2>2, <4>1
      <4>2. CASE u # t
        <5>1. PICK s \in mine \ forced : u \in sessions[s].tables
          BY <1>3, <2>3, <4>2
        <5>2. HoldsOn(u) = {}
          BY <1>0, <1>2, <2>1, <5>1 DEF TableInv
        <5> QED
          BY <2>2, <5>2
      <4> QED
        BY <4>1, <4>2
    <3>2. ASSUME NEW r \in Active', u \in sessions'[r].tables PROVE FALSE
      <4>1. r \in Active /\ r \notin mine /\ u \in sessions[r].tables
        BY <1>4, <3>2
      <4>2. table[u].session = r
        BY <1>0, <2>1, <4>1 DEF TableInv
      <4>3. u # t
        BY <1>3, <4>1, <4>2
      <4>4. PICK s \in mine \ forced : u \in sessions[s].tables
        BY <1>3, <2>3, <4>3
      <4>5. table[u].session = s
        BY <1>0, <1>2, <2>1, <4>4 DEF TableInv
      <4> QED
        BY <4>1, <4>2, <4>4, <4>5
    <3> QED
      BY <1>5, <2>3, <3>1, <3>2
  <2>4. CASE u \notin free
    <3>1. table'[u] = table[u] /\ u # t
      BY <1>3, <1>5, <2>4
    <3>2. HoldsOn(u)' = HoldsOn(u)
      BY <2>2, <3>1 DEF HoldsOn
    <3>3. /\ table[u].state = "held" => \E o \in Orders : HoldsOn(u) = {o}
          /\ table[u].state # "held" => HoldsOn(u) = {}
      BY <1>0, <2>1 DEF TableInv
    <3>4. \A r \in mine : u \notin sessions[r].tables
      BY <1>3, <2>1, <2>4, <3>1
    <3>5. /\ table[u].state = "occupied" =>
                table[u].session \in Active' /\ u \in sessions'[table[u].session].tables
          /\ table[u].state # "occupied" => table[u].session = 0
          /\ \A r \in Active' : u \in sessions'[r].tables =>
                table[u].state = "occupied" /\ table[u].session = r
      BY <1>0, <1>4, <2>1, <3>4 DEF TableInv
    <3> QED
      BY <3>1, <3>2, <3>3, <3>5
  <2> QED
    BY <2>3, <2>4
<1> QED
  BY <1>4, <1>6, <1>7 DEF IInv

(* Staff change the state of tables that are nobody's, or override them.      *)
LEMMA StatesKeep ==
  ASSUME IInv, NEW ts \in SUBSET Tables,
         order' = order, hold' = hold, sessions' = sessions,
         table' \in [Tables -> Table], overridden \subseteq overridden',
         \A u \in Tables \ ts : table'[u] = table[u],
         \A u \in ts : \/ u \in overridden'
                       \/ /\ table[u].state \in {"available", "blocked"}
                          /\ table'[u].state \in {"available", "blocked"}
                          /\ table'[u].session \in {0, table[u].session}
  PROVE  IInv'
<1>1. TypeInv' /\ RowInv' /\ OwedSessionStaysOpen' /\ SessionsAreTheGuests'
  BY DEF IInv, TypeInv, RowInv, OwedSessionStaysOpen, SessionsAreTheGuests, Active
<1>2. Active' = Active /\ \A u \in Tables : HoldsOn(u)' = HoldsOn(u)
  BY DEF Active, HoldsOn
<1>3. TableInv'
  <2> SUFFICES ASSUME NEW u \in Tables \ overridden'
               PROVE  /\ table'[u].state = "occupied" =>
                            table'[u].session \in Active /\ u \in sessions[table'[u].session].tables
                      /\ table'[u].state # "occupied" => table'[u].session = 0
                      /\ \A r \in Active : u \in sessions[r].tables =>
                            table'[u].state = "occupied" /\ table'[u].session = r
                      /\ table'[u].state = "held" => \E o \in Orders : HoldsOn(u)' = {o}
                      /\ table'[u].state # "held" => HoldsOn(u)' = {}
    BY <1>2 DEF TableInv
  <2>1. /\ table[u].state = "occupied" =>
              table[u].session \in Active /\ u \in sessions[table[u].session].tables
        /\ table[u].state # "occupied" => table[u].session = 0
        /\ \A r \in Active : u \in sessions[r].tables =>
              table[u].state = "occupied" /\ table[u].session = r
        /\ table[u].state = "held" => \E o \in Orders : HoldsOn(u) = {o}
        /\ table[u].state # "held" => HoldsOn(u) = {}
    BY DEF IInv, TableInv
  <2>2. HoldsOn(u)' = HoldsOn(u)
    BY <1>2
  <2>3. CASE u \in ts
    BY <2>1, <2>2, <2>3
  <2>4. CASE u \notin ts
    <3>1. table'[u] = table[u]
      BY <2>4
    <3> QED
      BY <2>1, <2>2, <3>1
  <2> QED
    BY <2>3, <2>4
<1> QED
  BY <1>1, <1>3 DEF IInv

(* Blocking a table that was in use makes it overridden.                     *)
LEMMA BlockKeeps ==
  ASSUME IInv, NEW t \in Tables, NEW state, Block(t, state)
  PROVE  IInv'
<1>1. /\ state \in {"blocked", "available"}
      /\ table' = [table EXCEPT ![t].state = state]
      /\ order' = order /\ hold' = hold /\ sessions' = sessions
      /\ table[t].state \in {"held", "occupied"} => overridden' = overridden \cup {t}
      /\ table[t].state \notin {"held", "occupied"} => overridden' = overridden
  BY DEF Block, Override
<1>2. table \in [Tables -> Table] /\ table[t] \in Table
  BY DEF IInv, TypeInv
<1>3. [table[t] EXCEPT !.state = state] \in Table
  BY <1>1, <1>2 DEF Table
<1>4. /\ table' \in [Tables -> Table]
      /\ table'[t].state = state /\ table'[t].session = table[t].session
      /\ \A u \in Tables \ {t} : table'[u] = table[u]
  BY <1>1, <1>2, <1>3 DEF Table
<1>5. table[t].state \in {"available", "held", "occupied", "blocked"}
  BY <1>2 DEF Table
<1>6. /\ {t} \in SUBSET Tables /\ overridden \subseteq overridden'
      /\ \A u \in {t} : \/ u \in overridden'
                        \/ /\ table[u].state \in {"available", "blocked"}
                           /\ table'[u].state \in {"available", "blocked"}
                           /\ table'[u].session \in {0, table[u].session}
  BY <1>1, <1>4, <1>5
<1> QED
  BY <1>1, <1>4, <1>6, StatesKeep

(* A state moved between tables without a session makes both overridden.     *)
LEMMA TransferStateKeeps ==
  ASSUME IInv, NEW t \in Tables, NEW u \in Tables, TransferState(t, u)
  PROVE  IInv'
<1>1. /\ t # u /\ table[t].session = 0 /\ table[u].state = "available"
      /\ table' = [table EXCEPT ![t] = Free, ![u].state = table[t].state]
      /\ order' = order /\ hold' = hold /\ sessions' = sessions
      /\ table[t].state \in {"held", "occupied"} => overridden' = overridden \cup {t, u}
      /\ table[t].state \notin {"held", "occupied"} => overridden' = overridden
  BY DEF TransferState, Override
<1>2. table \in [Tables -> Table] /\ table[t] \in Table /\ table[u] \in Table
  BY DEF IInv, TypeInv
<1>3. [table[u] EXCEPT !.state = table[t].state] \in Table /\ Free \in Table
  BY <1>2, FiniteFloor DEF Table, Free
<1>4. /\ table' \in [Tables -> Table]
      /\ table'[t] = Free
      /\ table'[u].state = table[t].state /\ table'[u].session = table[u].session
      /\ \A w \in Tables \ {t, u} : table'[w] = table[w]
  BY <1>1, <1>2, <1>3 DEF Table
<1>5. /\ table[t].state \in {"available", "held", "occupied", "blocked"}
      /\ table'[t].state = "available" /\ table'[t].session = 0
  BY <1>2, <1>4 DEF Table, Free
<1>6. /\ {t, u} \in SUBSET Tables /\ overridden \subseteq overridden'
      /\ \A w \in {t, u} : \/ w \in overridden'
                           \/ /\ table[w].state \in {"available", "blocked"}
                              /\ table'[w].state \in {"available", "blocked"}
                              /\ table'[w].session \in {0, table[w].session}
  BY <1>1, <1>4, <1>5
<1> QED
  BY <1>1, <1>4, <1>6, StatesKeep

(* A session moves to tables that are free or its own, and gives up the others. *)
LEMMA ReassignKeeps ==
  ASSUME IInv, NEW s \in Active, NEW ts \in SUBSET Tables, Reassign(s, ts)
  PROVE  IInv'
<1>0. TypeInv /\ RowInv /\ TableInv
  BY DEF IInv
<1>1. /\ \A t \in ts : MayMoveTo(s, t)
      /\ sessions' = [sessions EXCEPT ![s].tables = ts]
      /\ table' = [t \in Tables |->
                     IF t \in ts THEN [state |-> "occupied", session |-> s]
                     ELSE Freed(sessions[s].tables)[t]]
      /\ order' = order /\ hold' = hold /\ overridden' = overridden
  BY DEF Reassign
<1>2. /\ sessions \in Seq(Session) /\ s \in 1..Len(sessions) /\ sessions[s] \in Session
      /\ s \in 1..MaxSessions
  BY <1>0, FiniteFloor DEF TypeInv, Active
<1> DEFINE row == [sessions[s] EXCEPT !.tables = ts]
<1>3. /\ row \in Session /\ row.tables = ts /\ row.active = sessions[s].active
      /\ row.forced = sessions[s].forced /\ row.phone = sessions[s].phone
  BY <1>2 DEF Session
<1>4. sessions' = [sessions EXCEPT ![s] = row]
  BY <1>1
<1> HIDE DEF row
<1>5. /\ sessions' \in Seq(Session) /\ Len(sessions') = Len(sessions)
      /\ sessions'[s] = row
      /\ \A r \in 1..Len(sessions) : r # s => sessions'[r] = sessions[r]
  BY <1>2, <1>3, <1>4
<1>6. /\ Active' = Active /\ Active \subseteq 1..Len(sessions)
      /\ sessions'[s].tables = ts
      /\ \A r \in Active : r # s => sessions'[r].tables = sessions[r].tables
  BY <1>2, <1>3, <1>5 DEF Active
<1>7. /\ table' \in [Tables -> Table]
      /\ \A u \in ts : table'[u] = [state |-> "occupied", session |-> s]
      /\ \A u \in Tables \ ts :
            table'[u] = IF u \in sessions[s].tables
                        THEN [state |-> "available", session |-> 0] ELSE table[u]
  <2>1. ASSUME NEW u \in Tables
        PROVE  /\ table'[u] \in Table
               /\ u \in ts => table'[u] = [state |-> "occupied", session |-> s]
               /\ u \notin ts =>
                     table'[u] = IF u \in sessions[s].tables
                                 THEN [state |-> "available", session |-> 0] ELSE table[u]
    <3>1. /\ Freed(sessions[s].tables)[u] \in Table
          /\ Freed(sessions[s].tables)[u] = IF u \in sessions[s].tables
                                 THEN [state |-> "available", session |-> 0] ELSE table[u]
      BY <1>0, FreedType
    <3>2. table'[u] = IF u \in ts THEN [state |-> "occupied", session |-> s]
                      ELSE Freed(sessions[s].tables)[u]
      BY <1>1
    <3>3. [state |-> "occupied", session |-> s] \in Table
      BY <1>2, FiniteFloor DEF Table
    <3> QED
      BY <3>1, <3>2, <3>3
  <2> QED
    BY <1>1, <2>1
<1>8. TypeInv' /\ RowInv'
  BY <1>0, <1>1, <1>5, <1>7 DEF TypeInv, RowInv
<1>9. OwedSessionStaysOpen' /\ SessionsAreTheGuests'
  <2>1. \A r \in 1..Len(sessions) : /\ sessions'[r].active = sessions[r].active
                                    /\ sessions'[r].forced = sessions[r].forced
                                    /\ sessions'[r].phone = sessions[r].phone
    BY <1>3, <1>5
  <2>2. OwedSessionStaysOpen'
    BY <1>1, <1>5, <2>1, OwedKept
  <2>3. SessionsAreTheGuests'
    BY <1>1, <1>6, <2>1 DEF IInv, SessionsAreTheGuests
  <2> QED
    BY <2>2, <2>3
<1>10. TableInv'
  <2> SUFFICES ASSUME NEW u \in Tables \ overridden
               PROVE  /\ table'[u].state = "occupied" =>
                            table'[u].session \in Active /\ u \in sessions'[table'[u].session].tables
                      /\ table'[u].state # "occupied" => table'[u].session = 0
                      /\ \A r \in Active : u \in sessions'[r].tables =>
                            table'[u].state = "occupied" /\ table'[u].session = r
                      /\ table'[u].state = "held" => \E o \in Orders : HoldsOn(u)' = {o}
                      /\ table'[u].state # "held" => HoldsOn(u)' = {}
    BY <1>1, <1>6 DEF TableInv
  <2>1. HoldsOn(u)' = HoldsOn(u)
    BY <1>1 DEF HoldsOn
  <2>2. /\ table[u].state = "occupied" =>
              table[u].session \in Active /\ u \in sessions[table[u].session].tables
        /\ table[u].state # "occupied" => table[u].session = 0
        /\ \A r \in Active : u \in sessions[r].tables =>
              table[u].state = "occupied" /\ table[u].session = r
        /\ table[u].state = "held" => \E o \in Orders : HoldsOn(u) = {o}
        /\ table[u].state # "held" => HoldsOn(u) = {}
    BY <1>0 DEF TableInv
  <2>3. CASE u \in ts
    <3>1. table'[u].state = "occupied" /\ table'[u].session = s
      BY <1>7, <2>3
    <3>2. table[u].state # "held" /\ (table[u].state = "occupied" => table[u].session \in {0, s})
      BY <1>1, <2>3 DEF MayMoveTo
    <3>3. ASSUME NEW r \in Active, u \in sessions'[r].tables, r # s PROVE FALSE
      <4>1. table[u].state = "occupied" /\ table[u].session = r
        BY <1>6, <2>2, <3>3
      <4> QED
        BY <1>6, <3>2, <3>3, <4>1
    <3> QED
      BY <1>6, <2>1, <2>2, <2>3, <3>1, <3>2, <3>3
  <2>4. CASE u \notin ts /\ u \in sessions[s].tables
    <3>1. table'[u].state = "available" /\ table'[u].session = 0
      BY <1>7, <2>4
    <3>2. table[u].state = "occupied" /\ table[u].session = s
      BY <2>2, <2>4
    <3>3. ASSUME NEW r \in Active, u \in sessions'[r].tables PROVE FALSE
      BY <1>6, <2>2, <2>4, <3>2, <3>3
    <3> QED
      BY <2>1, <2>2, <3>1, <3>2, <3>3
  <2>5. CASE u \notin ts /\ u \notin sessions[s].tables
    <3>1. table'[u] = table[u]
      BY <1>7, <2>5
    <3>2. table[u].state = "occupied" => table[u].session # s
      BY <2>2, <2>5
    <3>3. ASSUME NEW r \in Active, u \in sessions'[r].tables
          PROVE  table[u].state = "occupied" /\ table[u].session = r
      BY <1>6, <2>2, <2>5, <3>3
    <3>4. table[u].state = "occupied" => u \in sessions'[table[u].session].tables
      BY <1>6, <2>2, <3>2
    <3> QED
      BY <2>1, <2>2, <3>1, <3>3, <3>4
  <2> QED
    BY <2>3, <2>4, <2>5
<1> QED
  BY <1>8, <1>9, <1>10 DEF IInv

-----------------------------------------------------------------------------
(* The invariant holds, and what follows.                                    *)

(* The floor is empty at first.                                              *)
LEMMA InitIInv == Init => IInv
<1> SUFFICES ASSUME Init PROVE IInv
  OBVIOUS
<1>1. Active = {}
  BY DEF Init, Active
<1>2. TypeInv
  BY FiniteFloor DEF Init, TypeInv, Table, Session, Order, Phones
<1>3. RowInv /\ OwedSessionStaysOpen /\ SessionsAreTheGuests
  BY <1>1 DEF Init, RowInv, OwedSessionStaysOpen, SessionsAreTheGuests, Orders
<1>4. TableInv
  BY <1>1 DEF Init, TableInv, HoldsOn
<1> QED
  BY <1>2, <1>3, <1>4 DEF IInv

(* Every step keeps the invariant: one lemma per action.                     *)
LEMMA NextIInv == IInv /\ [Next]_vars => IInv'
<1> SUFFICES ASSUME IInv, [Next]_vars PROVE IInv'
  OBVIOUS
<1>1. CASE Sweep
  BY <1>1, SweepKeeps
<1>2. ASSUME NEW o \in Orders, OrderStep(o) PROVE IInv'
  BY <1>2, HoldLapsesKeeps, AcceptKeeps, DropKeeps, DropWithoutHoldKeeps, SettleOnlyKeeps,
     SeatPaidKeeps DEF OrderStep, SettleAndSeat, SettleStaticQris
<1>3. ASSUME NEW t \in Tables, GuestStep(t) PROVE IInv'
  BY <1>3, PlaceOrderKeeps, HoldBillKeeps, SellAtTableKeeps, ClaimHeldKeeps,
     ClaimSessionKeeps, CheckInKeeps DEF GuestStep
<1>4. CASE StaffStep
  BY <1>4, CompleteKeeps, ReassignKeeps, ReleaseKeeps, BlockKeeps, TransferStateKeeps
     DEF StaffStep
<1>5. ASSUME NEW o \in AppOrders, RetryCheckout(o) PROVE IInv'
  BY <1>5, RetryCheckoutKeeps
<1>6. CASE UNCHANGED vars
  BY <1>6 DEF vars, IInv, TypeInv, RowInv, TableInv, OwedSessionStaysOpen,
     SessionsAreTheGuests, Active, HoldsOn
<1> QED
  BY <1>1, <1>2, <1>3, <1>4, <1>5, <1>6 DEF Next

(* The invariant holds in every reachable state.                             *)
LEMMA Inductive == Spec => []IInv
  BY InitIInv, NextIInv, PTL DEF Spec

(* For any floor, any number of orders, guests and sessions: a table is shown  *)
(* occupied by exactly the one session that has it, or held by exactly one     *)
(* hold, until staff override it.                                            *)
THEOREM TablesHaveOneOwner == Spec => []TableHasOneOwner
<1>1. ASSUME IInv PROVE TableHasOneOwner
  <2> SUFFICES ASSUME NEW t \in Tables \ overridden
               PROVE  /\ table[t].state = "occupied" => SessionAt(t) # {}
                      /\ \A s \in Active : t \in sessions[s].tables => SessionAt(t) = {s}
                      /\ Cardinality(HoldsOn(t)) = IF table[t].state = "held" THEN 1 ELSE 0
    BY DEF TableHasOneOwner
  <2>1. TableInv
    BY <1>1 DEF IInv
  <2>2. table[t].state = "occupied" => SessionAt(t) # {}
    BY <2>1 DEF TableInv, SessionAt
  <2>3. \A s \in Active : t \in sessions[s].tables => SessionAt(t) = {s}
    BY <2>1 DEF TableInv, SessionAt
  <2>4. CASE table[t].state = "held"
    <3>1. PICK o \in Orders : HoldsOn(t) = {o}
      BY <2>1, <2>4 DEF TableInv
    <3>2. Cardinality({o}) = 1
      BY FS_Singleton
    <3> QED
      BY <2>2, <2>3, <2>4, <3>1, <3>2
  <2>5. CASE table[t].state # "held"
    <3>1. HoldsOn(t) = {}
      BY <2>1, <2>5 DEF TableInv
    <3>2. Cardinality({}) = 0
      BY FS_EmptySet
    <3> QED
      BY <2>2, <2>3, <2>5, <3>1, <3>2
  <2> QED
    BY <2>4, <2>5
<1> QED
  BY <1>1, Inductive, PTL

(* A hold that stands lets its order be accepted at its table                 *)
(* (createOrAttachDiningSession finds a session for it).                     *)
THEOREM HoldsAreKept == Spec => []HoldGuaranteesTable
<1>1. ASSUME IInv PROVE HoldGuaranteesTable
  <2> SUFFICES ASSUME NEW o \in Orders, hold[o] # "none",
                      order[o].table \notin overridden,
                      ~SeatedElsewhere(order[o].phone, order[o].table)
               PROVE  SessionFor(order[o].phone, order[o].table, order[o].session,
                                 o \in AppOrders, {o}) # {}
    BY DEF HoldGuaranteesTable
  <2>1. order[o].session = 0 /\ order[o].table \in Tables
    BY <1>1 DEF IInv, RowInv
  <2>2. o \in HoldsOn(order[o].table)
    BY DEF HoldsOn
  <2>3. table[order[o].table].state = "held"
    BY <1>1, <2>1, <2>2 DEF IInv, TableInv
  <2>4. SessionAt(order[o].table) = {}
    BY <2>3 DEF SessionAt
  <2>5. 0 \in NewSession(order[o].table, {o})
    BY <2>2, <2>3 DEF NewSession
  <2> QED
    BY <2>1, <2>4, <2>5 DEF SessionFor
<1> QED
  BY <1>1, Inductive, PTL

(* Nobody but the release of a table closes a session with something to pay    *)
(* (completeDiningSession).                                                  *)
THEOREM OwedSessionsStayOpen == Spec => []OwedSessionStaysOpen
<1>1. IInv => OwedSessionStaysOpen
  BY DEF IInv
<1> QED
  BY <1>1, Inductive, PTL

(* Whatever binds, joins or moves a session, a customer's orders from the app  *)
(* are in that customer's own.                                               *)
THEOREM GuestsHaveTheirSessions == Spec => []SessionsAreTheGuests
<1>1. IInv => SessionsAreTheGuests
  BY DEF IInv
<1> QED
  BY <1>1, Inductive, PTL
=============================================================================
