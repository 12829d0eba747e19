-------------------------- MODULE RepositoryProofs --------------------------
(***************************************************************************)
(* Proofs about the repository, for any callers, orders and values.        *)
(***************************************************************************)
EXTENDS OrderRepository, TLAPS

InSave(t) == call[t].at \in InTx \cup {"begin"}

SaveCall == [at : InTx \cup {"begin"}, uid : UIDs, order : Messages, seen : {{}}]

\* An order is saved as a producer wrote it, with a customer.
SavesMessages == \A t \in Threads : InSave(t) =>
                    /\ call[t] \in SaveCall
                    /\ call[t].order.base.cust \in Customers

\* One transaction at a time holds the row of an order.
OrderLocked == \A p, t \in Threads :
                  HasOrder(p) /\ HasOrder(t) /\ p # t => call[p].uid # call[t].uid

\* A transaction about to insert a payment is no other order's, stored or
\* about to be inserted.
Inserts(t) == HasPayment(t) /\ db[call[t].uid].tran = None
TranReserved == \A t \in Threads : Inserts(t) =>
                   /\ ~TranTaken(call[t].uid, call[t].order.tran)
                   /\ \A p \in Threads \ {t} :
                         Inserts(p) => call[p].order.tran # call[t].order.tran

DbType == db \in [UIDs -> Row \cup {Absent}] /\ custs \subseteq Customers
CallFn == DOMAIN call = Threads /\ call = [t \in Threads |-> call[t]]

WInv == /\ DbType
        /\ CallFn
        /\ SavesMessages
        /\ OrderLocked
        /\ TranReserved
        /\ OrdersWhole
        /\ TransUnique
-----------------------------------------------------------------------------
LEMMA RowNotAbsent == \A r \in Row : r.tran # None /\ r # Absent
BY RepositoryAssumption DEF Row, Absent

\* What a commit writes is the whole order, with the transaction it keeps.
LEMMA AppliedWhole ==
    ASSUME NEW d \in [UIDs -> Row \cup {Absent}], NEW u \in UIDs,
           NEW o \in Messages, o.base.cust \in Customers
    PROVE  /\ Applied(d, u, o) \in [UIDs -> Row \cup {Absent}]
           /\ Applied(d, u, o)[u] \in Row
           /\ Applied(d, u, o)[u].base = o.base
           /\ \E r \in Revs : /\ Applied(d, u, o)[u].base.rev = r
                              /\ Applied(d, u, o)[u].delivery = r
                              /\ Applied(d, u, o)[u].payment = r
                              /\ Applied(d, u, o)[u].items = r
           /\ Applied(d, u, o)[u].tran = StoredTran(d, u, o)
           /\ \A w \in UIDs \ {u} : Applied(d, u, o)[w] = d[w]
<1>1. PICK c \in Customers \cup {NoCustomer}, x \in Trans, r \in Revs :
          o = [base |-> [cust |-> c, rev |-> r], delivery |-> r,
               tran |-> x, payment |-> r, items |-> r]
  BY DEF Messages, Whole
<1>2. c \in Customers
  BY <1>1
<1>3. StoredTran(d, u, o) \in Trans
  BY <1>1, RowNotAbsent DEF StoredTran, Row, Absent
<1>4. [o EXCEPT !.tran = StoredTran(d, u, o)]
        = [base |-> [cust |-> c, rev |-> r], delivery |-> r,
           tran |-> StoredTran(d, u, o), payment |-> r, items |-> r]
  BY <1>1
<1>5. [o EXCEPT !.tran = StoredTran(d, u, o)] \in Row
  BY <1>2, <1>3, <1>4 DEF Row
<1>6. Applied(d, u, o)[u] = [o EXCEPT !.tran = StoredTran(d, u, o)]
  BY DEF Applied
<1>7. Applied(d, u, o) \in [UIDs -> Row \cup {Absent}]
  BY <1>5 DEF Applied
<1>8. \A w \in UIDs \ {u} : Applied(d, u, o)[w] = d[w]
  BY DEF Applied
<1> QED
  BY <1>1, <1>4, <1>5, <1>6, <1>7, <1>8

\* Saving an order again changes nothing: what a redelivered message relies on.
THEOREM Idempotent ==
    ASSUME DbType PROVE SaveIdempotent
<1> SUFFICES ASSUME NEW u \in UIDs, NEW o \in Messages
             PROVE  Applied(Applied(db, u, o), u, o) = Applied(db, u, o)
  BY DEF SaveIdempotent
<1>1. PICK c \in Customers \cup {NoCustomer}, x \in Trans, r \in Revs :
          o = [base |-> [cust |-> c, rev |-> r], delivery |-> r,
               tran |-> x, payment |-> r, items |-> r]
  BY DEF Messages, Whole
<1> DEFINE d == Applied(db, u, o)
<1>2. d[u].tran = StoredTran(db, u, o)
  BY <1>1 DEF Applied, DbType
<1>3. StoredTran(db, u, o) # None
  BY <1>1, RepositoryAssumption DEF StoredTran
<1>4. StoredTran(d, u, o) = StoredTran(db, u, o)
  BY <1>2, <1>3 DEF StoredTran
<1>5. d = [db EXCEPT ![u] = [o EXCEPT !.tran = StoredTran(db, u, o)]]
  BY DEF Applied
<1>6. Applied(d, u, o) = [d EXCEPT ![u] = [o EXCEPT !.tran = StoredTran(db, u, o)]]
  BY <1>4 DEF Applied
<1> HIDE DEF d
<1>7. Applied(d, u, o) = d
  BY <1>5, <1>6 DEF DbType
<1> QED
  BY <1>7 DEF d
-----------------------------------------------------------------------------
LEMMA InitWInv == Init => WInv
<1> SUFFICES ASSUME Init PROVE WInv
  OBVIOUS
<1>1. \A t \in Threads : call[t].at = "idle"
  BY DEF Init, Idle
<1>2. DbType /\ CallFn
  BY DEF Init, DbType, CallFn
<1>3. SavesMessages /\ OrderLocked /\ TranReserved
  BY <1>1 DEF SavesMessages, OrderLocked, TranReserved, InSave, InTx, HasOrder,
              HasPayment, Inserts
<1>4. OrdersWhole /\ TransUnique
  BY DEF Init, OrdersWhole, TransUnique, Absent
<1> QED
  BY <1>1, <1>2, <1>3, <1>4 DEF WInv
-----------------------------------------------------------------------------
\* A step of one thread that is not a commit leaves the database and every other
\* thread alone.
Alone(t) == /\ db' = db /\ custs' = custs
            /\ DOMAIN call' = Threads /\ call' = [p \in Threads |-> call'[p]]
            /\ \A p \in Threads \ {t} : call'[p] = call[p]

\* It keeps the rows and keys it holds, or comes to hold some under the guard
\* of their statement, or gives all of them up.
Holding(t) == /\ InSave(t)'
                   => /\ call'[t] \in SaveCall
                      /\ call'[t].uid = call[t].uid
                      /\ call'[t].order = call[t].order
                      /\ InSave(t)
              /\ HasOrder(t)' /\ ~HasOrder(t)
                   => \A p \in Threads \ {t} : HasOrder(p) => call[p].uid # call[t].uid
              /\ HasPayment(t)' /\ ~HasPayment(t) /\ db[call[t].uid].tran = None
                   => /\ ~TranTaken(call[t].uid, call[t].order.tran)
                      /\ \A p \in Threads \ {t} :
                            Inserts(p) => call[p].order.tran # call[t].order.tran

LEMMA AloneKeepsWInv ==
    ASSUME WInv, NEW t \in Threads, Alone(t), Holding(t)
    PROVE  WInv'
<1> USE DEF WInv, Alone
<1>1. DbType' /\ CallFn'
  BY DEF DbType, CallFn
<1>2. SavesMessages'
  BY DEF SavesMessages, Holding, InSave
<1>3. \A p \in Threads : HasOrder(p) => InSave(p)
  BY DEF HasOrder, InSave
<1>4. \A p \in Threads \ {t} : HasOrder(p)' = HasOrder(p) /\ HasPayment(p)' = HasPayment(p)
                               /\ Inserts(p)' = Inserts(p)
  BY DEF HasOrder, HasPayment, Inserts
<1>5. HasOrder(t)' \/ HasPayment(t)' => InSave(t)'
  BY DEF HasOrder, HasPayment, InSave, InTx
<1>6. OrderLocked'
  BY <1>4, <1>5 DEF OrderLocked, Holding
<1>7. TranReserved'
  BY <1>4, <1>5 DEF TranReserved, Holding, Inserts, TranTaken
<1>8. OrdersWhole' /\ TransUnique'
  BY DEF OrdersWhole, TransUnique
<1> QED
  BY <1>1, <1>2, <1>6, <1>7, <1>8

\* A statement moves its thread to another place of its transaction, or ends it.
LEMMA GotoAlone ==
    ASSUME WInv, NEW t \in Threads, InSave(t), NEW l, Goto(t, l),
           UNCHANGED <<db, custs>>
    PROVE  /\ Alone(t)
           /\ call'[t].at = l
           /\ call'[t].uid = call[t].uid /\ call'[t].order = call[t].order
           /\ l \in InTx => call'[t] \in SaveCall
<1>1. call[t] \in SaveCall
  BY DEF WInv, SavesMessages
<1>2. call' = [call EXCEPT ![t] = [call[t] EXCEPT !.at = l]]
  BY DEF Goto
<1>3. call'[t] = [call[t] EXCEPT !.at = l]
  BY <1>2 DEF WInv, CallFn
<1>4. /\ DOMAIN call' = Threads /\ call' = [p \in Threads |-> call'[p]]
      /\ \A p \in Threads \ {t} : call'[p] = call[p]
  BY <1>2 DEF WInv, CallFn
<1>5. call'[t].at = l /\ call'[t].uid = call[t].uid /\ call'[t].order = call[t].order
  BY <1>1, <1>3 DEF SaveCall
<1>6. l \in InTx => call'[t] \in SaveCall
  BY <1>1, <1>3 DEF SaveCall
<1> QED
  BY <1>4, <1>5, <1>6 DEF Alone

LEMMA StatementHolds ==
    ASSUME WInv, NEW t \in Threads, Statement(t) \/ SaveFails(t)
    PROVE  Alone(t) /\ Holding(t)
<1>1. CASE Begin(t)
  <2>1. InSave(t) /\ Goto(t, "customer") /\ UNCHANGED <<db, custs>>
    BY <1>1 DEF Begin, At, InSave, InTx
  <2>2. /\ Alone(t) /\ call'[t].at = "customer"
        /\ call'[t].uid = call[t].uid /\ call'[t].order = call[t].order
        /\ "customer" \in InTx => call'[t] \in SaveCall
    BY <2>1, GotoAlone
  <2> QED
    BY <1>1, <2>1, <2>2 DEF Begin, At, Holding, InSave, InTx, HasOrder, HasPayment
<1>2. CASE InsertCustomer(t)
  <2>1. InSave(t) /\ Goto(t, "order") /\ UNCHANGED <<db, custs>>
    BY <1>2 DEF InsertCustomer, At, InSave, InTx
  <2>2. /\ Alone(t) /\ call'[t].at = "order"
        /\ call'[t].uid = call[t].uid /\ call'[t].order = call[t].order
        /\ "order" \in InTx => call'[t] \in SaveCall
    BY <2>1, GotoAlone
  <2> QED
    BY <1>2, <2>1, <2>2 DEF InsertCustomer, At, Holding, InSave, InTx, HasOrder, HasPayment
<1>3. CASE UpsertOrder(t)
  <2>1. InSave(t) /\ Goto(t, "delivery") /\ UNCHANGED <<db, custs>>
    BY <1>3 DEF UpsertOrder, At, InSave, InTx
  <2>2. /\ Alone(t) /\ call'[t].at = "delivery"
        /\ call'[t].uid = call[t].uid /\ call'[t].order = call[t].order
        /\ "delivery" \in InTx => call'[t] \in SaveCall
    BY <2>1, GotoAlone
  <2> QED
    BY <1>3, <2>1, <2>2 DEF UpsertOrder, WaitsForOrder, At, Holding, InSave, InTx,
                          HasOrder, HasPayment
<1>4. CASE UpsertDelivery(t)
  <2>1. InSave(t) /\ Goto(t, "payment") /\ UNCHANGED <<db, custs>>
    BY <1>4 DEF UpsertDelivery, At, InSave, InTx
  <2>2. /\ Alone(t) /\ call'[t].at = "payment"
        /\ call'[t].uid = call[t].uid /\ call'[t].order = call[t].order
        /\ "payment" \in InTx => call'[t] \in SaveCall
    BY <2>1, GotoAlone
  <2> QED
    BY <1>4, <2>1, <2>2 DEF UpsertDelivery, At, Holding, InSave, InTx, HasOrder, HasPayment
<1>5. CASE UpsertPayment(t)
  <2>1. InSave(t) /\ Goto(t, "delete") /\ UNCHANGED <<db, custs>>
    BY <1>5 DEF UpsertPayment, At, InSave, InTx
  <2>2. /\ Alone(t) /\ call'[t].at = "delete"
        /\ call'[t].uid = call[t].uid /\ call'[t].order = call[t].order
        /\ "delete" \in InTx => call'[t] \in SaveCall
    BY <2>1, GotoAlone
  <2> QED
    BY <1>5, <2>1, <2>2 DEF UpsertPayment, WaitsForPayment, At, Holding, InSave, InTx,
                          HasOrder, HasPayment, Inserts
<1>6. CASE DeleteItems(t)
  <2>1. InSave(t) /\ Goto(t, "copy") /\ UNCHANGED <<db, custs>>
    BY <1>6 DEF DeleteItems, At, InSave, InTx
  <2>2. /\ Alone(t) /\ call'[t].at = "copy"
        /\ call'[t].uid = call[t].uid /\ call'[t].order = call[t].order
        /\ "copy" \in InTx => call'[t] \in SaveCall
    BY <2>1, GotoAlone
  <2> QED
    BY <1>6, <2>1, <2>2 DEF DeleteItems, At, Holding, InSave, InTx, HasOrder, HasPayment
<1>7. CASE copyItems(t)
  <2>1. InSave(t) /\ Goto(t, "commit") /\ UNCHANGED <<db, custs>>
    BY <1>7 DEF copyItems, At, InSave, InTx
  <2>2. /\ Alone(t) /\ call'[t].at = "commit"
        /\ call'[t].uid = call[t].uid /\ call'[t].order = call[t].order
        /\ "commit" \in InTx => call'[t] \in SaveCall
    BY <2>1, GotoAlone
  <2> QED
    BY <1>7, <2>1, <2>2 DEF copyItems, At, Holding, InSave, InTx, HasOrder, HasPayment
<1>8. CASE PaymentTaken(t)
  <2>1. InSave(t) /\ Goto(t, "saveErr") /\ UNCHANGED <<db, custs>>
    BY <1>8 DEF PaymentTaken, At, InSave, InTx
  <2>2. /\ Alone(t) /\ call'[t].at = "saveErr"
        /\ call'[t].uid = call[t].uid /\ call'[t].order = call[t].order
        /\ "saveErr" \in InTx => call'[t] \in SaveCall
    BY <2>1, GotoAlone
  <2> QED
    BY <1>8, <2>1, <2>2 DEF PaymentTaken, At, Holding, InSave, InTx, HasOrder, HasPayment
<1>9. CASE SaveFails(t)
  <2>1. InSave(t) /\ Goto(t, "saveErr") /\ UNCHANGED <<db, custs>>
    BY <1>9 DEF SaveFails, At, InSave, InTx
  <2>2. /\ Alone(t) /\ call'[t].at = "saveErr"
        /\ call'[t].uid = call[t].uid /\ call'[t].order = call[t].order
        /\ "saveErr" \in InTx => call'[t] \in SaveCall
    BY <2>1, GotoAlone
  <2> QED
    BY <1>9, <2>1, <2>2 DEF SaveFails, At, Holding, InSave, InTx, HasOrder, HasPayment
<1> QED
  BY <1>1, <1>2, <1>3, <1>4, <1>5, <1>6, <1>7, <1>8, <1>9 DEF Statement

\* Calls that read, return or are refused hold nothing.
LEMMA NotSavingHolds ==
    ASSUME WInv, NEW t \in Threads, NEW c, call' = [call EXCEPT ![t] = c],
           c.at \notin InTx \cup {"begin"}, UNCHANGED <<db, custs>>
    PROVE  Alone(t) /\ Holding(t)
<1>1. Alone(t) /\ call'[t] = c
  BY DEF WInv, CallFn, Alone
<1>2. ~InSave(t)'
  BY <1>1 DEF InSave
<1>3. ~HasOrder(t)' /\ ~HasPayment(t)'
  BY <1>1 DEF HasOrder, HasPayment, InTx
<1> QED
  BY <1>1, <1>2, <1>3 DEF Holding
-----------------------------------------------------------------------------
(* The reads.                                                              *)

SavedCall == [at : InTx \cup {"begin", "saveOk", "saveErr"}, uid : UIDs,
              order : Order, seen : {{}}]
ReadCall  == [at : Selecting \cup {"got", "gotNone", "getErr"}, uid : UIDs,
              order : PartRow, seen : SUBSET (Row \cup {Absent})]

CallTyped == \A t \in Threads : call[t] \in Call

InGet(t) == call[t].at \in Selecting \cup {"got", "gotNone", "getErr"}

\* The parts that each place of GetByUID has read.
PartsRead(l) == CASE l = "selDelivery" -> {"base"}
                  [] l = "selPayment"  -> {"base", "delivery"}
                  [] l = "selItems"    -> {"base", "delivery", "payment", "tran"}
                  [] l = "got"         -> DOMAIN Absent
                  [] OTHER             -> {}

\* A reader has seen the committed row, and every part it read was committed;
\* an order that it found is still there.
ReadsSeen == \A t \in Threads :
    /\ Reading(t) => db[call[t].uid] \in call[t].seen
    /\ Reading(t) /\ ~At(t, "selOrder") => db[call[t].uid] # Absent
    /\ \A part \in PartsRead(call[t].at) :
          \E v \in call[t].seen \ {Absent} : call[t].order[part] = v[part]
    /\ call[t].at = "gotNone" => Absent \in call[t].seen

LEMMA CallCases ==
    ASSUME NEW t \in Threads, call[t] \in Call
    PROVE  /\ InGet(t) => call[t] \in ReadCall
           /\ call[t].at \in InTx \cup {"begin", "saveOk", "saveErr"}
                 => call[t] \in SavedCall
BY DEF Call, Idle, InGet, ReadCall, SavedCall, Selecting, InTx

\* What a SELECT leaves of the call: parts it read replaced by the row's.
ReadTo(t, l, o) ==
    /\ l \in Selecting \cup {"got", "gotNone"} /\ o \in PartRow
    /\ Read(t, o, l)
    /\ \A part \in PartsRead(l) :
          \/ o[part] = Found(t)[part]
          \/ o[part] = Filled(t)[part] /\ part \in PartsRead(call[t].at)
    /\ l = "gotNone" => Found(t).base = None
    /\ At(t, "selOrder") /\ Found(t).base = None => l = "gotNone"

LEMMA ReadResult ==
    ASSUME DbType, CallTyped, NEW t \in Threads, GetWork(t)
    PROVE  /\ Reading(t) /\ call[t] \in ReadCall
           /\ Found(t) \in PartRow
           /\ \E l, o : ReadTo(t, l, o)
<1>1. Reading(t)
  BY DEF GetWork, SelectOrder, SelectDelivery, SelectPayment, SelectItems, At,
         Reading, Selecting
<1>2. call[t] \in ReadCall
  BY <1>1, CallCases DEF CallTyped, Reading, InGet
<1>3. Filled(t) \in PartRow /\ call[t].uid \in UIDs
  BY <1>2 DEF ReadCall, Filled
<1>4. Found(t) \in PartRow
  <2>1. Found(t) \in Row \cup {Absent}
    BY <1>3 DEF DbType, Found
  <2> QED
    BY <2>1 DEF Row, Absent, PartRow
<1>5. DOMAIN Absent = {"base", "delivery", "tran", "payment", "items"}
  BY DEF Absent
<1>6. CASE SelectOrder(t)
  <2> DEFINE o == [Filled(t) EXCEPT !.base = Found(t).base]
             l == IF Found(t).base = None THEN "gotNone" ELSE "selDelivery"
  <2>1. o \in PartRow /\ o.base = Found(t).base
    BY <1>3, <1>4 DEF PartRow
  <2>2. ReadTo(t, l, o)
    BY <1>6, <2>1 DEF ReadTo, SelectOrder, At, PartsRead, Selecting
  <2> QED
    BY <1>1, <1>2, <1>4, <2>2
<1>7. CASE SelectDelivery(t)
  <2> DEFINE o == [Filled(t) EXCEPT !.delivery = Found(t).delivery]
  <2>1. o \in PartRow /\ o.delivery = Found(t).delivery /\ o.base = Filled(t).base
    BY <1>3, <1>4 DEF PartRow
  <2>2. ReadTo(t, "selPayment", o)
    BY <1>7, <2>1 DEF ReadTo, SelectDelivery, At, PartsRead, Selecting
  <2> QED
    BY <1>1, <1>2, <1>4, <2>2
<1>8. CASE SelectPayment(t)
  <2> DEFINE o == [Filled(t) EXCEPT !.payment = Found(t).payment,
                                    !.tran = Found(t).tran]
  <2>1. /\ o \in PartRow /\ o.payment = Found(t).payment /\ o.tran = Found(t).tran
        /\ o.base = Filled(t).base /\ o.delivery = Filled(t).delivery
    BY <1>3, <1>4 DEF PartRow
  <2>2. ReadTo(t, "selItems", o)
    BY <1>8, <2>1 DEF ReadTo, SelectPayment, At, PartsRead, Selecting
  <2> QED
    BY <1>1, <1>2, <1>4, <2>2
<1>9. CASE SelectItems(t)
  <2> DEFINE o == [Filled(t) EXCEPT !.items = Found(t).items]
  <2>1. /\ o \in PartRow /\ o.items = Found(t).items
        /\ \A part \in {"base", "delivery", "tran", "payment"} :
              o[part] = Filled(t)[part]
    BY <1>3, <1>4 DEF PartRow
  <2>2. ReadTo(t, "got", o)
    BY <1>5, <1>9, <2>1 DEF ReadTo, SelectItems, At, PartsRead, Selecting
  <2> QED
    BY <1>1, <1>2, <1>4, <2>2
<1> QED
  BY <1>6, <1>7, <1>8, <1>9 DEF GetWork
-----------------------------------------------------------------------------
(* The invariant is kept.                                                  *)

LEMMA ReadHolds ==
    ASSUME WInv, CallTyped, NEW t \in Threads,
           \/ \E u \in UIDs : GetByUID(t, u)
           \/ GetWork(t) \/ GetFails(t) \/ Return(t)
    PROVE  Alone(t) /\ Holding(t)
<1>1. CASE \E u \in UIDs : GetByUID(t, u)
  BY <1>1, NotSavingHolds DEF GetByUID, InTx
<1>2. CASE GetWork(t)
  <2>1. PICK l, o : ReadTo(t, l, o)
    BY <1>2, ReadResult DEF WInv
  <2> QED
    BY <2>1, NotSavingHolds DEF ReadTo, Read, Selecting, InTx
<1>3. CASE GetFails(t)
  <2>1. call[t] \in ReadCall
    BY <1>3, CallCases DEF CallTyped, GetFails, Reading, InGet
  <2>2. call' = [call EXCEPT ![t] = [call[t] EXCEPT !.at = "getErr"]]
    BY <1>3 DEF GetFails, Goto
  <2>3. [call[t] EXCEPT !.at = "getErr"].at = "getErr"
    BY <2>1 DEF ReadCall
  <2> QED
    BY <1>3, <2>2, <2>3, NotSavingHolds DEF GetFails, InTx
<1>4. CASE Return(t)
  BY <1>4, NotSavingHolds DEF Return, Idle, InTx
<1> QED
  BY <1>1, <1>2, <1>3, <1>4

LEMMA SaveBeginKeepsWInv ==
    ASSUME WInv, NEW t \in Threads, NEW u \in UIDs, NEW o \in Messages, Save(t, u, o)
    PROVE  WInv'
<1>1. CASE o.base.cust = NoCustomer
  <2> DEFINE c == [at |-> "saveErr", uid |-> u, order |-> o, seen |-> {}]
  <2>1. call' = [call EXCEPT ![t] = c] /\ UNCHANGED <<db, custs>>
    BY <1>1 DEF Save
  <2>2. c.at \notin InTx \cup {"begin"}
    BY DEF InTx
  <2> HIDE DEF c
  <2>3. Alone(t) /\ Holding(t)
    BY <2>1, <2>2, NotSavingHolds
  <2> QED
    BY <2>3, AloneKeepsWInv
<1>2. CASE o.base.cust # NoCustomer
  <2> DEFINE c == [at |-> "begin", uid |-> u, order |-> o, seen |-> {}]
  <2>1. call' = [call EXCEPT ![t] = c] /\ db' = db /\ custs' = custs
    BY <1>2 DEF Save
  <2>2. Alone(t) /\ call'[t] = c
    BY <2>1 DEF WInv, CallFn, Alone
  <2>3. c \in SaveCall /\ o.base.cust \in Customers
    BY <1>2 DEF SaveCall, Messages, Whole
  <2>4. ~HasOrder(t)' /\ ~HasPayment(t)'
    BY <2>2 DEF HasOrder, HasPayment, InTx
  <2>5. DbType' /\ CallFn' /\ OrdersWhole' /\ TransUnique'
    BY <2>1, <2>2 DEF WInv, DbType, CallFn, Alone, OrdersWhole, TransUnique
  <2>6. SavesMessages'
    <3>1. call'[t].order = o
      BY <2>2
    <3>2. \A p \in Threads \ {t} : InSave(p)' =>
             call'[p] \in SaveCall /\ call'[p].order.base.cust \in Customers
      BY <2>2 DEF WInv, SavesMessages, InSave, Alone
    <3> QED
      BY <2>2, <2>3, <3>1, <3>2 DEF SavesMessages
  <2>7. OrderLocked'
    BY <2>2, <2>4 DEF WInv, OrderLocked, HasOrder, Alone
  <2>8. \A p \in Threads \ {t} : Inserts(p)' = Inserts(p)
    BY <2>2 DEF Inserts, HasPayment, Alone
  <2>9. TranReserved'
    BY <2>2, <2>4, <2>8 DEF WInv, TranReserved, Inserts, TranTaken, Alone
  <2> QED
    BY <2>5, <2>6, <2>7, <2>9 DEF WInv
<1> QED
  BY <1>1, <1>2

\* A commit ends its transaction, tells the readers of its order, and leaves
\* the transactions of the others alone.
LEMMA CommitEffect ==
    ASSUME WInv, CallTyped, NEW t \in Threads, Commit(t)
    PROVE  LET u == call[t].uid
               o == call[t].order
           IN  /\ u \in UIDs /\ o \in Messages /\ o.base.cust \in Customers
               /\ HasPayment(t) /\ HasOrder(t)
               /\ db' = Applied(db, u, o)
               /\ custs' = custs \cup {o.base.cust}
               /\ DOMAIN call' = Threads /\ call' = [p \in Threads |-> call'[p]]
               /\ call'[t] \in SavedCall /\ call'[t].at \in {"saveOk", "saveErr"}
               /\ \A p \in Threads \ {t} :
                     IF Reading(p) /\ call[p].uid = u
                     THEN /\ call[p] \in ReadCall
                          /\ call'[p] = [call[p] EXCEPT !.seen = @ \cup {db'[u]}]
                     ELSE call'[p] = call[p]
<1> DEFINE u == call[t].uid
           o == call[t].order
<1>1. call[t] \in SaveCall /\ o.base.cust \in Customers /\ call[t] \in SavedCall
  BY CallCases DEF WInv, SavesMessages, InSave, InTx, Commit, At, CallTyped
<1>2. u \in UIDs /\ o \in Messages
  BY <1>1 DEF SaveCall
<1>3. HasPayment(t) /\ HasOrder(t)
  BY DEF Commit, At, HasPayment, HasOrder, InTx
<1>4. PICK l \in {"saveOk", "saveErr"} : call' = Committed(t, db', l)
  BY DEF Commit
<1>5. call'[t] = [call[t] EXCEPT !.at = l]
  BY <1>4 DEF Committed
<1>6. call'[t] \in SavedCall /\ call'[t].at = l
  BY <1>1, <1>5 DEF SavedCall
<1>7. DOMAIN call' = Threads /\ call' = [p \in Threads |-> call'[p]]
  BY <1>4 DEF Committed
<1>8. ASSUME NEW p \in Threads \ {t}, Reading(p), call[p].uid = u
      PROVE  /\ call[p] \in ReadCall
             /\ call'[p] = [call[p] EXCEPT !.seen = @ \cup {db'[u]}]
  BY <1>4, <1>8, CallCases DEF Committed, CallTyped, Reading, InGet
<1>9. ASSUME NEW p \in Threads \ {t}, ~(Reading(p) /\ call[p].uid = u)
      PROVE  call'[p] = call[p]
  BY <1>4, <1>9 DEF Committed
<1>10. db' = Applied(db, u, o) /\ custs' = custs \cup {o.base.cust}
  BY DEF Commit
<1> QED
  BY <1>1, <1>2, <1>3, <1>6, <1>7, <1>8, <1>9, <1>10

LEMMA CommitKeepsWInv ==
    ASSUME WInv, CallTyped, NEW t \in Threads, Commit(t)
    PROVE  WInv'
<1> DEFINE u == call[t].uid
           o == call[t].order
           others == Threads \ {t}
<1>1. /\ u \in UIDs /\ o \in Messages /\ o.base.cust \in Customers
      /\ HasPayment(t) /\ HasOrder(t)
      /\ db' = Applied(db, u, o) /\ custs' = custs \cup {o.base.cust}
      /\ DOMAIN call' = Threads /\ call' = [p \in Threads |-> call'[p]]
      /\ call'[t].at \in {"saveOk", "saveErr"}
  BY CommitEffect
<1>2. \A p \in others : /\ call'[p].at = call[p].at
                        /\ call'[p].uid = call[p].uid
                        /\ call'[p].order = call[p].order
                        /\ ~Reading(p) => call'[p] = call[p]
  <2> SUFFICES ASSUME NEW p \in others
               PROVE  /\ call'[p].at = call[p].at
                      /\ call'[p].uid = call[p].uid
                      /\ call'[p].order = call[p].order
                      /\ ~Reading(p) => call'[p] = call[p]
    OBVIOUS
  <2>1. CASE Reading(p) /\ call[p].uid = u
    <3>1. call[p] \in ReadCall /\ call'[p] = [call[p] EXCEPT !.seen = @ \cup {db'[u]}]
      BY <2>1, CommitEffect
    <3> QED
      BY <2>1, <3>1 DEF ReadCall
  <2>2. CASE ~(Reading(p) /\ call[p].uid = u)
    BY <2>2, CommitEffect
  <2> QED
    BY <2>1, <2>2
<1> HIDE DEF u, o
<1>3. /\ db' \in [UIDs -> Row \cup {Absent}] /\ db'[u] \in Row
      /\ db'[u].base = o.base
      /\ \E r \in Revs : /\ db'[u].base.rev = r /\ db'[u].delivery = r
                         /\ db'[u].payment = r /\ db'[u].items = r
      /\ db'[u].tran = StoredTran(db, u, o)
      /\ \A w \in UIDs \ {u} : db'[w] = db[w]
  <2>1. db \in [UIDs -> Row \cup {Absent}]
    BY DEF WInv, DbType
  <2> QED
    BY ONLY <1>1, <2>1, AppliedWhole
<1>4. ~InSave(t)' /\ ~HasOrder(t)' /\ ~HasPayment(t)'
  BY <1>1 DEF InSave, HasOrder, HasPayment, InTx
<1>5. \A p \in others : /\ InSave(p)' = InSave(p) /\ HasOrder(p)' = HasOrder(p)
                        /\ HasPayment(p)' = HasPayment(p)
                        /\ InSave(p) => call'[p] = call[p]
                        /\ HasPayment(p) => HasOrder(p)
  BY <1>2 DEF InSave, HasOrder, HasPayment, InTx, Reading, Selecting
<1>6. \A p \in others : HasOrder(p) => call[p].uid # u /\ call[p].uid \in UIDs
  BY <1>1, <1>5 DEF WInv, OrderLocked, SavesMessages, SaveCall, InSave, HasOrder, u
<1>7. DbType' /\ CallFn'
  BY <1>1, <1>3 DEF WInv, DbType, CallFn
<1>8. SavesMessages'
  BY <1>4, <1>5 DEF WInv, SavesMessages
<1>9. OrderLocked'
  BY <1>2, <1>4, <1>5 DEF WInv, OrderLocked
<1>10. OrdersWhole'
  <2>1. db'[u].base.cust \in custs'
    BY <1>1, <1>3
  <2>2. custs \subseteq custs'
    BY <1>1
  <2> QED
    BY <1>3, <2>1, <2>2 DEF WInv, OrdersWhole
<1>11. \A w \in UIDs \ {u} : db'[u].tran # db[w].tran
  <2> SUFFICES ASSUME NEW w \in UIDs \ {u} PROVE db'[u].tran # db[w].tran
    OBVIOUS
  <2>1. CASE db[u].tran = None
    <3>1. ~TranTaken(u, o.tran)
      BY <1>1, <2>1 DEF WInv, TranReserved, Inserts, u, o
    <3> QED
      BY <1>3, <2>1, <3>1 DEF TranTaken, StoredTran
  <2>2. CASE db[u].tran # None
    BY <1>1, <1>3, <2>2 DEF WInv, TransUnique, StoredTran
  <2> QED
    BY <2>1, <2>2
<1>12. TransUnique'
  BY <1>3, <1>11 DEF WInv, TransUnique
<1>13. \A p \in others : Inserts(p)' => Inserts(p)
  BY <1>2, <1>3, <1>5, <1>6 DEF Inserts
<1>14. ASSUME NEW p \in others, Inserts(p)
       PROVE  db'[u].tran # call[p].order.tran
  <2>1. ~TranTaken(call[p].uid, call[p].order.tran) /\ call[p].uid # u
    BY <1>5, <1>6, <1>14 DEF WInv, TranReserved, Inserts
  <2>2. CASE db[u].tran = None
    <3>1. call[p].order.tran # o.tran
      BY <1>1, <1>14, <2>2 DEF WInv, TranReserved, Inserts, u, o
    <3> QED
      BY <1>3, <2>2, <3>1 DEF StoredTran
  <2>3. CASE db[u].tran # None
    BY <1>1, <1>3, <2>1, <2>3 DEF TranTaken, StoredTran
  <2> QED
    BY <2>2, <2>3
<1>15. TranReserved'
  <2> SUFFICES ASSUME NEW p \in Threads, Inserts(p)'
               PROVE  /\ ~TranTaken(call[p].uid, call[p].order.tran)'
                      /\ \A q \in Threads \ {p} :
                            Inserts(q)' => call'[q].order.tran # call'[p].order.tran
    BY DEF TranReserved
  <2>1. p \in others /\ Inserts(p)
    BY <1>4, <1>13 DEF Inserts
  <2>2. call'[p].uid = call[p].uid /\ call'[p].order = call[p].order
    BY <1>2, <2>1
  <2>3. ~TranTaken(call[p].uid, call[p].order.tran)
    BY <2>1 DEF WInv, TranReserved
  <2>4. ~TranTaken(call[p].uid, call[p].order.tran)'
    BY <1>3, <1>14, <2>1, <2>2, <2>3 DEF TranTaken
  <2>5. ASSUME NEW q \in Threads \ {p}, Inserts(q)'
        PROVE  call'[q].order.tran # call'[p].order.tran
    <3>1. q \in others /\ Inserts(q)
      BY <1>4, <1>13, <2>5 DEF Inserts
    <3> QED
      BY <1>2, <2>1, <2>2, <3>1 DEF WInv, TranReserved
  <2> QED
    BY <2>4, <2>5
<1> QED
  BY <1>7, <1>8, <1>9, <1>10, <1>12, <1>15 DEF WInv
-----------------------------------------------------------------------------
\* What holds of one call's answer and reads, in a database where rows are r.
ReadOK(c, r) ==
    /\ c.at \in Selecting => r \in c.seen
    /\ c.at \in Selecting \ {"selOrder"} => r # Absent
    /\ \A part \in PartsRead(c.at) :
          \E v \in c.seen \ {Absent} : c.order[part] = v[part]
    /\ c.at = "gotNone" => Absent \in c.seen

\* A step of one thread alone keeps every read but its own.
LEMMA AloneKeepsReads ==
    ASSUME CallTyped, ReadsSeen, NEW t \in Threads, Alone(t),
           call'[t] \in Call, ReadOK(call'[t], db[call'[t].uid])
    PROVE  CallTyped' /\ ReadsSeen'
<1>1. CallTyped'
  BY DEF CallTyped, Alone
<1>2. ASSUME NEW p \in Threads
      PROVE  /\ Reading(p)' => db'[call'[p].uid] \in call'[p].seen
             /\ Reading(p)' /\ ~At(p, "selOrder")' => db'[call'[p].uid] # Absent
             /\ \A part \in PartsRead(call'[p].at) :
                   \E v \in call'[p].seen \ {Absent} :
                      call'[p].order[part] = v[part]
             /\ call'[p].at = "gotNone" => Absent \in call'[p].seen
  <2>1. CASE p = t
    BY <2>1 DEF ReadOK, Alone, Reading, At
  <2>2. CASE p # t
    BY <2>2 DEF ReadsSeen, Alone, Reading, At
  <2> QED
    BY <2>1, <2>2
<1> QED
  BY <1>1, <1>2 DEF ReadsSeen

\* A call that is not GetByUID, or failed, has read nothing.
LEMMA NotReadingOK ==
    ASSUME NEW c, NEW r, c.at \notin Selecting \cup {"got", "gotNone"}
    PROVE  ReadOK(c, r)
BY DEF ReadOK, PartsRead, Selecting

LEMMA SavedIsCall == SavedCall \subseteq Call
<1>1. \A o \in Messages : o \in Order
  BY DEF Messages, Whole, Order
<1> QED
  BY <1>1 DEF SavedCall, Call

LEMMA GotoTyped ==
    ASSUME CallTyped, CallFn, NEW t \in Threads, InSave(t),
           NEW l \in InTx \cup {"begin", "saveOk", "saveErr"}, Goto(t, l)
    PROVE  call'[t] \in Call /\ call'[t].at = l
<1>1. call[t] \in SavedCall
  BY CallCases DEF CallTyped, InSave
<1>2. call'[t] = [call[t] EXCEPT !.at = l]
  BY DEF Goto, CallFn
<1>3. call'[t] \in SavedCall /\ call'[t].at = l
  BY <1>1, <1>2 DEF SavedCall
<1> QED
  BY <1>3, SavedIsCall

LEMMA StatementKeepsReads ==
    ASSUME WInv, CallTyped, ReadsSeen, NEW t \in Threads, Statement(t) \/ SaveFails(t)
    PROVE  CallTyped' /\ ReadsSeen'
<1>1. Alone(t)
  BY StatementHolds
<1>2. InSave(t) /\ \E l \in InTx \cup {"saveErr"} : Goto(t, l)
  BY DEF Statement, SaveFails, Begin, InsertCustomer, UpsertOrder, UpsertDelivery,
         UpsertPayment, DeleteItems, copyItems, PaymentTaken, At, InSave, InTx
<1>3. PICK l \in InTx \cup {"saveErr"} : Goto(t, l)
  BY <1>2
<1>4. call'[t] \in Call /\ call'[t].at = l
  BY <1>2, <1>3, GotoTyped DEF WInv
<1>5. ReadOK(call'[t], db[call'[t].uid])
  BY <1>4, NotReadingOK DEF InTx, Selecting
<1> QED
  BY <1>1, <1>4, <1>5, AloneKeepsReads

LEMMA SaveKeepsReads ==
    ASSUME WInv, CallTyped, ReadsSeen, NEW t \in Threads, NEW u \in UIDs,
           NEW o \in Messages, Save(t, u, o)
    PROVE  CallTyped' /\ ReadsSeen'
<1>1. PICK l \in {"begin", "saveErr"} :
          /\ call' = [call EXCEPT ![t] = [at |-> l, uid |-> u, order |-> o, seen |-> {}]]
          /\ UNCHANGED <<db, custs>>
  BY DEF Save
<1>2. Alone(t) /\ call'[t] = [at |-> l, uid |-> u, order |-> o, seen |-> {}]
  BY <1>1 DEF WInv, CallFn, Alone
<1>3. o \in Order
  BY DEF Messages, Whole, Order
<1>4. call'[t] \in Call
  BY <1>2, <1>3, SavedIsCall DEF SavedCall
<1>5. ReadOK(call'[t], db[call'[t].uid])
  BY <1>2, NotReadingOK DEF Selecting
<1> QED
  BY <1>2, <1>4, <1>5, AloneKeepsReads

LEMMA GetKeepsReads ==
    ASSUME WInv, CallTyped, ReadsSeen, NEW t \in Threads,
           \/ \E u \in UIDs : GetByUID(t, u)
           \/ GetWork(t) \/ GetFails(t) \/ Return(t)
    PROVE  CallTyped' /\ ReadsSeen'
<1>1. Alone(t)
  BY ReadHolds
<1>2. ReadCall \subseteq Call
  BY DEF ReadCall, Call
<1>3. CASE \E u \in UIDs : GetByUID(t, u)
  <2>1. PICK u \in UIDs : GetByUID(t, u)
    BY <1>3
  <2>2. call'[t] = [at |-> "selOrder", uid |-> u, order |-> Absent, seen |-> {db[u]}]
    BY <2>1 DEF GetByUID, WInv, CallFn
  <2>3. Absent \in PartRow /\ db[u] \in Row \cup {Absent}
    BY DEF Absent, PartRow, WInv, DbType
  <2>4. call'[t] \in Call
    BY <1>2, <2>2, <2>3 DEF ReadCall, Selecting
  <2>5. ReadOK(call'[t], db[call'[t].uid])
    BY <2>2 DEF ReadOK, PartsRead
  <2> QED
    BY <1>1, <2>4, <2>5, AloneKeepsReads
<1>4. CASE GetWork(t)
  <2>1. PICK l, o : ReadTo(t, l, o)
    BY <1>4, ReadResult DEF WInv
  <2>2. Reading(t) /\ call[t] \in ReadCall
    BY <1>4, ReadResult DEF WInv
  <2>3. call'[t] = [at |-> l, uid |-> call[t].uid, order |-> o, seen |-> call[t].seen]
    BY <2>1 DEF ReadTo, Read, WInv, CallFn
  <2>4. call'[t] \in Call
    BY <1>2, <2>1, <2>2, <2>3 DEF ReadTo, ReadCall
  <2>5. Found(t) \in call[t].seen
    BY <2>2 DEF ReadsSeen, Found
  <2>6. call[t].uid \in UIDs /\ Found(t) \in Row \cup {Absent}
    BY <2>2 DEF ReadCall, Found, WInv, DbType
  <2>7. l = "gotNone" => Found(t) = Absent
    <3>1. ASSUME Found(t) \in Row
          PROVE  Found(t).base # None
      <4>1. Found(t).base \in [cust : Customers, rev : Revs]
        BY <3>1 DEF Row
      <4> QED
        BY <4>1, RepositoryAssumption
    <3> QED
      BY <2>1, <2>6, <3>1 DEF ReadTo
  <2>8. l # "gotNone" => Found(t) # Absent
    BY <2>1, <2>2 DEF ReadTo, ReadsSeen, Found, Absent
  <2>9. \A part \in PartsRead(l) :
           \E v \in call[t].seen \ {Absent} : o[part] = v[part]
    <3>1. l # "gotNone" \/ PartsRead(l) = {}
      BY DEF PartsRead
    <3> QED
      BY <2>1, <2>5, <2>8, <3>1 DEF ReadTo, ReadsSeen, Filled
  <2>10. ReadOK(call'[t], db[call'[t].uid])
    BY <2>3, <2>5, <2>7, <2>8, <2>9 DEF ReadOK, Found, Selecting
  <2> QED
    BY <1>1, <2>4, <2>10, AloneKeepsReads
<1>5. CASE GetFails(t)
  <2>1. call[t] \in ReadCall
    BY <1>5, CallCases DEF CallTyped, GetFails, Reading, InGet
  <2>2. call'[t] = [call[t] EXCEPT !.at = "getErr"]
    BY <1>5 DEF GetFails, Goto, WInv, CallFn
  <2>3. call'[t] \in ReadCall /\ call'[t].at = "getErr"
    BY <2>1, <2>2 DEF ReadCall
  <2>4. ReadOK(call'[t], db[call'[t].uid])
    BY <2>3, NotReadingOK DEF Selecting
  <2> QED
    BY <1>1, <1>2, <2>3, <2>4, AloneKeepsReads
<1>6. CASE Return(t)
  <2>1. call'[t] = Idle /\ call'[t].at = "idle"
    BY <1>6 DEF Return, Idle, WInv, CallFn
  <2>2. ReadOK(call'[t], db[call'[t].uid])
    BY <2>1, NotReadingOK DEF Selecting
  <2> QED
    BY <1>1, <2>1, <2>2, AloneKeepsReads DEF Call
<1> QED
  BY <1>3, <1>4, <1>5, <1>6

LEMMA CommitKeepsReads ==
    ASSUME WInv, CallTyped, ReadsSeen, NEW t \in Threads, Commit(t)
    PROVE  CallTyped' /\ ReadsSeen'
<1> DEFINE u == call[t].uid
           others == Threads \ {t}
<1>1. /\ u \in UIDs
      /\ db' = Applied(db, u, call[t].order)
      /\ call'[t] \in SavedCall /\ call'[t].at \in {"saveOk", "saveErr"}
      /\ \A p \in others :
            IF Reading(p) /\ call[p].uid = u
            THEN /\ call[p] \in ReadCall
                 /\ call'[p] = [call[p] EXCEPT !.seen = @ \cup {db'[u]}]
            ELSE call'[p] = call[p]
  BY CommitEffect
<1>2. db'[u] \in Row /\ db'[u] # Absent /\ \A w \in UIDs \ {u} : db'[w] = db[w]
  BY CommitEffect, AppliedWhole, RowNotAbsent DEF WInv, DbType
<1> HIDE DEF u
<1>3. CallTyped' /\ \A p \in Threads : ReadOK(call'[p], db'[call'[p].uid])
  <2> SUFFICES ASSUME NEW p \in Threads
               PROVE  call'[p] \in Call /\ ReadOK(call'[p], db'[call'[p].uid])
    BY DEF CallTyped
  <2>1. CASE p = t
    <3>1. call'[p].at \notin Selecting \cup {"got", "gotNone"}
      BY <1>1, <2>1 DEF Selecting
    <3> QED
      BY <1>1, <2>1, <3>1, NotReadingOK, SavedIsCall
  <2>2. CASE p # t /\ Reading(p) /\ call[p].uid = u
    <3>1. call[p] \in ReadCall /\ call'[p] = [call[p] EXCEPT !.seen = @ \cup {db'[u]}]
      BY <1>1, <2>2
    <3>2. /\ call'[p].at = call[p].at /\ call'[p].uid = u
          /\ call'[p].order = call[p].order
          /\ call'[p].seen = call[p].seen \cup {db'[u]}
      BY <2>2, <3>1 DEF ReadCall
    <3>3. call'[p] \in ReadCall
      BY <1>2, <3>1 DEF ReadCall
    <3>4. ReadOK(call'[p], db'[call'[p].uid])
      BY <1>2, <3>2 DEF ReadOK, ReadsSeen
    <3> QED
      BY <3>3, <3>4 DEF ReadCall, Call
  <2>3. CASE p # t /\ ~(Reading(p) /\ call[p].uid = u)
    <3>1. call'[p] = call[p] /\ call[p] \in Call
      BY <1>1, <2>3 DEF CallTyped
    <3>2. Reading(p) => call[p].uid \in UIDs \ {u}
      BY <2>3, <3>1, CallCases DEF Reading, InGet, ReadCall
    <3>3. ReadOK(call'[p], db'[call'[p].uid])
      BY <1>2, <3>1, <3>2 DEF ReadOK, ReadsSeen, Reading, At
    <3> QED
      BY <3>1, <3>3
  <2> QED
    BY <2>1, <2>2, <2>3
<1> QED
  BY <1>3 DEF ReadsSeen, ReadOK, Reading, At
-----------------------------------------------------------------------------
(* The theorems.                                                           *)

RInv == WInv /\ CallTyped /\ ReadsSeen

LEMMA InitRInv == Init => RInv
<1> SUFFICES ASSUME Init PROVE RInv
  OBVIOUS
<1>1. \A t \in Threads : call[t] = Idle /\ call[t].at = "idle"
  BY DEF Init, Idle
<1>2. CallTyped
  BY <1>1 DEF CallTyped, Call
<1>3. ReadsSeen
  BY <1>1 DEF ReadsSeen, Reading, Selecting, PartsRead
<1> QED
  BY <1>2, <1>3, InitWInv DEF RInv

LEMMA NextRInv == RInv /\ [Next]_rvars => RInv'
<1> SUFFICES ASSUME RInv, [Next]_rvars PROVE RInv'
  OBVIOUS
<1>1. ASSUME NEW t \in Threads, NEW u \in UIDs, NEW o \in Messages, Save(t, u, o)
      PROVE  RInv'
  BY <1>1, SaveBeginKeepsWInv, SaveKeepsReads DEF RInv
<1>2. ASSUME NEW t \in Threads, Statement(t) \/ SaveFails(t)
      PROVE  RInv'
  BY <1>2, StatementHolds, AloneKeepsWInv, StatementKeepsReads DEF RInv
<1>3. ASSUME NEW t \in Threads, Commit(t)
      PROVE  RInv'
  BY <1>3, CommitKeepsWInv, CommitKeepsReads DEF RInv
<1>4. ASSUME NEW t \in Threads,
             \/ \E u \in UIDs : GetByUID(t, u)
             \/ GetWork(t) \/ GetFails(t) \/ Return(t)
      PROVE  RInv'
  BY <1>4, ReadHolds, AloneKeepsWInv, GetKeepsReads DEF RInv
<1>5. CASE UNCHANGED rvars
  BY <1>5 DEF rvars, RInv, WInv, CallTyped, ReadsSeen, DbType, CallFn, SavesMessages,
              OrderLocked, TranReserved, OrdersWhole, TransUnique, InSave, HasOrder,
              HasPayment, Inserts, TranTaken, Reading, At
<1> QED
  BY <1>1, <1>2, <1>3, <1>4, <1>5 DEF Next, SaveWork

LEMMA Invariance == Spec => []RInv
BY InitRInv, NextRInv, PTL DEF Spec

\* Every row and every call has its type.
THEOREM TypeCorrect == Spec => []TypeOK
<1>1. RInv => TypeOK
  BY DEF RInv, WInv, DbType, CallFn, CallTyped, TypeOK
<1> QED
  BY <1>1, Invariance, PTL

\* Save is atomic to the database: whatever its failures and overlaps, the
\* committed parts of an order are those of one message.
THEOREM WholeOrders == Spec => []OrdersWhole
<1>1. RInv => OrdersWhole
  BY DEF RInv, WInv
<1> QED
  BY <1>1, Invariance, PTL

\* No two orders ever hold one payment transaction.
THEOREM Unique == Spec => []TransUnique
<1>1. RInv => TransUnique
  BY DEF RInv, WInv
<1> QED
  BY <1>1, Invariance, PTL

\* A Save repeated after a redelivery changes nothing, in every database that
\* can be reached.
THEOREM Repeated == Spec => []SaveIdempotent
<1>1. RInv => SaveIdempotent
  BY Idempotent DEF RInv, WInv
<1> QED
  BY <1>1, Invariance, PTL

\* GetByUID answers only parts that were committed during the call, and all of
\* them, although it asks for each in a query of its own; it says there is no
\* order only if there was none during the call.
THEOREM CommittedRead == Spec => []ReadIsCommitted
<1>1. RInv => ReadIsCommitted
  BY DEF RInv, ReadsSeen, ReadIsCommitted, PartsRead, At
<1> QED
  BY <1>1, Invariance, PTL
-----------------------------------------------------------------------------
(* The repository as a store of whole orders.                              *)

\* What a caller sees of a call that stands at a place of Save or GetByUID.
LEMMA RequestIs ==
    ASSUME NEW t \in Threads
    PROVE  /\ Requests[t] = Request(t)
           /\ At(t, "idle") => Request(t) = [op |-> "idle"]
           /\ InSave(t) => Request(t) = [op |-> "save", uid |-> call[t].uid,
                                         order |-> call[t].order]
           /\ Reading(t) => Request(t) = [op |-> "get", uid |-> call[t].uid,
                                          seen |-> call[t].seen]
           /\ At(t, "saveOk") => Request(t) = [op |-> "ok"]
           /\ At(t, "got") => Request(t) = [op |-> "found", order |-> call[t].order]
           /\ At(t, "gotNone") => Request(t) = [op |-> "none"]
           /\ At(t, "saveErr") \/ At(t, "getErr") => Request(t) = [op |-> "err"]
<1>1. Requests[t] = Request(t)
  BY DEF Requests
<1>2. At(t, "idle") => Request(t) = [op |-> "idle"]
  BY DEF Request, At, InTx, Reading, Selecting
<1>3. InSave(t) => Request(t) = [op |-> "save", uid |-> call[t].uid,
                                 order |-> call[t].order]
  BY DEF Request, At, InSave, InTx, Reading, Selecting
<1>4. Reading(t) => Request(t) = [op |-> "get", uid |-> call[t].uid,
                                  seen |-> call[t].seen]
  BY DEF Request, At, InTx, Reading, Selecting
<1>5. At(t, "saveOk") => Request(t) = [op |-> "ok"]
  BY DEF Request, At, InTx, Reading, Selecting
<1>6. At(t, "got") => Request(t) = [op |-> "found", order |-> call[t].order]
  BY DEF Request, At, InTx, Reading, Selecting
<1>7. At(t, "gotNone") => Request(t) = [op |-> "none"]
  BY DEF Request, At, InTx, Reading, Selecting
<1>8. At(t, "saveErr") \/ At(t, "getErr") => Request(t) = [op |-> "err"]
  BY DEF Request, At, InTx, Reading, Selecting
<1> QED
  BY <1>1, <1>2, <1>3, <1>4, <1>5, <1>6, <1>7, <1>8

LEMMA RequestIsNext ==
    ASSUME NEW t \in Threads
    PROVE  /\ Requests'[t] = Request(t)'
           /\ At(t, "idle")' => Request(t)' = [op |-> "idle"]
           /\ InSave(t)' => Request(t)' = [op |-> "save", uid |-> call'[t].uid,
                                           order |-> call'[t].order]
           /\ Reading(t)' => Request(t)' = [op |-> "get", uid |-> call'[t].uid,
                                            seen |-> call'[t].seen]
           /\ At(t, "saveOk")' => Request(t)' = [op |-> "ok"]
           /\ At(t, "got")' => Request(t)' = [op |-> "found", order |-> call'[t].order]
           /\ At(t, "gotNone")' => Request(t)' = [op |-> "none"]
           /\ At(t, "saveErr")' \/ At(t, "getErr")' => Request(t)' = [op |-> "err"]
<1>1. Requests'[t] = Request(t)'
  BY DEF Requests
<1>2. At(t, "idle")' => Request(t)' = [op |-> "idle"]
  BY DEF Request, At, InTx, Reading, Selecting
<1>3. InSave(t)' => Request(t)' = [op |-> "save", uid |-> call'[t].uid,
                                   order |-> call'[t].order]
  BY DEF Request, At, InSave, InTx, Reading, Selecting
<1>4. Reading(t)' => Request(t)' = [op |-> "get", uid |-> call'[t].uid,
                                    seen |-> call'[t].seen]
  BY DEF Request, At, InTx, Reading, Selecting
<1>5. At(t, "saveOk")' => Request(t)' = [op |-> "ok"]
  BY DEF Request, At, InTx, Reading, Selecting
<1>6. At(t, "got")' => Request(t)' = [op |-> "found", order |-> call'[t].order]
  BY DEF Request, At, InTx, Reading, Selecting
<1>7. At(t, "gotNone")' => Request(t)' = [op |-> "none"]
  BY DEF Request, At, InTx, Reading, Selecting
<1>8. At(t, "saveErr")' \/ At(t, "getErr")' => Request(t)' = [op |-> "err"]
  BY DEF Request, At, InTx, Reading, Selecting
<1> QED
  BY <1>1, <1>2, <1>3, <1>4, <1>5, <1>6, <1>7, <1>8

\* A step of one thread alone changes its own request, if any.
LEMMA AloneAnswers ==
    ASSUME NEW t \in Threads, Alone(t)
    PROVE  Store!Answer(t, Request(t)') /\ db' = db
<1>1. \A p \in Threads \ {t} : Request(p)' = Request(p)
  BY DEF Alone, Request, At, Reading
<1>2. Requests' = [Requests EXCEPT ![t] = Request(t)']
  BY <1>1 DEF Requests
<1> QED
  BY <1>2 DEF Store!Answer, Alone

\* A step that is invisible to its caller.
LEMMA InvisibleStep ==
    ASSUME NEW t \in Threads, Alone(t), Request(t)' = Request(t)
    PROVE  UNCHANGED Store!tvars
<1>1. \A p \in Threads : Request(p)' = Request(p)
  BY DEF Alone, Request, At, Reading
<1>2. Requests' = Requests
  BY <1>1 DEF Requests
<1> QED
  BY <1>2 DEF Store!tvars, Alone

LEMMA SaveIsAsked ==
    ASSUME WInv, NEW t \in Threads, NEW u \in UIDs, NEW o \in Messages, Save(t, u, o)
    PROVE  Store!Ask(t) \/ Store!Refuse(t)
<1>1. PICK l \in {"begin", "saveErr"} :
          /\ l = IF o.base.cust = NoCustomer THEN "saveErr" ELSE "begin"
          /\ call' = [call EXCEPT ![t] = [at |-> l, uid |-> u, order |-> o, seen |-> {}]]
          /\ At(t, "idle") /\ UNCHANGED <<db, custs>>
  BY DEF Save
<1>2. Alone(t) /\ call'[t] = [at |-> l, uid |-> u, order |-> o, seen |-> {}]
  BY <1>1 DEF WInv, CallFn, Alone
<1>3. Store!In(t, "idle")
  BY <1>1, RequestIs DEF Store!In
<1>4. Store!Answer(t, Request(t)') /\ db' = db
  BY <1>2, AloneAnswers
<1>5. CASE l = "begin"
  <2>1. Request(t)' = [op |-> "save", uid |-> u, order |-> o]
    BY <1>2, <1>5, RequestIsNext DEF InSave
  <2>2. o \in Savable
    BY <1>1, <1>5 DEF Savable
  <2> QED
    BY <1>3, <1>4, <2>1, <2>2 DEF Store!Ask
<1>6. CASE l = "saveErr"
  <2>1. Request(t)' = [op |-> "err"]
    BY <1>2, <1>6, RequestIsNext DEF At
  <2> QED
    BY <1>3, <1>4, <2>1 DEF Store!Refuse, Store!Errs
<1> QED
  BY <1>5, <1>6

\* The statements of an open transaction are seen by nobody; its rollback is an
\* answer without effect.
LEMMA StatementIsInvisible ==
    ASSUME WInv, CallTyped, NEW t \in Threads, Statement(t) \/ SaveFails(t)
    PROVE  UNCHANGED Store!tvars \/ Store!Fails(t)
<1>1. Alone(t)
  BY StatementHolds
<1>2. InSave(t) /\ \E l \in InTx \cup {"saveErr"} : Goto(t, l)
  BY DEF Statement, SaveFails, Begin, InsertCustomer, UpsertOrder, UpsertDelivery,
         UpsertPayment, DeleteItems, copyItems, PaymentTaken, At, InSave, InTx
<1>3. PICK l \in InTx \cup {"saveErr"} : Goto(t, l)
  BY <1>2
<1>4. call[t] \in SavedCall
  BY <1>2, CallCases DEF CallTyped, InSave
<1>5. call'[t] = [call[t] EXCEPT !.at = l]
  BY <1>3 DEF Goto, CallFn, WInv
<1>6. /\ call'[t].at = l /\ call'[t].uid = call[t].uid
      /\ call'[t].order = call[t].order
  BY <1>4, <1>5 DEF SavedCall
<1>7. CASE l \in InTx
  <2>1. Request(t)' = Request(t)
    BY <1>2, <1>6, <1>7, RequestIs, RequestIsNext DEF InSave
  <2> QED
    BY <1>1, <2>1, InvisibleStep
<1>8. CASE l = "saveErr"
  <2>1. Request(t)' = [op |-> "err"]
    BY <1>6, <1>8, RequestIsNext DEF At
  <2>2. Store!In(t, "save")
    BY <1>2, RequestIs DEF Store!In
  <2> QED
    BY <1>1, <2>1, <2>2, AloneAnswers DEF Store!Fails, Store!Errs
<1> QED
  BY <1>7, <1>8

\* What a commit writes is what the store holds from then on.
LEMMA CommitStores ==
    ASSUME WInv, CallTyped, NEW t \in Threads, Commit(t)
    PROVE  LET u == call[t].uid
               v == Store!Stored(u, call[t].order)
           IN  /\ db' = [db EXCEPT ![u] = v] /\ db'[u] = v
               /\ db[u] = Absent => Store!Claimable(u, v.tran)
<1> DEFINE u == call[t].uid
           o == call[t].order
           v == Store!Stored(u, o)
<1>1. /\ u \in UIDs /\ o \in Messages /\ o.base.cust \in Customers
      /\ HasPayment(t) /\ db' = Applied(db, u, o)
  BY CommitEffect
<1>2. db[u] \in Row \cup {Absent} /\ DOMAIN db = UIDs
  BY <1>1 DEF WInv, DbType
<1>3. Absent.tran = None /\ (db[u] \in Row => db[u].tran # None /\ db[u] # Absent)
  BY RowNotAbsent DEF Absent
<1>4. [o EXCEPT !.tran = o.tran] = o
  BY <1>1 DEF Messages, Whole
<1>5. v = [o EXCEPT !.tran = StoredTran(db, u, o)]
  <2>1. CASE db[u] = Absent
    BY <1>3, <1>4, <2>1 DEF Store!Stored, StoredTran
  <2>2. CASE db[u] \in Row
    BY <1>3, <2>2 DEF Store!Stored, StoredTran
  <2> QED
    BY <1>2, <2>1, <2>2
<1> HIDE DEF u, v, o
<1>6. db' = [db EXCEPT ![u] = v] /\ db'[u] = v
  BY <1>1, <1>2, <1>5 DEF Applied
<1>7. ASSUME db[u] = Absent
      PROVE  Store!Claimable(u, v.tran)
  <2>1. db[u].tran = None
    BY <1>3, <1>7
  <2>2. ~TranTaken(u, o.tran)
    BY <1>1, <2>1 DEF u, o, WInv, TranReserved, Inserts
  <2>3. v.tran = o.tran
    BY <1>7 DEF v, Store!Stored
  <2> QED
    BY <2>2, <2>3 DEF Store!Claimable, TranTaken
<1> QED
  BY <1>6, <1>7 DEF u, v, o

LEMMA CommitSaves ==
    ASSUME WInv, CallTyped, NEW t \in Threads, Commit(t)
    PROVE  Store!Saves(t)
<1> DEFINE u == call[t].uid
           v == Store!Stored(u, call[t].order)
<1>1. /\ u \in UIDs
      /\ call'[t].at \in {"saveOk", "saveErr"}
      /\ \A p \in Threads \ {t} :
            IF Reading(p) /\ call[p].uid = u
            THEN /\ call[p] \in ReadCall
                 /\ call'[p] = [call[p] EXCEPT !.seen = @ \cup {db'[u]}]
            ELSE call'[p] = call[p]
  BY CommitEffect
<1>2. /\ db' = [db EXCEPT ![u] = v] /\ db'[u] = v
      /\ db[u] = Absent => Store!Claimable(u, v.tran)
  BY CommitStores
<1>3. InSave(t)
  BY DEF Commit, At, InSave, InTx
<1>4. /\ Requests[t].op = "save" /\ Requests[t].uid = u
      /\ Requests[t].order = call[t].order
  BY <1>3, RequestIs
<1> HIDE DEF u, v
<1>5. PICK l \in {"ok", "err"} : Request(t)' = [op |-> l]
  BY <1>1, RequestIsNext DEF At
<1>6. ASSUME NEW p \in Threads \ {t}
      PROVE  Request(p)' = IF Store!In(p, "get") /\ Requests[p].uid = u
                           THEN [Requests[p] EXCEPT !.seen = @ \cup {v}]
                           ELSE Requests[p]
  <2>1. CASE Reading(p) /\ call[p].uid = u
    <3>1. call[p] \in ReadCall /\ call'[p] = [call[p] EXCEPT !.seen = @ \cup {v}]
      BY <1>1, <1>2, <2>1
    <3>2. /\ call'[p].at = call[p].at /\ call'[p].uid = u
          /\ call'[p].seen = call[p].seen \cup {v}
      BY <2>1, <3>1 DEF ReadCall
    <3>3. Requests[p] = [op |-> "get", uid |-> u, seen |-> call[p].seen]
      BY <2>1, RequestIs
    <3>4. Request(p)' = [op |-> "get", uid |-> u, seen |-> call[p].seen \cup {v}]
      BY <2>1, <3>2, RequestIsNext DEF Reading
    <3> QED
      BY <3>3, <3>4 DEF Store!In
  <2>2. CASE ~(Reading(p) /\ call[p].uid = u)
    <3>1. call'[p] = call[p]
      BY <1>1, <2>2
    <3>2. Request(p)' = Requests[p]
      BY <3>1, RequestIs DEF Request, At, Reading
    <3>3. Store!In(p, "get") => Reading(p)
      <4>1. \/ At(p, "idle") \/ InSave(p) \/ Reading(p) \/ At(p, "saveOk")
            \/ At(p, "got") \/ At(p, "gotNone") \/ Request(p) = [op |-> "err"]
        BY DEF Request, InSave
      <4>2. Request(p).op = "get" => Reading(p)
        BY <4>1, RequestIs
      <4> QED
        BY <4>2, RequestIs DEF Store!In
    <3>4. ~(Store!In(p, "get") /\ Requests[p].uid = u)
      BY <2>2, <3>3, RequestIs
    <3> QED
      BY <3>2, <3>4
  <2> QED
    BY <2>1, <2>2
<1>7. Requests' = [p \in Threads |->
                      IF p = t THEN [op |-> l]
                      ELSE IF Store!In(p, "get") /\ Requests[p].uid = u
                           THEN [Requests[p] EXCEPT !.seen = @ \cup {v}]
                           ELSE Requests[p]]
  BY <1>5, <1>6 DEF Requests
<1> QED
  BY <1>2, <1>4, <1>7 DEF Store!Saves, Store!In, u, v

\* The order answered has each part of some version that was stored.
LEMMA GotFinds ==
    ASSUME NEW t \in Threads, NEW seen, NEW o \in PartRow,
           Store!In(t, "get"), Requests[t].seen = seen,
           \A part \in DOMAIN Absent : \E v \in seen \ {Absent} : o[part] = v[part],
           Store!Answer(t, [op |-> "found", order |-> o]), db' = db
    PROVE  Store!Finds(t)
<1> DEFINE from == [part \in DOMAIN Absent |->
                       CHOOSE v \in seen \ {Absent} : o[part] = v[part]]
<1>1. \A part \in DOMAIN Absent :
         from[part] \in seen \ {Absent} /\ o[part] = from[part][part]
  OBVIOUS
<1>2. from \in [DOMAIN Absent -> seen \ {Absent}]
  BY <1>1
<1> HIDE DEF from
<1>3. o = [part \in DOMAIN Absent |-> o[part]]
  BY DEF PartRow, Absent
<1>4. o = [part \in DOMAIN Absent |-> from[part][part]]
  BY <1>1, <1>3
<1> QED
  BY <1>2, <1>4 DEF Store!Finds

LEMMA GetIsAsked ==
    ASSUME RInv, RInv', NEW t \in Threads,
           \/ \E u \in UIDs : GetByUID(t, u)
           \/ GetWork(t) \/ GetFails(t) \/ Return(t)
    PROVE  \/ UNCHANGED Store!tvars
           \/ Store!Ask(t) \/ Store!Finds(t) \/ Store!Misses(t)
           \/ Store!Fails(t) \/ Store!Returns(t)
<1>1. Alone(t) /\ Store!Answer(t, Request(t)') /\ db' = db
  BY ReadHolds, AloneAnswers DEF RInv
<1>2. CASE \E u \in UIDs : GetByUID(t, u)
  <2>1. PICK u \in UIDs : GetByUID(t, u)
    BY <1>2
  <2>2. call'[t] = [at |-> "selOrder", uid |-> u, order |-> Absent, seen |-> {db[u]}]
    BY <2>1 DEF GetByUID, RInv, WInv, CallFn
  <2>3. Request(t)' = [op |-> "get", uid |-> u, seen |-> {db[u]}]
    BY <2>2, RequestIsNext DEF Reading, Selecting
  <2>4. Store!In(t, "idle")
    BY <2>1, RequestIs DEF Store!In, GetByUID
  <2> QED
    BY <1>1, <2>3, <2>4 DEF Store!Ask
<1>3. CASE GetWork(t)
  <2>1. PICK l, o : ReadTo(t, l, o)
    BY <1>3, ReadResult DEF RInv, WInv
  <2>2. Reading(t) /\ call[t] \in ReadCall
    BY <1>3, ReadResult DEF RInv, WInv
  <2>3. call'[t] = [at |-> l, uid |-> call[t].uid, order |-> o, seen |-> call[t].seen]
    BY <2>1 DEF ReadTo, Read, RInv, WInv, CallFn
  <2>4. Requests[t] = [op |-> "get", uid |-> call[t].uid, seen |-> call[t].seen]
    BY <2>2, RequestIs
  <2>5. CASE l \in Selecting
    <3>1. Request(t)' = Request(t)
      BY <2>2, <2>3, <2>5, RequestIs, RequestIsNext DEF Reading
    <3> QED
      BY <1>1, <3>1, InvisibleStep
  <2>6. CASE l = "got"
    <3>1. Request(t)' = [op |-> "found", order |-> o]
      BY <2>3, <2>6, RequestIsNext DEF At
    <3>2. \A part \in DOMAIN Absent :
             \E v \in call[t].seen \ {Absent} : o[part] = v[part]
      BY <2>3, <2>6 DEF RInv, ReadsSeen, PartsRead
    <3>3. Store!In(t, "get") /\ Requests[t].seen = call[t].seen /\ o \in PartRow
      BY <2>1, <2>4 DEF Store!In, ReadTo
    <3>4. Store!Answer(t, [op |-> "found", order |-> o])
      BY <1>1, <3>1
    <3> QED
      BY <1>1, <3>2, <3>3, <3>4, GotFinds
  <2>7. CASE l = "gotNone"
    <3>1. Request(t)' = [op |-> "none"]
      BY <2>3, <2>7, RequestIsNext DEF At
    <3>2. Absent \in call[t].seen
      BY <2>3, <2>7 DEF RInv, ReadsSeen
    <3> QED
      BY <1>1, <2>4, <3>1, <3>2 DEF Store!Misses, Store!In
  <2> QED
    BY <2>1, <2>5, <2>6, <2>7 DEF ReadTo
<1>4. CASE GetFails(t)
  <2>1. Reading(t) /\ call[t] \in ReadCall
    BY <1>4, CallCases DEF RInv, CallTyped, GetFails, Reading, InGet
  <2>2. call'[t] = [call[t] EXCEPT !.at = "getErr"]
    BY <1>4 DEF GetFails, Goto, RInv, WInv, CallFn
  <2>3. call'[t].at = "getErr"
    BY <2>1, <2>2 DEF ReadCall
  <2>4. Request(t)' = [op |-> "err"]
    BY <2>3, RequestIsNext DEF At
  <2>5. Store!In(t, "get")
    BY <2>1, RequestIs DEF Store!In
  <2> QED
    BY <1>1, <2>4, <2>5 DEF Store!Fails, Store!Errs
<1>5. CASE Return(t)
  <2>1. call'[t].at = "idle"
    BY <1>5 DEF Return, Idle, RInv, WInv, CallFn
  <2>2. Request(t)' = [op |-> "idle"]
    BY <2>1, RequestIsNext DEF At
  <2>3. Requests[t].op \in {"ok", "err", "found", "none"}
    BY <1>5, RequestIs DEF Return, Results, At
  <2> QED
    BY <1>1, <2>2, <2>3 DEF Store!Returns, Store!Quiet
<1> QED
  BY <1>2, <1>3, <1>4, <1>5

LEMMA StepImplementsStore ==
    ASSUME RInv, RInv', [Next]_rvars
    PROVE  [Store!Next]_(Store!tvars)
<1>1. ASSUME NEW t \in Threads, NEW u \in UIDs, NEW o \in Messages, Save(t, u, o)
      PROVE  Store!Next
  BY <1>1, SaveIsAsked DEF RInv, Store!Next
<1>2. ASSUME NEW t \in Threads, Statement(t) \/ SaveFails(t)
      PROVE  [Store!Next]_(Store!tvars)
  BY <1>2, StatementIsInvisible DEF RInv, Store!Next
<1>3. ASSUME NEW t \in Threads, Commit(t)
      PROVE  Store!Next
  BY <1>3, CommitSaves DEF RInv, Store!Next
<1>4. ASSUME NEW t \in Threads,
             \/ \E u \in UIDs : GetByUID(t, u)
             \/ GetWork(t) \/ GetFails(t) \/ Return(t)
      PROVE  [Store!Next]_(Store!tvars)
  BY <1>4, GetIsAsked DEF Store!Next
<1>5. CASE UNCHANGED rvars
  <2>1. Requests' = Requests
    BY <1>5 DEF rvars, Requests, Request, At, Reading
  <2> QED
    BY <1>5, <2>1 DEF rvars, Store!tvars
<1> QED
  BY <1>1, <1>2, <1>3, <1>4, <1>5 DEF Next, SaveWork

LEMMA InitImplementsStore == Init => Store!Init
<1> SUFFICES ASSUME Init PROVE Store!Init
  OBVIOUS
<1>1. \A t \in Threads : call[t].at = "idle"
  BY DEF Init, Idle
<1>2. \A t \in Threads : Request(t) = [op |-> "idle"]
  BY <1>1, RequestIs DEF At
<1>3. Requests = [t \in Threads |-> [op |-> "idle"]]
  BY <1>2 DEF Requests
<1> QED
  BY <1>3 DEF Init, Store!Init, Store!Quiet

\* To its callers the repository is a store of whole orders: every Save has its
\* effect at one step of its call or none at all, whatever statements of other
\* calls run in between and whichever of its own fails.
THEOREM Implementation == Spec => ImplementsStore
<1>1. Init => Store!Init
  BY InitImplementsStore
<1>2. RInv /\ RInv' /\ [Next]_rvars => [Store!Next]_(Store!tvars)
  BY StepImplementsStore
<1> QED
  BY <1>1, <1>2, Invariance, PTL DEF Spec, ImplementsStore, Store!Spec
-----------------------------------------------------------------------------
(* Locks.                                                                  *)

\* The statements that may wait, in the order of Save.
Stage(t) == CASE At(t, "customer") -> 1
              [] At(t, "order")    -> 2
              [] At(t, "payment")  -> 3
              [] OTHER             -> 0

\* Who waits at a statement waits for one that is past it.
LEMMA WaitsForLater ==
    ASSUME NEW t \in Threads, NEW p \in Threads, WaitsFor(t, p)
    PROVE  Stage(t) # 0 /\ (Stage(p) = 0 \/ Stage(p) > Stage(t))
<1>1. CASE At(t, "customer")
  BY <1>1 DEF WaitsFor, WaitsForCustomer, HasCustomer, At, InTx, Stage
<1>2. CASE At(t, "order")
  BY <1>2 DEF WaitsFor, WaitsForOrder, HasOrder, At, InTx, Stage
<1>3. CASE At(t, "payment")
  BY <1>3 DEF WaitsFor, WaitsForPayment, HasPayment, At, InTx, Stage
<1> QED
  BY <1>1, <1>2, <1>3 DEF WaitsFor

\* Saves lock in the same order: no set of them can all wait for each other.
THEOREM NoDeadlock == Spec => []NoCircle
<1>1. NoCircle
  <2> SUFFICES ASSUME NEW S \in SUBSET Threads, S # {},
                      \A t \in S : \E p \in S \ {t} : WaitsFor(t, p)
               PROVE  FALSE
    BY DEF NoCircle
  <2>1. \A t \in S : \E p \in S : Stage(t) # 0 /\ (Stage(p) = 0 \/ Stage(p) > Stage(t))
    BY WaitsForLater
  <2>2. \A t \in S : Stage(t) \in 0 .. 3
    BY DEF Stage
  <2>3. \A t \in S : Stage(t) # 3
    BY <2>1, <2>2
  <2>4. \A t \in S : Stage(t) # 2
    BY <2>1, <2>2, <2>3
  <2>5. \A t \in S : Stage(t) # 1
    BY <2>1, <2>2, <2>3, <2>4
  <2> QED
    BY <2>1, <2>2, <2>3, <2>4, <2>5
<1> QED
  BY <1>1, PTL
=============================================================================
