-------------------------- MODULE OrderRepository ---------------------------
(***************************************************************************)
(* The Postgres repository of orders (internal/repo/postgres): Save as one *)
(* transaction of statements, GetByUID as four statements of their own.    *)
(*                                                                         *)
(* The database is modelled from how the repository uses it: uncommitted   *)
(* writes are visible to nobody, so a transaction is where it stands and   *)
(* the order it writes; a commit publishes all of it at once; each SELECT  *)
(* sees what was committed before it (READ COMMITTED); a statement that    *)
(* meets a row or key written by an open transaction waits for its end.    *)
(***************************************************************************)
EXTENDS Integers

CONSTANTS
    Threads,     \* goroutines that call the repository
    UIDs,        \* order_uids
    Customers,   \* customer_ids
    Trans,       \* payment.transaction values
    Revs,        \* contents of the other fields
    None,        \* an absent row
    NoCustomer   \* the empty customer_id

ASSUME RepositoryAssumption == /\ None \notin Revs \cup Trans
                               /\ None \notin [cust : Customers, rev : Revs]
                               /\ NoCustomer \notin Customers

VARIABLES
    db,     \* the committed rows of each order
    custs,  \* the committed rows of customers
    call    \* where each thread is in its call

rvars == <<db, custs, call>>

\* An order: rev stands for the fields of a part that the properties do not
\* tell apart.  A row that is not there reads as None.
Order == [base : [cust : Customers \cup {NoCustomer}, rev : Revs],
          delivery : Revs, tran : Trans, payment : Revs, items : Revs]

\* The order a producer writes at once, all parts of one revision.
Whole(c, x, r) == [base |-> [cust |-> c, rev |-> r], delivery |-> r,
                   tran |-> x, payment |-> r, items |-> r]

Absent == [base |-> None, delivery |-> None, tran |-> None,
           payment |-> None, items |-> None]

Messages == {Whole(c, x, r) : c \in Customers \cup {NoCustomer},
                              x \in Trans, r \in Revs}

Idle == [at |-> "idle"]

InTx == {"customer", "order", "delivery", "payment", "delete", "copy", "commit"}

Selecting == {"selOrder", "selDelivery", "selPayment", "selItems"}
Reading(t) == call[t].at \in Selecting

At(t, l)   == call[t].at = l
Goto(t, l) == call' = [call EXCEPT ![t].at = l]

\* Mutant: the row is locked in share mode before it is upserted.
HasOrder_Shared(t) == call[t].at \in InTx \ {"customer"}

\* Rows and keys an open transaction has written.
HasCustomer(t) == call[t].at \in InTx \ {"customer"}
HasOrder(t)    == call[t].at \in InTx \ {"customer", "order"}
HasPayment(t)  == call[t].at \in {"delete", "copy", "commit"}

\* What the statements of t wait for: p has inserted the same customer, ...
WaitsForCustomer(t, p) ==
    /\ HasCustomer(p) /\ call[p].order.base.cust \notin custs
    /\ call[p].order.base.cust = call[t].order.base.cust

\* ... written the same order, ...
WaitsForOrder(t, p) == HasOrder(p) /\ call[p].uid = call[t].uid

\* ... or inserted a payment of the same transaction as t is about to.
WaitsForPayment(t, p) ==
    /\ db[call[t].uid].tran = None
    /\ HasPayment(p) /\ db[call[p].uid].tran = None
    /\ call[p].order.tran = call[t].order.tran
-----------------------------------------------------------------------------
(* What the statements write.                                              *)

\* The transaction column keeps the value of the first insert.
StoredTran(d, u, o) == IF d[u].tran = None THEN o.tran ELSE d[u].tran

\* Mutant: the items of the order are not deleted before they are copied.
Applied_KeepsItems(d, u, o) ==
    [d EXCEPT ![u] = [o EXCEPT !.tran = StoredTran(d, u, o),
                               !.items = <<d[u].items, o.items>>]]

\* All rows of the order: every part is replaced.
Applied(d, u, o) == [d EXCEPT ![u] = [o EXCEPT !.tran = StoredTran(d, u, o)]]

\* The primary key of payments: another order has this transaction.
TranTaken(u, x) == \E w \in UIDs \ {u} : db[w].tran = x
-----------------------------------------------------------------------------
Init == /\ db = [u \in UIDs |-> Absent]
        /\ custs = {}
        /\ call = [t \in Threads |-> Idle]

\* Mutant: an empty customer_id is not refused.
Save_Unchecked(t, u, o) ==
    /\ At(t, "idle")
    /\ call' = [call EXCEPT ![t] =
                  [at |-> "begin", uid |-> u, order |-> o, seen |-> {}]]
    /\ UNCHANGED <<db, custs>>

\* CALLER: Save; an order without customer_id is refused before any query.
Save(t, u, o) ==
    /\ At(t, "idle")
    /\ call' = [call EXCEPT ![t] =
                  [at |-> IF o.base.cust = NoCustomer THEN "saveErr" ELSE "begin",
                   uid |-> u, order |-> o, seen |-> {}]]
    /\ UNCHANGED <<db, custs>>

\* SAVE: a connection is taken and the transaction begins.
Begin(t) == At(t, "begin") /\ Goto(t, "customer") /\ UNCHANGED <<db, custs>>

\* SAVE: the customer is inserted unless it is there.
InsertCustomer(t) ==
    /\ At(t, "customer")
    /\ \A p \in Threads \ {t} : ~WaitsForCustomer(t, p)
    /\ Goto(t, "order")
    /\ UNCHANGED <<db, custs>>

\* SAVE: the orders row is upserted and stays locked to the end.
UpsertOrder(t) ==
    /\ At(t, "order")
    /\ \A p \in Threads \ {t} : ~WaitsForOrder(t, p)
    /\ Goto(t, "delivery")
    /\ UNCHANGED <<db, custs>>

\* Mutant: the statement runs on the pool, outside the transaction.
UpsertDelivery_OnPool(t) ==
    /\ At(t, "delivery")
    /\ LET u == call[t].uid
       IN  db' = IF db[u] = Absent THEN db
                 ELSE [db EXCEPT ![u].delivery = call[t].order.delivery]
    /\ Goto(t, "payment")
    /\ UNCHANGED custs

UpsertDelivery(t) ==
    /\ At(t, "delivery")
    /\ Goto(t, "payment")
    /\ UNCHANGED <<db, custs>>

\* Mutant: the key of payments is not unique.
UpsertPayment_NoKey(t) ==
    /\ At(t, "payment")
    /\ Goto(t, "delete")
    /\ UNCHANGED <<db, custs>>

\* SAVE: the payment is updated by order_uid, or inserted if its transaction
\* is no other order's.
UpsertPayment(t) ==
    /\ At(t, "payment")
    /\ db[call[t].uid].tran = None => ~TranTaken(call[t].uid, call[t].order.tran)
    /\ \A p \in Threads \ {t} : ~WaitsForPayment(t, p)
    /\ Goto(t, "delete")
    /\ UNCHANGED <<db, custs>>

DeleteItems(t) == At(t, "delete") /\ Goto(t, "copy") /\ UNCHANGED <<db, custs>>
copyItems(t)   == At(t, "copy") /\ Goto(t, "commit") /\ UNCHANGED <<db, custs>>

\* What every thread is told when t's commit makes d the database: readers of
\* that order have one more version to read from.
Committed(t, d, l) ==
    [p \in Threads |->
        IF p = t THEN [call[t] EXCEPT !.at = l]
        ELSE IF Reading(p) /\ call[p].uid = call[t].uid
             THEN [call[p] EXCEPT !.seen = @ \cup {d[call[t].uid]}]
             ELSE call[p]]

\* SAVE: the commit publishes every part; the answer may be lost on the way.
Commit(t) ==
    /\ At(t, "commit")
    /\ db' = Applied(db, call[t].uid, call[t].order)
    /\ custs' = custs \cup {call[t].order.base.cust}
    /\ \E l \in {"saveOk", "saveErr"} : call' = Committed(t, db', l)

\* Mutant: a taken transaction makes Save start over.
PaymentTaken_Retries(t) ==
    /\ At(t, "payment")
    /\ db[call[t].uid].tran = None /\ TranTaken(call[t].uid, call[t].order.tran)
    /\ Goto(t, "begin")
    /\ UNCHANGED <<db, custs>>

\* SAVE: the payment's transaction belongs to another order; the deferred
\* Rollback ends the transaction.
PaymentTaken(t) ==
    /\ At(t, "payment")
    /\ db[call[t].uid].tran = None /\ TranTaken(call[t].uid, call[t].order.tran)
    /\ Goto(t, "saveErr")
    /\ UNCHANGED <<db, custs>>

\* Mutant: the error of the commit is not looked at.
SaveFails_IgnoresCommit(t) ==
    /\ call[t].at \in InTx \cup {"begin"}
    /\ Goto(t, IF At(t, "commit") THEN "saveOk" ELSE "saveErr")
    /\ UNCHANGED <<db, custs>>

\* SAVE: a statement fails, for the connection, the context or another
\* constraint, and the deferred Rollback ends the transaction.
SaveFails(t) ==
    /\ call[t].at \in InTx \cup {"begin"}
    /\ Goto(t, "saveErr")
    /\ UNCHANGED <<db, custs>>
-----------------------------------------------------------------------------
\* CALLER: GetByUID.
GetByUID(t, u) ==
    /\ At(t, "idle")
    /\ call' = [call EXCEPT ![t] =
                  [at |-> "selOrder", uid |-> u, order |-> Absent,
                   seen |-> {db[u]}]]
    /\ UNCHANGED <<db, custs>>

\* A SELECT answers; the order is filled in with its row.
Read(t, order, next) ==
    /\ call' = [call EXCEPT ![t] = [at |-> next, uid |-> call[t].uid,
                                    order |-> order, seen |-> call[t].seen]]
    /\ UNCHANGED <<db, custs>>

Found(t)  == db[call[t].uid]
Filled(t) == call[t].order

\* Mutant: an error of the first query is taken for no rows.
SelectOrder_HidesError(t) ==
    /\ At(t, "selOrder")
    /\ \E row \in {Found(t).base, None} :
          Read(t, [Filled(t) EXCEPT !.base = row],
               IF row = None THEN "gotNone" ELSE "selDelivery")

\* GET: the orders row; without one the answer is no order.
SelectOrder(t) ==
    /\ At(t, "selOrder")
    /\ Read(t, [Filled(t) EXCEPT !.base = Found(t).base],
            IF Found(t).base = None THEN "gotNone" ELSE "selDelivery")

SelectDelivery(t) ==
    /\ At(t, "selDelivery")
    /\ Read(t, [Filled(t) EXCEPT !.delivery = Found(t).delivery], "selPayment")

\* Mutant: the query of the payment does not name the order.
SelectPayment_AnyOrder(t) ==
    /\ At(t, "selPayment")
    /\ \E w \in UIDs :
          Read(t, [Filled(t) EXCEPT !.payment = db[w].payment,
                                    !.tran = db[w].tran], "selItems")

\* GET: one row holds the payment and its transaction.
SelectPayment(t) ==
    /\ At(t, "selPayment")
    /\ Read(t, [Filled(t) EXCEPT !.payment = Found(t).payment,
                                 !.tran = Found(t).tran], "selItems")

SelectItems(t) ==
    /\ At(t, "selItems")
    /\ Read(t, [Filled(t) EXCEPT !.items = Found(t).items], "got")

\* GET: a query fails, and so does the call.
GetFails(t) == Reading(t) /\ Goto(t, "getErr") /\ UNCHANGED <<db, custs>>

\* CALLER: takes the answer.
Results == {"saveOk", "saveErr", "got", "gotNone", "getErr"}
Return(t) == /\ call[t].at \in Results
             /\ call' = [call EXCEPT ![t] = Idle]
             /\ UNCHANGED <<db, custs>>
-----------------------------------------------------------------------------
Statement(t) == \/ Begin(t) \/ InsertCustomer(t) \/ UpsertOrder(t)
                \/ UpsertDelivery(t) \/ UpsertPayment(t) \/ DeleteItems(t)
                \/ copyItems(t) \/ PaymentTaken(t)
SaveWork(t) == Statement(t) \/ Commit(t)
GetWork(t)  == \/ SelectOrder(t) \/ SelectDelivery(t) \/ SelectPayment(t)
               \/ SelectItems(t)

Next == \E t \in Threads :
           \/ \E u \in UIDs : \E o \in Messages : Save(t, u, o)
           \/ \E u \in UIDs : GetByUID(t, u)
           \/ SaveWork(t) \/ SaveFails(t)
           \/ GetWork(t) \/ GetFails(t) \/ Return(t)

Spec == Init /\ [][Next]_rvars

\* The server answers every statement, and grants a lock to those that wait for
\* it in their order of arrival; only the statements that work are fair, so
\* that no failure has to end a call.
LiveSpec == Spec /\ \A t \in Threads : SF_rvars(SaveWork(t)) /\ WF_rvars(GetWork(t))
-----------------------------------------------------------------------------
(* Properties.                                                             *)

Row == [base : [cust : Customers, rev : Revs], delivery : Revs, tran : Trans,
        payment : Revs, items : Revs]

PartRow == [base : [cust : Customers, rev : Revs] \cup {None},
            delivery : Revs \cup {None}, tran : Trans \cup {None},
            payment : Revs \cup {None}, items : Revs \cup {None}]

Call == {Idle}
        \cup [at : InTx \cup {"begin", "saveOk", "saveErr"}, uid : UIDs,
              order : Order, seen : {{}}]
        \cup [at : Selecting \cup {"got", "gotNone", "getErr"}, uid : UIDs,
              order : PartRow, seen : SUBSET (Row \cup {Absent})]

\* The rows of an order are all there or all absent, with a customer; a reader
\* may hold a mixture.
TypeOK == /\ db \in [UIDs -> Row \cup {Absent}]
          /\ custs \subseteq Customers
          /\ call \in [Threads -> Call]

\* Whatever fails in the middle of a Save, and however Saves of the same order
\* overlap, the committed parts of an order are those of one message, and its
\* customer exists.
OrdersWhole ==
    \A u \in UIDs : db[u] # Absent =>
        /\ db[u].base.cust \in custs
        /\ \E r \in Revs : /\ db[u].base.rev = r /\ db[u].delivery = r
                           /\ db[u].payment = r /\ db[u].items = r

\* Two orders never hold the same payment transaction, even when two Saves
\* insert it at the same time.
TransUnique ==
    \A u, w \in UIDs : u # w /\ db[u].tran # None => db[u].tran # db[w].tran

\* A Save that is repeated, as after a redelivery, leaves the database as the
\* first one did.
SaveIdempotent ==
    \A u \in UIDs : \A o \in Messages :
        Applied(Applied(db, u, o), u, o) = Applied(db, u, o)

\* GetByUID answers every part of an order, and each as it was committed at
\* some time during the call, or no order only if there was none when the call
\* began; if no Save of the order committed meanwhile, it answers the order as
\* it was.
ReadIsCommitted ==
    \A t \in Threads :
        /\ At(t, "got") =>
              \A part \in DOMAIN Absent :
                 \E v \in call[t].seen \ {Absent} : call[t].order[part] = v[part]
        /\ At(t, "gotNone") => Absent \in call[t].seen

\* What t waits for before its next statement.
WaitsFor(t, p) == \/ At(t, "customer") /\ WaitsForCustomer(t, p)
                  \/ At(t, "order") /\ WaitsForOrder(t, p)
                  \/ At(t, "payment") /\ WaitsForPayment(t, p)

\* Among any Saves that hold rows and keys and wait for those of others there is
\* one that waits for none of the others: nobody waits in a circle, and the
\* server never has to break one by failing a Save.
NoCircle == \A S \in (SUBSET Threads) \ {{}} :
               \E t \in S : \A p \in S \ {t} : ~WaitsFor(t, p)

\* Saves that wait for each other's rows and keys never wait in a circle: each
\* call answers in the end.
CallsReturn ==
    \A t \in Threads : call[t].at # "idle" ~> call[t].at \in Results

\* What a caller of the repository sees of the call of t.
Request(t) ==
    LET c == call[t]
    IN  CASE At(t, "idle") -> [op |-> "idle"]
          [] c.at \in InTx \cup {"begin"} ->
                [op |-> "save", uid |-> c.uid, order |-> c.order]
          [] Reading(t)       -> [op |-> "get", uid |-> c.uid, seen |-> c.seen]
          [] At(t, "saveOk")  -> [op |-> "ok"]
          [] At(t, "got")     -> [op |-> "found", order |-> c.order]
          [] At(t, "gotNone") -> [op |-> "none"]
          [] OTHER            -> [op |-> "err"]

Requests == [t \in Threads |-> Request(t)]

Savable == {o \in Messages : o.base.cust # NoCustomer}

Store == INSTANCE OrderStore WITH
            Parts <- DOMAIN Absent, Orders <- Savable,
            store <- db, req <- Requests

\* The statements of Save and of GetByUID, interleaved with those of other
\* calls and failing anywhere, are calls of a store of whole orders: a Save has
\* its effect at once or not at all, and has had it when it answers ok.
ImplementsStore == Store!Spec

\* order_repository.go, Save: "idempotent upsert of all parts": once it commits,
\* the parts stored are those of the order saved.
AllPartsUpserted ==
    [][\A t \in Threads : Commit(t) => db'[call[t].uid] = call[t].order]_rvars
=============================================================================
