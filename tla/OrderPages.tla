----------------------------- MODULE OrderPages ------------------------------
(***************************************************************************)
(* The orders of a customer, page by page: the handler of                  *)
(* GET /customer/:id/orders with its limit and offset (internal/transport, *)
(* pkg/httpx), OrdersByCustomer (internal/usecase) and ListByCustomer      *)
(* (internal/repo/postgres), four queries that are glued together, while   *)
(* orders are saved.                                                       *)
(*                                                                         *)
(* A client walks through the pages: it asks for the next one behind the   *)
(* rows it has, until a page is empty.  A Save is the step of its commit:  *)
(* OrderRepository has the statements before it, which nobody sees.        *)
(***************************************************************************)
EXTENDS OrderRepository, Sequences, FiniteSets

CONSTANTS
    Missing,       \* a query parameter that was not given
    NotInt,        \* one that strconv.Atoi refuses
    Queries,       \* the parameters a client may begin with
    defaultLimit,  \* of the handler
    maxLimit,      \* of the handler
    repoLimit,     \* of the repository, for a limit that is not positive
    DateOf,        \* date_created of each content
    TranOf,        \* the transaction of each order
    MaxSaves       \* bound: Saves that commit during one walk

ASSUME PagesAssumption == /\ UIDs \subseteq Int
                          /\ DateOf \in [Revs -> Int]
                          /\ TranOf \in [UIDs -> Trans]
                          /\ maxLimit \in Nat
                          /\ defaultLimit \in 1 .. maxLimit
                          /\ repoLimit \in Nat \ {0}
                          /\ MaxSaves \in Nat
                          /\ Missing \notin Int /\ NotInt \notin Int
                          /\ \A q \in Queries :
                                /\ q.limit \in Int \cup {Missing, NotInt}
                                /\ q.offset \in Int \cup {Missing, NotInt}

VARIABLE walk   \* the walk each client is on; must, mayRepeat, saves are history

pvars == <<rvars, walk>>

NoWalk == [on |-> FALSE]

-----------------------------------------------------------------------------
(* Parameters.                                                             *)

\* Mutant: the upper bound is forgotten.
ClampInt_NoUpper(v, lo, hi) == IF v < lo THEN lo ELSE v

ClampInt(v, lo, hi) == IF v < lo THEN lo ELSE IF v > hi THEN hi ELSE v

DefaultQuery(x, default) == IF x = Missing THEN default ELSE x

\* A value that is no integer leaves the default as it is; one that is given,
\* or missing, is clamped; a negative offset counts as none.
ParseLimitOffset(q) ==
    LET l == DefaultQuery(q.limit, defaultLimit)
        o == DefaultQuery(q.offset, 0)
    IN  [limit  |-> IF l = NotInt THEN defaultLimit ELSE ClampInt(l, 1, maxLimit),
         offset |-> IF o = NotInt THEN 0 ELSE IF o >= 0 THEN o ELSE 0]

\* A walk begins at the first row: the client gives no offset, or one that
\* counts as none.
FromStart == \A q \in Queries : ParseLimitOffset(q).offset = 0
-----------------------------------------------------------------------------
(* The list of a customer in a database d, the latest order first.         *)

Owned(d, c) == {u \in UIDs : d[u] # Absent /\ d[u].base.cust = c}

\* ORDER BY date_created DESC, order_uid DESC.
Later(u, bu, w, bw) == \/ DateOf[bu.rev] > DateOf[bw.rev]
                       \/ DateOf[bu.rev] = DateOf[bw.rev] /\ u > w

InFront(d, c, u) == {w \in Owned(d, c) \ {u} : Later(w, d[w].base, u, d[u].base)}

Listing(d, c) ==
    [i \in 1 .. Cardinality(Owned(d, c)) |->
        CHOOSE u \in Owned(d, c) : Cardinality(InFront(d, c, u)) = i - 1]

\* LIMIT and OFFSET: what is left behind the offset, up to the limit.
Slice(s, limit, offset) ==
    SubSeq(s, offset + 1, IF offset + limit < Len(s) THEN offset + limit ELSE Len(s))
-----------------------------------------------------------------------------
PInit == Init /\ walk = [t \in Threads |-> NoWalk]

\* Mutant: the offset is taken for a number of pages.
ListByCustomer_PageNumber(t, c, limit, offset) ==
    call' = [call EXCEPT ![t] =
                [at |-> "selPage", cust |-> c,
                 limit |-> IF limit <= 0 THEN repoLimit ELSE limit,
                 offset |-> IF offset < 0 THEN 0 ELSE offset * limit,
                 page |-> << >>]]

\* LIST: limits that the handler never passes are put right.
ListByCustomer(t, c, limit, offset) ==
    call' = [call EXCEPT ![t] =
                [at |-> "selPage", cust |-> c,
                 limit |-> IF limit <= 0 THEN repoLimit ELSE limit,
                 offset |-> IF offset < 0 THEN 0 ELSE offset,
                 page |-> << >>]]

\* HANDLER: the parameters are read and the service hands the call on.
listOrdersByCustomer(t, c, q) ==
    LET p == ParseLimitOffset(q) IN ListByCustomer(t, c, p.limit, p.offset)

\* CLIENT: the first page.
Open(t, c, q) ==
    /\ At(t, "idle") /\ ~walk[t].on
    /\ walk' = [walk EXCEPT ![t] =
                  [on |-> TRUE, cust |-> c, limit |-> q.limit, got |-> << >>,
                   done |-> FALSE, must |-> Owned(db, c), mayRepeat |-> {},
                   saves |-> 0]]
    /\ listOrdersByCustomer(t, c, q)
    /\ UNCHANGED <<db, custs>>

\* CLIENT: the next page.
NextPage(t) ==
    /\ At(t, "idle") /\ walk[t].on /\ ~walk[t].done
    /\ listOrdersByCustomer(t, walk[t].cust,
           [limit |-> walk[t].limit, offset |-> Len(walk[t].got)])
    /\ UNCHANGED <<db, custs, walk>>

\* A query answers; the page is filled in.
Fill(t, page, next) ==
    /\ call' = [call EXCEPT ![t].page = page, ![t].at = next]
    /\ UNCHANGED <<db, custs, walk>>

\* What the rows of a page look like before the other queries.
BaseRow(u) == [uid |-> u, order |-> [Absent EXCEPT !.base = db[u].base],
               seen |-> {db[u]}]

\* Mutant: the rows come back in any order, as from a map.
SelectPage_AnyOrder(t) ==
    /\ At(t, "selPage")
    /\ LET uids == Slice(Listing(db, call[t].cust), call[t].limit, call[t].offset)
       IN  \E f \in [DOMAIN uids -> DOMAIN uids] :
              /\ \A i, j \in DOMAIN uids : i # j => f[i] # f[j]
              /\ Fill(t, [i \in DOMAIN uids |-> BaseRow(uids[f[i]])],
                      IF uids = << >> THEN "listed" ELSE "selPayments")

\* Mutant: orders of one date come in any order, as without order_uid.
SelectPage_DateOnly(t) ==
    /\ At(t, "selPage")
    /\ LET c == call[t].cust
           n == Cardinality(Owned(db, c))
       IN  \E all \in [1 .. n -> Owned(db, c)] :
              /\ \A i, j \in 1 .. n : i < j =>
                    /\ all[i] # all[j]
                    /\ DateOf[db[all[i]].base.rev] >= DateOf[db[all[j]].base.rev]
              /\ LET uids == Slice(all, call[t].limit, call[t].offset)
                 IN  Fill(t, [i \in DOMAIN uids |-> BaseRow(uids[i])],
                          IF uids = << >> THEN "listed" ELSE "selPayments")

\* LIST: the rows of the page; an empty one is answered at once.
SelectPage(t) ==
    /\ At(t, "selPage")
    /\ LET uids == Slice(Listing(db, call[t].cust), call[t].limit, call[t].offset)
       IN  Fill(t, [i \in DOMAIN uids |-> BaseRow(uids[i])],
                IF uids = << >> THEN "listed" ELSE "selPayments")

\* Mutant: the rows are glued in the order they come back, not by order_uid.
SelectPayments_ByPlace(t) ==
    /\ At(t, "selPayments")
    /\ LET page == call[t].page
           row(i) == db[page[Len(page) + 1 - i].uid]
       IN  Fill(t, [i \in DOMAIN page |->
                      [page[i] EXCEPT !.order.payment = row(i).payment,
                                      !.order.tran = row(i).tran]],
                "selDeliveries")

\* LIST: the payments of all rows, glued to the page by order_uid.
SelectPayments(t) ==
    /\ At(t, "selPayments")
    /\ Fill(t, [i \in DOMAIN call[t].page |->
                  LET r == call[t].page[i]
                  IN  [r EXCEPT !.order.payment = db[r.uid].payment,
                                !.order.tran = db[r.uid].tran]],
            "selDeliveries")

SelectDeliveries(t) ==
    /\ At(t, "selDeliveries")
    /\ Fill(t, [i \in DOMAIN call[t].page |->
                  LET r == call[t].page[i]
                  IN  [r EXCEPT !.order.delivery = db[r.uid].delivery]],
            "selPageItems")

SelectPageItems(t) ==
    /\ At(t, "selPageItems")
    /\ Fill(t, [i \in DOMAIN call[t].page |->
                  LET r == call[t].page[i]
                  IN  [r EXCEPT !.order.items = db[r.uid].items]],
            "listed")

Listings == {"selPage", "selPayments", "selDeliveries", "selPageItems"}

\* LIST: a query fails or reqTimeout passes; the handler answers 500 and no row.
ListFails(t) ==
    /\ call[t].at \in Listings
    /\ Fill(t, << >>, "listErr")

\* CLIENT: takes a page; an empty one ends the walk.
TakePage(t) ==
    /\ At(t, "listed")
    /\ LET page == call[t].page
       IN  walk' = [walk EXCEPT ![t].got = @ \o [i \in DOMAIN page |-> page[i].uid],
                                ![t].done = page = << >>]
    /\ call' = [call EXCEPT ![t] = Idle]
    /\ UNCHANGED <<db, custs>>

\* CLIENT: takes the error; it will ask for the same page again.
TakeErr(t) ==
    /\ At(t, "listErr")
    /\ call' = [call EXCEPT ![t] = Idle]
    /\ UNCHANGED <<db, custs, walk>>

\* CLIENT: has seen the end, or gives up.
Leave(t) ==
    /\ At(t, "idle") /\ walk[t].on
    /\ walk' = [walk EXCEPT ![t] = NoWalk]
    /\ UNCHANGED <<db, custs, call>>
-----------------------------------------------------------------------------
\* History of a walk over the list of c when the database becomes d: an order
\* may be missed once it goes to another customer or one in front of it no
\* longer is, and may come twice once it goes or another one gets in front.
Gone(d, c)  == Owned(db, c) \ Owned(d, c)
Slid(d, c)  == {u \in Owned(db, c) \cap Owned(d, c) :
                   InFront(db, c, u) \ InFront(d, c, u) # {}}
Pushed(d, c) == {u \in Owned(db, c) \cap Owned(d, c) :
                   InFront(d, c, u) \ InFront(db, c, u) # {}}

\* A row of a page when version v of order u is committed.
Told(r, u, v) == IF r.uid = u THEN [r EXCEPT !.seen = @ \cup {v}] ELSE r

\* SAVER: a Save of order u commits; readers of its rows have one more version
\* to read from.
SaveCommits(u, o) ==
    /\ db[u].tran = None => ~TranTaken(u, o.tran)
    /\ \A t \in Threads : walk[t].on => walk[t].saves < MaxSaves
    /\ db' = Applied(db, u, o)
    /\ custs' = custs \cup {o.base.cust}
    /\ call' = [t \in Threads |->
                  IF call[t].at \in Listings
                  THEN [call[t] EXCEPT !.page =
                          [i \in DOMAIN @ |-> Told(@[i], u, db'[u])]]
                  ELSE call[t]]
    /\ walk' = [t \in Threads |->
                  IF walk[t].on
                  THEN LET c == walk[t].cust
                       IN  [walk[t] EXCEPT
                              !.saves = @ + 1,
                              !.must = @ \ (Gone(db', c) \cup Slid(db', c)),
                              !.mayRepeat =
                                  @ \cup Gone(db', c) \cup Pushed(db', c)]
                  ELSE walk[t]]

ListWork(t) == \/ SelectPage(t) \/ SelectPayments(t) \/ SelectDeliveries(t)
               \/ SelectPageItems(t)

PNext == \/ \E u \in UIDs : \E c \in Customers : \E r \in Revs :
               SaveCommits(u, Whole(c, TranOf[u], r))
         \/ \E t \in Threads :
               \/ \E c \in Customers : \E q \in Queries : Open(t, c, q)
               \/ NextPage(t) \/ ListWork(t) \/ ListFails(t)
               \/ TakePage(t) \/ TakeErr(t) \/ Leave(t)

PSpec == PInit /\ [][PNext]_pvars
-----------------------------------------------------------------------------
(* Properties.                                                             *)

PageRow == [uid : UIDs, order : PartRow, seen : SUBSET Row]

\* The types; whatever the query says, no call reads more rows than maxLimit.
PTypeOK ==
    /\ db \in [UIDs -> Row \cup {Absent}]
    /\ custs \subseteq Customers
    /\ \A t \in Threads :
          call[t] = Idle \/
             /\ call[t].at \in Listings \cup {"listed", "listErr"}
             /\ call[t].cust \in Customers
             /\ call[t].limit \in 1 .. maxLimit
             /\ call[t].offset \in Nat
             /\ call[t].page \in Seq(PageRow)
             /\ Len(call[t].page) <= call[t].limit
    /\ \A t \in Threads :
          walk[t].on => /\ walk[t].got \in Seq(UIDs)
                        /\ walk[t].must \cup walk[t].mayRepeat \subseteq UIDs

\* The rows of a page are in the order of their dates and order_uids, and each
\* order is there once, whatever was saved while the queries ran.
PageInOrder ==
    \A t \in Threads : At(t, "listed") =>
        LET page == call[t].page
        IN  \A i, j \in DOMAIN page : i < j =>
               Later(page[i].uid, page[i].order.base, page[j].uid, page[j].order.base)

\* Every part of a row belongs to the order of that row, and was committed
\* between the query of the page and the answer.
PageIsCommitted ==
    \A t \in Threads : At(t, "listed") =>
        \A i \in DOMAIN call[t].page :
            LET r == call[t].page[i]
            IN  \A part \in DOMAIN Absent :
                   \E v \in r.seen : r.order[part] = v[part]

\* A walk to the end has shown every order that the customer had when it began,
\* but for those that went to another customer and those that an order in front
\* of them fell behind or left.
NothingMissed ==
    \A t \in Threads : walk[t].on /\ walk[t].done =>
        \A u \in walk[t].must : \E i \in DOMAIN walk[t].got : walk[t].got[i] = u

\* A walk shows an order twice only if another one got in front of it meanwhile,
\* or it went to another customer and came back.
NothingTwice ==
    \A t \in Threads : walk[t].on =>
        \A i, j \in DOMAIN walk[t].got :
            i < j /\ walk[t].got[i] = walk[t].got[j]
               => walk[t].got[i] \in walk[t].mayRepeat
=============================================================================
