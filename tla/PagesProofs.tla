---------------------------- MODULE PagesProofs -----------------------------
(***************************************************************************)
(* Proofs about the pages of a customer's orders, for any clients, orders, *)
(* dates and limits, and however many Saves commit during a walk.          *)
(***************************************************************************)
EXTENDS OrderPages, RepositoryProofs, FiniteSetTheorems, SequenceTheorems

ListCall == [at : Listings \cup {"listed", "listErr"}, cust : Customers,
             limit : 1 .. maxLimit, offset : Nat, page : Seq(PageRow)]

Walk == [on : {TRUE}, cust : Customers, limit : Int \cup {Missing, NotInt},
         got : Seq(UIDs), done : BOOLEAN, must : SUBSET UIDs,
         mayRepeat : SUBSET UIDs, saves : Nat]

\* The types, and that a database has finitely many orders.
PagesTyped ==
    /\ db \in [UIDs -> Row \cup {Absent}] /\ custs \subseteq Customers
    /\ IsFiniteSet({u \in UIDs : db[u] # Absent})
    /\ call \in [Threads -> {Idle} \cup ListCall]
    /\ walk \in [Threads -> {NoWalk} \cup Walk]

\* The parts that a page has at each place.
PartsListed(l) ==
    CASE l = "selPayments"   -> {"base"}
      [] l = "selDeliveries" -> {"base", "payment", "tran"}
      [] l = "selPageItems"  -> {"base", "payment", "tran", "delivery"}
      [] l = "listed"        -> DOMAIN Absent
      [] OTHER               -> {}

\* A row r of a page at place l: what is in the database has been seen, and
\* every part that was read was committed.
RowOK(r, l) ==
    /\ l \in Listings => db[r.uid] \in r.seen
    /\ \A part \in PartsListed(l) : \E v \in r.seen : r.order[part] = v[part]

Sorted(page) ==
    \A i, j \in DOMAIN page : i < j =>
        /\ page[i].uid # page[j].uid
        /\ Later(page[i].uid, page[i].order.base, page[j].uid, page[j].order.base)

PageOK(c) ==
    /\ Len(c.page) <= c.limit
    /\ c.at \in {"selPage", "listErr"} => c.page = << >>
    /\ \A i \in DOMAIN c.page : RowOK(c.page[i], c.at)
    /\ Sorted(c.page)

PageInv == PagesTyped /\ \A t \in Threads : call[t] # Idle => PageOK(call[t])

\* The place of an order in the list of a customer, counted from 0.
Rank(d, c, u) == Cardinality(InFront(d, c, u))

Shows(uids, u) == \E i \in DOMAIN uids : uids[i] = u

\* What a client keeps of a page.
UidsOf(page) == [i \in DOMAIN page |-> page[i].uid]
OnPage(c)    == IF c = Idle THEN << >> ELSE UidsOf(c.page)

\* A walk that has shown got: an order that must be shown has been, is on the
\* page under way, or is still behind it; at the end it has been.
Coming(d, cust, got, page, must, end) ==
    /\ \A u \in must :
          /\ u \in Owned(d, cust)
          /\ \/ Shows(got, u)
             \/ /\ Rank(d, cust, u) >= Len(got)
                /\ Shows(page, u) \/ Rank(d, cust, u) >= Len(got) + Len(page)
    /\ end => \A u \in must : Shows(got, u)

\* An order that may come only once is, when it has been shown, in front of
\* what is asked for next, and is on no other page then.
Once(d, cust, got, page, mayRepeat) ==
    \A u \in UIDs \ mayRepeat :
       /\ Shows(got, u) => u \in Owned(d, cust) /\ Rank(d, cust, u) < Len(got)
       /\ Shows(page, u) => /\ u \in Owned(d, cust) /\ ~Shows(got, u)
                            /\ Rank(d, cust, u) < Len(got) + Len(page)

NoneTwice(got, mayRepeat) ==
    \A i, j \in DOMAIN got : i < j /\ got[i] = got[j] => got[i] \in mayRepeat

\* The walk has been answered with an empty page, or is about to be.
Ended(c, w) == \/ w.done
               \/ c.at \notin {"idle", "selPage", "listErr"} /\ OnPage(c) = << >>

\* A client with call c and walk w, in a database d.
WalkOK(d, c, w) ==
    /\ c # Idle => w.on /\ ~w.done /\ c.cust = w.cust /\ c.offset = Len(w.got)
    /\ w.on => /\ Coming(d, w.cust, w.got, OnPage(c), w.must, Ended(c, w))
               /\ Once(d, w.cust, w.got, OnPage(c), w.mayRepeat)
               /\ NoneTwice(w.got, w.mayRepeat)

WalkInv == PageInv /\ \A t \in Threads : WalkOK(db, call[t], walk[t])
-----------------------------------------------------------------------------
(* The list of a customer.                                                 *)

Rows == [UIDs -> Row \cup {Absent}]

LEMMA OwnedRow ==
    ASSUME NEW d \in Rows, NEW c, NEW u \in Owned(d, c)
    PROVE  /\ u \in UIDs /\ u \in Int
           /\ d[u] \in Row /\ d[u].base \in [cust : Customers, rev : Revs]
           /\ d[u].base.cust = c /\ DateOf[d[u].base.rev] \in Int
<1>1. u \in UIDs /\ d[u] \in Row /\ d[u].base.cust = c
  BY DEF Owned, Rows
<1>2. d[u].base \in [cust : Customers, rev : Revs]
  BY <1>1 DEF Row
<1>3. u \in Int /\ DateOf \in [Revs -> Int]
  BY <1>1, PagesAssumption
<1> QED
  BY <1>1, <1>2, <1>3

\* Dates and order_uids put the orders of a customer in one order.
LEMMA LaterTotal ==
    ASSUME NEW d \in Rows, NEW c, NEW u \in Owned(d, c), NEW w \in Owned(d, c),
           NEW v \in Owned(d, c)
    PROVE  /\ u # w => \/ Later(u, d[u].base, w, d[w].base)
                       \/ Later(w, d[w].base, u, d[u].base)
           /\ Later(u, d[u].base, w, d[w].base) => ~Later(w, d[w].base, u, d[u].base)
           /\ Later(u, d[u].base, w, d[w].base) => u # w
           /\ Later(u, d[u].base, w, d[w].base) /\ Later(w, d[w].base, v, d[v].base)
                 => Later(u, d[u].base, v, d[v].base)
<1> DEFINE a == DateOf[d[u].base.rev]
           b == DateOf[d[w].base.rev]
           e == DateOf[d[v].base.rev]
<1>1. u \in Int /\ w \in Int /\ v \in Int /\ a \in Int /\ b \in Int /\ e \in Int
  BY OwnedRow
<1> HIDE DEF a, b, e
<1>2. /\ Later(u, d[u].base, w, d[w].base) <=> a > b \/ (a = b /\ u > w)
      /\ Later(w, d[w].base, u, d[u].base) <=> b > a \/ (b = a /\ w > u)
      /\ Later(w, d[w].base, v, d[v].base) <=> b > e \/ (b = e /\ w > v)
      /\ Later(u, d[u].base, v, d[v].base) <=> a > e \/ (a = e /\ u > v)
  BY DEF Later, a, b, e
<1> QED
  BY <1>1, <1>2

\* An order is listed behind those in front of it, each at a place of its own.
LEMMA RankOrder ==
    ASSUME NEW d \in Rows, NEW c, IsFiniteSet(Owned(d, c)), NEW u \in Owned(d, c)
    PROVE  /\ Rank(d, c, u) \in Nat /\ Rank(d, c, u) < Cardinality(Owned(d, c))
           /\ \A w \in Owned(d, c) :
                 Later(u, d[u].base, w, d[w].base) <=> Rank(d, c, u) < Rank(d, c, w)
           /\ \A w \in Owned(d, c) : u # w => Rank(d, c, u) # Rank(d, c, w)
<1> DEFINE S == Owned(d, c)
<1>1. \A w \in S : /\ InFront(d, c, w) \in SUBSET (S \ {w})
                   /\ IsFiniteSet(InFront(d, c, w)) /\ Rank(d, c, w) \in Nat
  <2> SUFFICES ASSUME NEW w \in S
               PROVE  /\ InFront(d, c, w) \in SUBSET (S \ {w})
                      /\ IsFiniteSet(InFront(d, c, w)) /\ Rank(d, c, w) \in Nat
    OBVIOUS
  <2>1. InFront(d, c, w) \in SUBSET (S \ {w})
    BY DEF InFront
  <2>2. IsFiniteSet(S \ {w})
    BY FS_RemoveElement
  <2>3. IsFiniteSet(InFront(d, c, w))
    BY <2>1, <2>2, FS_Subset
  <2>4. Rank(d, c, w) \in Nat
    BY <2>3, FS_CardinalityType DEF Rank
  <2> QED
    BY <2>1, <2>3, <2>4
<1>2. Rank(d, c, u) < Cardinality(S)
  <2>1. IsFiniteSet(S \ {u}) /\ Cardinality(S \ {u}) = Cardinality(S) - 1
    BY FS_RemoveElement
  <2>2. Rank(d, c, u) <= Cardinality(S \ {u})
    BY <1>1, <2>1, FS_Subset DEF Rank
  <2>3. Cardinality(S) \in Nat /\ Rank(d, c, u) \in Nat
    BY <1>1, FS_CardinalityType
  <2> QED
    BY <2>1, <2>2, <2>3
<1>3. ASSUME NEW w \in S, NEW v \in S, Later(w, d[w].base, v, d[v].base)
      PROVE  Rank(d, c, w) < Rank(d, c, v)
  <2>1. w \in InFront(d, c, v) /\ w \notin InFront(d, c, w)
    BY <1>3, LaterTotal DEF InFront
  <2>2. InFront(d, c, w) \in SUBSET InFront(d, c, v)
    <3> SUFFICES ASSUME NEW z \in InFront(d, c, w) PROVE z \in InFront(d, c, v)
      OBVIOUS
    <3>1. z \in S /\ Later(z, d[z].base, w, d[w].base)
      BY DEF InFront
    <3>2. Later(z, d[z].base, v, d[v].base)
      BY <1>3, <3>1, LaterTotal
    <3>3. z # v
      BY <3>1, <3>2, LaterTotal
    <3> QED
      BY <3>1, <3>2, <3>3 DEF InFront
  <2>3. /\ Cardinality(InFront(d, c, w)) <= Cardinality(InFront(d, c, v))
        /\ Cardinality(InFront(d, c, v)) = Cardinality(InFront(d, c, w))
              => InFront(d, c, v) = InFront(d, c, w)
    BY <1>1, <2>2, FS_Subset
  <2>4. Rank(d, c, w) \in Nat /\ Rank(d, c, v) \in Nat
    BY <1>1
  <2> QED
    BY <2>1, <2>3, <2>4 DEF Rank
<1>4. ASSUME NEW w \in S
      PROVE  /\ Later(u, d[u].base, w, d[w].base) <=> Rank(d, c, u) < Rank(d, c, w)
             /\ u # w => Rank(d, c, u) # Rank(d, c, w)
  <2>1. Rank(d, c, u) \in Nat /\ Rank(d, c, w) \in Nat
    BY <1>1
  <2>2. u # w => \/ Later(u, d[u].base, w, d[w].base)
                 \/ Later(w, d[w].base, u, d[u].base)
    BY LaterTotal
  <2>3. /\ Later(u, d[u].base, w, d[w].base) => Rank(d, c, u) < Rank(d, c, w)
        /\ Later(w, d[w].base, u, d[u].base) => Rank(d, c, w) < Rank(d, c, u)
    BY <1>3
  <2> QED
    BY <2>1, <2>2, <2>3
<1> QED
  BY <1>1, <1>2, <1>4

\* Every place of the list is some order's.
LEMMA PlacesTaken ==
    ASSUME NEW d \in Rows, NEW c, IsFiniteSet(Owned(d, c)),
           NEW k \in 0 .. Cardinality(Owned(d, c)) - 1
    PROVE  \E u \in Owned(d, c) : Rank(d, c, u) = k
<1> DEFINE S == Owned(d, c)
           n == Cardinality(S)
           T == 0 .. n - 1
           f == [u \in S |-> Rank(d, c, u)]
<1>1. n \in Nat
  BY FS_CardinalityType
<1>2. \A u \in S : Rank(d, c, u) \in T
  <2> SUFFICES ASSUME NEW u \in S PROVE Rank(d, c, u) \in T
    OBVIOUS
  <2>1. Rank(d, c, u) \in Nat /\ Rank(d, c, u) < n
    BY RankOrder
  <2> QED
    BY <1>1, <2>1
<1>3. \A u, w \in S : Rank(d, c, u) = Rank(d, c, w) => u = w
  BY RankOrder
<1>4. IsFiniteSet(T) /\ Cardinality(T) = n
  <2>1. n - 1 \in Int /\ 0 \in Int
    BY <1>1
  <2>2. IsFiniteSet(T) /\ Cardinality(T) = IF 0 > n - 1 THEN 0 ELSE (n - 1) - 0 + 1
    BY <2>1, FS_Interval
  <2> QED
    BY <1>1, <2>2
<1>5. f \in Injection(S, T)
  BY <1>2, <1>3 DEF Injection, IsInjective
<1>6. f \in Surjection(S, T)
  BY <1>4, <1>5, FS_Injection
<1>7. k \in T
  OBVIOUS
<1>8. PICK u \in S : f[u] = k
  BY <1>6, <1>7 DEF Surjection
<1> QED
  BY <1>8

\* The list holds every order of the customer at its place.
LEMMA ListingIs ==
    ASSUME NEW d \in Rows, NEW c, IsFiniteSet(Owned(d, c))
    PROVE  /\ Listing(d, c) \in Seq(Owned(d, c))
           /\ Len(Listing(d, c)) = Cardinality(Owned(d, c))
           /\ Cardinality(Owned(d, c)) \in Nat
           /\ \A i \in 1 .. Cardinality(Owned(d, c)) :
                 /\ Listing(d, c)[i] \in Owned(d, c)
                 /\ Rank(d, c, Listing(d, c)[i]) = i - 1
<1> DEFINE S == Owned(d, c)
           n == Cardinality(S)
           l == Listing(d, c)
<1>1. n \in Nat
  BY FS_CardinalityType
<1>2. ASSUME NEW i \in 1 .. n
      PROVE  l[i] \in S /\ Rank(d, c, l[i]) = i - 1
  <2>1. i - 1 \in 0 .. n - 1
    BY <1>1
  <2>2. \E u \in S : Cardinality(InFront(d, c, u)) = i - 1
    BY <2>1, PlacesTaken DEF Rank
  <2>3. l[i] = CHOOSE u \in S : Cardinality(InFront(d, c, u)) = i - 1
    BY DEF Listing
  <2> HIDE DEF l
  <2>4. l[i] \in S /\ Cardinality(InFront(d, c, l[i])) = i - 1
    BY <2>2, <2>3
  <2> QED
    BY <2>4 DEF Rank
<1>3. l = [i \in 1 .. n |-> l[i]]
  BY DEF Listing
<1> HIDE DEF l
<1>4. l \in [1 .. n -> S]
  BY <1>2, <1>3
<1>5. l \in Seq(S) /\ Len(l) = n
  BY <1>1, <1>4
<1> QED
  BY <1>1, <1>2, <1>5 DEF l

\* A page behind the first offset orders: the next ones, up to the limit.
IsPage(d, c, limit, offset, uids) ==
    /\ uids \in Seq(Owned(d, c)) /\ Len(uids) <= limit
    /\ \A i \in 1 .. Len(uids) : Rank(d, c, uids[i]) = offset + i - 1
    /\ \A u \in Owned(d, c) : Rank(d, c, u) >= offset =>
          \/ \E i \in 1 .. Len(uids) : uids[i] = u
          \/ Rank(d, c, u) >= offset + Len(uids)
    /\ uids = << >> => \A u \in Owned(d, c) : Rank(d, c, u) < offset

LEMMA PageUids ==
    ASSUME NEW d \in Rows, NEW c, IsFiniteSet(Owned(d, c)),
           NEW limit \in Nat \ {0}, NEW offset \in Nat
    PROVE  IsPage(d, c, limit, offset, Slice(Listing(d, c), limit, offset))
<1> DEFINE S == Owned(d, c)
           n == Cardinality(S)
           l == Listing(d, c)
           last == IF offset + limit < n THEN offset + limit ELSE n
           uids == Slice(l, limit, offset)
<1>1. /\ l \in Seq(S) /\ Len(l) = n /\ n \in Nat
      /\ \A i \in 1 .. n : l[i] \in S /\ Rank(d, c, l[i]) = i - 1
  BY ListingIs
<1>2. uids = SubSeq(l, offset + 1, last)
  BY <1>1 DEF Slice
<1>3. last \in Nat /\ last <= n /\ last <= offset + limit /\ offset + 1 \in Int
  BY <1>1
<1>4. \A i \in offset + 1 .. last : l[i] \in S
  BY <1>1, <1>3
<1> HIDE DEF l, last, uids, n
<1>5. /\ uids \in Seq(S)
      /\ Len(uids) = IF offset + 1 <= last THEN last - (offset + 1) + 1 ELSE 0
      /\ \A i \in 1 .. last - (offset + 1) + 1 : uids[i] = l[(offset + 1) + i - 1]
  BY <1>2, <1>3, <1>4, SubSeqProperties, Z3
<1>6. /\ Len(uids) = IF offset < last THEN last - offset ELSE 0
      /\ \A i \in 1 .. Len(uids) : uids[i] = l[offset + i] /\ offset + i \in 1 .. n
  <2>1. Len(uids) = IF offset < last THEN last - offset ELSE 0
    BY <1>3, <1>5
  <2>2. ASSUME NEW i \in 1 .. Len(uids)
        PROVE  uids[i] = l[offset + i] /\ offset + i \in 1 .. n
    <3>1. i \in 1 .. last - (offset + 1) + 1 /\ (offset + 1) + i - 1 = offset + i
      BY <1>3, <2>1
    <3> QED
      BY <1>1, <1>3, <1>5, <2>1, <3>1
  <2> QED
    BY <2>1, <2>2
<1>7. Len(uids) <= limit
  BY <1>3, <1>6
<1>8. \A i \in 1 .. Len(uids) : Rank(d, c, uids[i]) = offset + i - 1
  BY <1>1, <1>6
<1>9. ASSUME NEW u \in S, Rank(d, c, u) >= offset
      PROVE  \/ \E i \in 1 .. Len(uids) : uids[i] = u
             \/ Rank(d, c, u) >= offset + Len(uids)
  <2> DEFINE k == Rank(d, c, u)
  <2>1. k \in Nat /\ k < n
    BY RankOrder DEF n
  <2> HIDE DEF k
  <2>2. CASE k < offset + Len(uids)
    <3>1. k - offset + 1 \in 1 .. Len(uids) /\ offset + (k - offset + 1) = k + 1
          /\ k + 1 \in 1 .. n /\ (k + 1) - 1 = k
      BY <1>1, <1>3, <1>6, <1>9, <2>1, <2>2 DEF k
    <3>2. uids[k - offset + 1] = l[k + 1]
      BY <1>6, <3>1
    <3>3. l[k + 1] \in S /\ Rank(d, c, l[k + 1]) = k
      BY <1>1, <3>1
    <3>4. l[k + 1] = u
      BY <3>3, RankOrder DEF k
    <3> QED
      BY <3>1, <3>2, <3>4
  <2>3. CASE ~(k < offset + Len(uids))
    <3>1. Len(uids) \in Nat
      BY <1>3, <1>6
    <3> QED
      BY <2>1, <2>3, <3>1 DEF k
  <2> QED
    BY <2>2, <2>3
<1>10. ASSUME uids = << >>, NEW u \in S PROVE Rank(d, c, u) < offset
  <2>1. Len(uids) = 0
    BY <1>10
  <2>2. last <= offset
    BY <1>3, <1>6, <2>1
  <2>3. n <= offset
    BY <1>1, <2>2 DEF last
  <2>4. Rank(d, c, u) \in Nat /\ Rank(d, c, u) < n
    BY RankOrder DEF n
  <2> QED
    BY <1>1, <2>3, <2>4
<1>11. IsPage(d, c, limit, offset, uids)
  BY <1>5, <1>7, <1>8, <1>9, <1>10 DEF IsPage
<1> QED
  BY <1>11 DEF uids, l
-----------------------------------------------------------------------------
(* Pages: the types, and what was committed.                               *)

LEMMA OwnedFinite ==
    ASSUME PagesTyped, NEW c
    PROVE  db \in Rows /\ IsFiniteSet(Owned(db, c))
<1>1. Owned(db, c) \in SUBSET {u \in UIDs : db[u] # Absent}
  BY DEF Owned
<1> QED
  BY <1>1, FS_Subset DEF PagesTyped, Rows

LEMMA CallIs ==
    ASSUME PagesTyped, NEW t \in Threads
    PROVE  /\ call[t] # Idle <=> call[t] \in ListCall
           /\ call[t].at \in Listings \cup {"listed", "listErr"} => call[t] \in ListCall
           /\ call[t].at = "idle" <=> call[t] = Idle
BY DEF PagesTyped, ListCall, Idle, Listings

\* A step of one call, and of its walk, that is no Save.
LEMMA PageStep ==
    ASSUME PageInv, NEW t \in Threads, UNCHANGED <<db, custs>>,
           NEW c \in {Idle} \cup ListCall, call' = [call EXCEPT ![t] = c],
           walk' \in [Threads -> {NoWalk} \cup Walk],
           c # Idle => PageOK(c)
    PROVE  PageInv'
<1>1. PagesTyped'
  BY DEF PageInv, PagesTyped
<1>2. \A p \in Threads : call'[p] # Idle => PageOK(call'[p])
  BY DEF PageInv, PagesTyped
<1>3. \A p \in Threads : call'[p] # Idle => PageOK(call[p])'
  BY <1>2 DEF PageOK, RowOK
<1> QED
  BY <1>1, <1>3 DEF PageInv

LEMMA CallWith ==
    ASSUME NEW r \in ListCall, NEW page \in Seq(PageRow),
           NEW l \in Listings \cup {"listed", "listErr"}
    PROVE  /\ [r EXCEPT !.page = page, !.at = l]
                 = [at |-> l, cust |-> r.cust, limit |-> r.limit,
                    offset |-> r.offset, page |-> page]
           /\ [at |-> l, cust |-> r.cust, limit |-> r.limit,
               offset |-> r.offset, page |-> page] \in ListCall
<1> DEFINE e == [r EXCEPT !.page = page, !.at = l]
           c == [at |-> l, cust |-> r.cust, limit |-> r.limit,
                 offset |-> r.offset, page |-> page]
<1>1. /\ r.cust \in Customers /\ r.limit \in 1 .. maxLimit /\ r.offset \in Nat
      /\ DOMAIN r = {"at", "cust", "limit", "offset", "page"}
  BY DEF ListCall
<1>2. c \in ListCall
  BY <1>1 DEF ListCall
<1>3. /\ e = [x \in DOMAIN e |-> e[x]] /\ DOMAIN e = DOMAIN r
      /\ e["at"] = l /\ e["cust"] = r["cust"] /\ e["limit"] = r["limit"]
      /\ e["offset"] = r["offset"] /\ e["page"] = page
  BY <1>1
<1>4. /\ c = [x \in DOMAIN c |-> c[x]]
      /\ DOMAIN c = {"at", "cust", "limit", "offset", "page"}
      /\ c["at"] = l /\ c["cust"] = r["cust"] /\ c["limit"] = r["limit"]
      /\ c["offset"] = r["offset"] /\ c["page"] = page
  OBVIOUS
<1> HIDE DEF e, c
<1>5. e = c
  BY <1>1, <1>3, <1>4
<1> QED
  BY <1>2, <1>5 DEF e, c

\* A query that answers, or fails, leaves a call with its page.
LEMMA FillIs ==
    ASSUME PagesTyped, NEW t \in Threads, call[t] \in ListCall,
           NEW page \in Seq(PageRow), NEW l \in Listings \cup {"listed", "listErr"},
           Fill(t, page, l)
    PROVE  LET c == [at |-> l, cust |-> call[t].cust, limit |-> call[t].limit,
                     offset |-> call[t].offset, page |-> page]
           IN  c \in ListCall /\ call' = [call EXCEPT ![t] = c]
<1>1. call' = [call EXCEPT ![t] = [call[t] EXCEPT !.page = page, !.at = l]]
  BY DEF Fill
<1> QED
  BY <1>1, CallWith

LEMMA FillKeeps ==
    ASSUME PageInv, NEW t \in Threads, call[t] \in ListCall,
           NEW page \in Seq(PageRow), NEW l \in Listings \cup {"listed", "listErr"},
           Fill(t, page, l),
           Len(page) <= call[t].limit,
           l \in {"selPage", "listErr"} => page = << >>,
           \A i \in DOMAIN page : RowOK(page[i], l),
           Sorted(page)
    PROVE  PageInv'
<1> DEFINE c == [at |-> l, cust |-> call[t].cust, limit |-> call[t].limit,
                 offset |-> call[t].offset, page |-> page]
<1>1. c \in ListCall /\ call' = [call EXCEPT ![t] = c]
  BY FillIs DEF PageInv
<1>2. /\ c.at = l /\ c.page = page /\ c.limit = call[t].limit
  OBVIOUS
<1> HIDE DEF c
<1>3. PageOK(c)
  BY <1>2 DEF PageOK
<1>4. UNCHANGED <<db, custs>> /\ walk' \in [Threads -> {NoWalk} \cup Walk]
  BY DEF Fill, PageInv, PagesTyped
<1> QED
  BY <1>1, <1>3, <1>4, PageStep

LEMMA UidsIs ==
    ASSUME NEW page \in Seq(PageRow)
    PROVE  /\ UidsOf(page) \in Seq(UIDs) /\ Len(UidsOf(page)) = Len(page)
           /\ Len(page) \in Nat /\ DOMAIN page = 1 .. Len(page)
           /\ \A i \in 1 .. Len(page) : UidsOf(page)[i] = page[i].uid
<1>1. DOMAIN page = 1 .. Len(page) /\ Len(page) \in Nat
      /\ \A i \in 1 .. Len(page) : page[i].uid \in UIDs
  <2>1. DOMAIN page = 1 .. Len(page) /\ Len(page) \in Nat
        /\ \A i \in 1 .. Len(page) : page[i] \in PageRow
    BY LenProperties, ElementOfSeq
  <2>2. \A r \in PageRow : r.uid \in UIDs
    BY DEF PageRow
  <2> QED
    BY <2>1, <2>2
<1>2. UidsOf(page) \in [1 .. Len(page) -> UIDs]
  BY <1>1 DEF UidsOf
<1>3. UidsOf(page) \in Seq(UIDs) /\ Len(UidsOf(page)) = Len(page)
  BY <1>1, <1>2
<1> QED
  BY <1>1, <1>3 DEF UidsOf

\* Call n is call c with another query answered; its page shows the same orders.
Answered(c, n) ==
    /\ c # Idle /\ n # Idle /\ n.cust = c.cust /\ n.offset = c.offset
    /\ c.at \notin {"idle", "selPage", "listErr"}
    /\ n.at \notin {"idle", "selPage", "listErr"}
    /\ OnPage(n) = OnPage(c)

\* Only the call of thread t changes.
Glued(t) ==
    /\ db' = db /\ walk' = walk /\ \A p \in Threads \ {t} : call'[p] = call[p]
    /\ Answered(call[t], call'[t])

\* The rows of the other queries are glued to those of the page by order_uid:
\* no row changes its place, its order or its base.
LEMMA GlueKeeps ==
    ASSUME PageInv, NEW t \in Threads, call[t] \in ListCall,
           call[t].at \in Listings \ {"selPage"},
           NEW q, q = [i \in DOMAIN call[t].page |-> q[i]],
           NEW l \in {"selDeliveries", "selPageItems", "listed"}, Fill(t, q, l),
           \A i \in DOMAIN call[t].page :
              /\ q[i] \in PageRow
              /\ q[i].uid = call[t].page[i].uid
              /\ q[i].order.base = call[t].page[i].order.base
              /\ RowOK(q[i], l)
    PROVE  PageInv' /\ Glued(t)
<1>1. call[t].page \in Seq(PageRow)
  BY DEF ListCall
<1>2. DOMAIN call[t].page = 1 .. Len(call[t].page) /\ Len(call[t].page) \in Nat
  BY <1>1, LenProperties
<1>3. q \in Seq(PageRow) /\ Len(q) = Len(call[t].page) /\ DOMAIN q = DOMAIN call[t].page
  BY <1>2
<1>4. call[t] # Idle
  BY CallIs DEF PageInv
<1>5. PageOK(call[t])
  BY <1>4 DEF PageInv
<1>6. Sorted(q)
  <2>1. Sorted(call[t].page)
    BY <1>5 DEF PageOK
  <2>2. ASSUME NEW i \in DOMAIN q, NEW j \in DOMAIN q, i < j
        PROVE  /\ q[i].uid # q[j].uid
               /\ Later(q[i].uid, q[i].order.base, q[j].uid, q[j].order.base)
    <3>1. /\ i \in DOMAIN call[t].page /\ j \in DOMAIN call[t].page
          /\ q[i].uid = call[t].page[i].uid /\ q[j].uid = call[t].page[j].uid
          /\ q[i].order.base = call[t].page[i].order.base
          /\ q[j].order.base = call[t].page[j].order.base
      BY <1>3
    <3>2. /\ call[t].page[i].uid # call[t].page[j].uid
          /\ Later(call[t].page[i].uid, call[t].page[i].order.base,
                   call[t].page[j].uid, call[t].page[j].order.base)
      BY <2>1, <2>2, <3>1 DEF Sorted
    <3> QED
      BY <3>1, <3>2
  <2> QED
    BY <2>2 DEF Sorted
<1>7. Len(q) <= call[t].limit
  BY <1>3, <1>5 DEF PageOK
<1>8. \A i \in DOMAIN q : RowOK(q[i], l)
  BY <1>3
<1>9. l \in Listings \cup {"listed", "listErr"} /\ l \notin {"selPage", "listErr"}
  BY DEF Listings
<1>10. PageInv'
  BY <1>3, <1>6, <1>7, <1>8, <1>9, FillKeeps
<1>11. Glued(t)
  <2> DEFINE c == [at |-> l, cust |-> call[t].cust, limit |-> call[t].limit,
                   offset |-> call[t].offset, page |-> q]
  <2>1. c \in ListCall /\ call' = [call EXCEPT ![t] = c]
    BY <1>3, <1>9, FillIs DEF PageInv
  <2>2. UidsOf(q) = UidsOf(call[t].page)
    BY <1>3 DEF UidsOf
  <2>3. c # Idle
    BY DEF Idle
  <2>4. OnPage(c) = OnPage(call[t])
    BY <1>4, <2>2, <2>3 DEF OnPage
  <2>5. c.cust = call[t].cust /\ c.offset = call[t].offset
        /\ c.at \notin {"idle", "selPage", "listErr"}
    OBVIOUS
  <2>6. call[t].at \notin {"idle", "selPage", "listErr"}
    BY DEF Listings
  <2> HIDE DEF c
  <2>7. Answered(call[t], c)
    BY <1>4, <2>3, <2>4, <2>5, <2>6 DEF Answered
  <2>8. call'[t] = c
    BY <2>1 DEF PageInv, PagesTyped
  <2>9. db' = db /\ walk' = walk /\ \A p \in Threads \ {t} : call'[p] = call[p]
    BY <2>1 DEF Fill, PageInv, PagesTyped
  <2> QED
    BY <2>7, <2>8, <2>9 DEF Glued
<1> QED
  BY <1>10, <1>11

\* The row of a page before a query: its order is in the database's types.
LEMMA RowAt ==
    ASSUME PageInv, NEW t \in Threads, call[t] \in ListCall,
           call[t].at \in Listings, NEW i \in DOMAIN call[t].page
    PROVE  LET r == call[t].page[i]
           IN  /\ r \in PageRow /\ r.uid \in UIDs /\ r.order \in PartRow
               /\ db[r.uid] \in r.seen /\ db[r.uid] \in PartRow
               /\ \A part \in PartsListed(call[t].at) :
                     \E v \in r.seen : r.order[part] = v[part]
<1> DEFINE r == call[t].page[i]
<1>1. call[t].page \in Seq(PageRow)
  BY DEF ListCall
<1>2. r \in PageRow
  BY <1>1, LenProperties, ElementOfSeq
<1>3. call[t] # Idle
  BY CallIs DEF PageInv
<1>4. RowOK(r, call[t].at)
  BY <1>3 DEF PageInv, PageOK
<1>5. r.uid \in UIDs /\ r.order \in PartRow
  BY <1>2 DEF PageRow
<1>6. db[r.uid] \in Row \cup {Absent}
  BY <1>5 DEF PageInv, PagesTyped
<1>7. db[r.uid] \in PartRow
  BY <1>6 DEF Row, Absent, PartRow
<1> HIDE DEF r
<1>8. /\ db[r.uid] \in r.seen
      /\ \A part \in PartsListed(call[t].at) :
            \E v \in r.seen : r.order[part] = v[part]
  BY <1>4 DEF RowOK
<1> QED
  BY <1>2, <1>5, <1>7, <1>8 DEF r

\* A row with another order.
LEMMA RowWith ==
    ASSUME NEW r \in PageRow, NEW o \in PartRow
    PROVE  LET s == [r EXCEPT !.order = o]
           IN  s \in PageRow /\ s.uid = r.uid /\ s.seen = r.seen /\ s.order = o
BY DEF PageRow

LEMMA SelectPaymentsKeeps ==
    ASSUME PageInv, NEW t \in Threads, SelectPayments(t) PROVE PageInv' /\ Glued(t)
<1>1. call[t].at = "selPayments" /\ call[t] \in ListCall
      /\ call[t].at \in Listings \ {"selPage"} /\ call[t].at \in Listings
  BY CallIs DEF SelectPayments, At, Listings, PageInv
<1> DEFINE page == call[t].page
           new(r) == [r EXCEPT !.order.payment = db[r.uid].payment,
                               !.order.tran = db[r.uid].tran]
           q == [i \in DOMAIN page |-> new(page[i])]
<1>2. Fill(t, q, "selDeliveries")
  BY DEF SelectPayments
<1>3. ASSUME NEW i \in DOMAIN page
      PROVE  /\ new(page[i]) \in PageRow
             /\ new(page[i]).uid = page[i].uid
             /\ new(page[i]).order.base = page[i].order.base
             /\ RowOK(new(page[i]), "selDeliveries")
  <2>1. PICK r : r = page[i]
    OBVIOUS
  <2>2. /\ r \in PageRow /\ r.uid \in UIDs /\ r.order \in PartRow
        /\ db[r.uid] \in r.seen /\ db[r.uid] \in PartRow
        /\ \A part \in PartsListed("selPayments") :
              \E v \in r.seen : r.order[part] = v[part]
    BY <1>1, <2>1, RowAt
  <2> DEFINE o1 == [r.order EXCEPT !.payment = db[r.uid].payment]
             o2 == [o1 EXCEPT !.tran = db[r.uid].tran]
             r1 == [r EXCEPT !.order = o1]
  <2>3. /\ o2 \in PartRow /\ o1 \in PartRow /\ o2.base = r.order.base
        /\ o2.payment = db[r.uid].payment /\ o2.tran = db[r.uid].tran
    BY <2>2 DEF PartRow
  <2>4. new(r) = [r1 EXCEPT !.order = [r1.order EXCEPT !.tran = db[r.uid].tran]]
    OBVIOUS
  <2> HIDE DEF o1, o2, new
  <2>5. r1 \in PageRow /\ r1.uid = r.uid /\ r1.seen = r.seen /\ r1.order = o1
    BY <2>2, <2>3, RowWith
  <2> HIDE DEF r1
  <2>6. [r1 EXCEPT !.order = o2] = new(r)
    BY <2>4, <2>5 DEF o2
  <2> DEFINE r2 == [r1 EXCEPT !.order = o2]
  <2>7. r2 \in PageRow /\ r2.uid = r1.uid /\ r2.seen = r1.seen /\ r2.order = o2
    BY <2>3, <2>5, RowWith
  <2> HIDE DEF r2
  <2>10. r2 = new(r)
    BY <2>6 DEF r2
  <2>8. \E v \in r.seen : r.order["base"] = v["base"]
    BY <2>2 DEF PartsListed
  <2>9. RowOK(new(r), "selDeliveries")
    BY <2>2, <2>3, <2>5, <2>7, <2>8, <2>10 DEF RowOK, PartsListed
  <2> QED
    BY <2>1, <2>3, <2>5, <2>7, <2>9, <2>10
<1>4. q = [i \in DOMAIN page |-> q[i]] /\ \A i \in DOMAIN page : q[i] = new(page[i])
  OBVIOUS
<1> HIDE DEF q, new
<1> QED
  BY <1>1, <1>2, <1>3, <1>4, GlueKeeps

LEMMA SelectDeliveriesKeeps ==
    ASSUME PageInv, NEW t \in Threads, SelectDeliveries(t) PROVE PageInv' /\ Glued(t)
<1>1. call[t].at = "selDeliveries" /\ call[t] \in ListCall
      /\ call[t].at \in Listings \ {"selPage"} /\ call[t].at \in Listings
  BY CallIs DEF SelectDeliveries, At, Listings, PageInv
<1> DEFINE page == call[t].page
           new(r) == [r EXCEPT !.order.delivery = db[r.uid].delivery]
           q == [i \in DOMAIN page |-> new(page[i])]
<1>2. Fill(t, q, "selPageItems")
  BY DEF SelectDeliveries
<1>3. ASSUME NEW i \in DOMAIN page
      PROVE  /\ new(page[i]) \in PageRow
             /\ new(page[i]).uid = page[i].uid
             /\ new(page[i]).order.base = page[i].order.base
             /\ RowOK(new(page[i]), "selPageItems")
  <2>1. PICK r : r = page[i]
    OBVIOUS
  <2>2. /\ r \in PageRow /\ r.uid \in UIDs /\ r.order \in PartRow
        /\ db[r.uid] \in r.seen /\ db[r.uid] \in PartRow
        /\ \A part \in PartsListed("selDeliveries") :
              \E v \in r.seen : r.order[part] = v[part]
    BY <1>1, <2>1, RowAt
  <2> DEFINE o == [r.order EXCEPT !.delivery = db[r.uid].delivery]
             r1 == [r EXCEPT !.order = o]
  <2>3. /\ o \in PartRow /\ o.delivery = db[r.uid].delivery
        /\ \A part \in {"base", "payment", "tran"} : o[part] = r.order[part]
    BY <2>2 DEF PartRow
  <2>4. new(r) = r1 /\ o.base = o["base"] /\ r.order.base = r.order["base"]
    OBVIOUS
  <2> HIDE DEF o, new
  <2>5. r1 \in PageRow /\ r1.uid = r.uid /\ r1.seen = r.seen /\ r1.order = o
    BY <2>2, <2>3, RowWith
  <2> HIDE DEF r1
  <2>6. \A part \in {"base", "payment", "tran"} : \E v \in r.seen : r.order[part] = v[part]
    BY <2>2 DEF PartsListed
  <2>7. RowOK(r1, "selPageItems")
    BY <2>2, <2>3, <2>5, <2>6 DEF RowOK, PartsListed, Absent
  <2> QED
    BY <2>1, <2>3, <2>4, <2>5, <2>7
<1>4. q = [i \in DOMAIN page |-> q[i]] /\ \A i \in DOMAIN page : q[i] = new(page[i])
  OBVIOUS
<1> HIDE DEF q, new
<1> QED
  BY <1>1, <1>2, <1>3, <1>4, GlueKeeps

LEMMA SelectPageItemsKeeps ==
    ASSUME PageInv, NEW t \in Threads, SelectPageItems(t) PROVE PageInv' /\ Glued(t)
<1>1. call[t].at = "selPageItems" /\ call[t] \in ListCall
      /\ call[t].at \in Listings \ {"selPage"} /\ call[t].at \in Listings
  BY CallIs DEF SelectPageItems, At, Listings, PageInv
<1> DEFINE page == call[t].page
           new(r) == [r EXCEPT !.order.items = db[r.uid].items]
           q == [i \in DOMAIN page |-> new(page[i])]
<1>2. Fill(t, q, "listed")
  BY DEF SelectPageItems
<1>3. ASSUME NEW i \in DOMAIN page
      PROVE  /\ new(page[i]) \in PageRow
             /\ new(page[i]).uid = page[i].uid
             /\ new(page[i]).order.base = page[i].order.base
             /\ RowOK(new(page[i]), "listed")
  <2>1. PICK r : r = page[i]
    OBVIOUS
  <2>2. /\ r \in PageRow /\ r.uid \in UIDs /\ r.order \in PartRow
        /\ db[r.uid] \in r.seen /\ db[r.uid] \in PartRow
        /\ \A part \in PartsListed("selPageItems") :
              \E v \in r.seen : r.order[part] = v[part]
    BY <1>1, <2>1, RowAt
  <2> DEFINE o == [r.order EXCEPT !.items = db[r.uid].items]
             r1 == [r EXCEPT !.order = o]
  <2>3. /\ o \in PartRow /\ o.items = db[r.uid].items
        /\ \A part \in {"base", "payment", "tran", "delivery"} : o[part] = r.order[part]
    BY <2>2 DEF PartRow
  <2>4. new(r) = r1 /\ o.base = o["base"] /\ r.order.base = r.order["base"]
    OBVIOUS
  <2> HIDE DEF o, new
  <2>5. r1 \in PageRow /\ r1.uid = r.uid /\ r1.seen = r.seen /\ r1.order = o
    BY <2>2, <2>3, RowWith
  <2> HIDE DEF r1
  <2>6. \A part \in {"base", "payment", "tran", "delivery"} : \E v \in r.seen : r.order[part] = v[part]
    BY <2>2 DEF PartsListed
  <2>7. RowOK(r1, "listed")
    BY <2>2, <2>3, <2>5, <2>6 DEF RowOK, PartsListed, Absent
  <2> QED
    BY <2>1, <2>3, <2>4, <2>5, <2>7
<1>4. q = [i \in DOMAIN page |-> q[i]] /\ \A i \in DOMAIN page : q[i] = new(page[i])
  OBVIOUS
<1> HIDE DEF q, new
<1> QED
  BY <1>1, <1>2, <1>3, <1>4, GlueKeeps

\* The rows of a page: those of the list behind the offset.
LEMMA SelectPageIs ==
    ASSUME PageInv, NEW t \in Threads, SelectPage(t)
    PROVE  \E uids \in Seq(Owned(db, call[t].cust)), page \in Seq(PageRow),
              l \in {"listed", "selPayments"} :
              /\ IsPage(db, call[t].cust, call[t].limit, call[t].offset, uids)
              /\ Len(page) = Len(uids)
              /\ \A i \in 1 .. Len(uids) : page[i] = BaseRow(uids[i])
              /\ l = IF page = << >> THEN "listed" ELSE "selPayments"
              /\ page = << >> <=> uids = << >>
              /\ Fill(t, page, l)
<1> DEFINE c == call[t].cust
           uids == Slice(Listing(db, c), call[t].limit, call[t].offset)
           page == [i \in DOMAIN uids |-> BaseRow(uids[i])]
           l == IF uids = << >> THEN "listed" ELSE "selPayments"
<1>1. call[t] \in ListCall
  BY CallIs DEF SelectPage, At, Listings, PageInv
<1>2. call[t].limit \in Nat \ {0} /\ call[t].offset \in Nat
  BY <1>1, PagesAssumption DEF ListCall
<1>3. db \in Rows /\ IsFiniteSet(Owned(db, c))
  BY OwnedFinite DEF PageInv
<1>4. uids \in Seq(Owned(db, c)) /\ IsPage(db, c, call[t].limit, call[t].offset, uids)
  <2>1. IsPage(db, c, call[t].limit, call[t].offset, uids)
    BY <1>2, <1>3, PageUids
  <2> QED
    BY <2>1 DEF IsPage
<1>5. Fill(t, page, l)
  BY DEF SelectPage
<1> HIDE DEF uids
<1>6. DOMAIN uids = 1 .. Len(uids) /\ Len(uids) \in Nat
      /\ \A i \in 1 .. Len(uids) : uids[i] \in Owned(db, c)
  BY <1>4, LenProperties, ElementOfSeq
<1>7. ASSUME NEW u \in Owned(db, c) PROVE BaseRow(u) \in PageRow
  <2>1. u \in UIDs /\ db[u] \in Row /\ db[u].base \in [cust : Customers, rev : Revs]
    BY <1>3, OwnedRow
  <2>2. [Absent EXCEPT !.base = db[u].base] \in PartRow
    BY <2>1 DEF Absent, PartRow
  <2> QED
    BY <2>1, <2>2 DEF BaseRow, PageRow
<1>8. page \in Seq(PageRow) /\ Len(page) = Len(uids)
      /\ \A i \in 1 .. Len(uids) : page[i] = BaseRow(uids[i])
  BY <1>6, <1>7
<1> HIDE DEF page
<1>9. page = << >> <=> uids = << >>
  <2>1. uids = << >> <=> Len(uids) = 0
    BY <1>4, EmptySeq
  <2>2. page = << >> <=> Len(page) = 0
    BY <1>8, EmptySeq
  <2> QED
    BY <1>8, <2>1, <2>2
<1>10. l \in {"listed", "selPayments"} /\ l = IF page = << >> THEN "listed" ELSE "selPayments"
  BY <1>9
<1> HIDE DEF l
<1> QED
  BY <1>4, <1>5, <1>8, <1>9, <1>10

LEMMA SelectPageKeeps ==
    ASSUME PageInv, NEW t \in Threads, SelectPage(t) PROVE PageInv'
<1> DEFINE c == call[t].cust
<1>1. call[t] \in ListCall
  BY CallIs DEF SelectPage, At, Listings, PageInv
<1>2. call[t].limit \in Nat \ {0} /\ call[t].offset \in Nat
  BY <1>1, PagesAssumption DEF ListCall
<1>3. db \in Rows /\ IsFiniteSet(Owned(db, c))
  BY OwnedFinite DEF PageInv
<1>4. PICK uids \in Seq(Owned(db, c)), page \in Seq(PageRow),
           l \in {"listed", "selPayments"} :
              /\ IsPage(db, c, call[t].limit, call[t].offset, uids)
              /\ Len(page) = Len(uids)
              /\ \A i \in 1 .. Len(uids) : page[i] = BaseRow(uids[i])
              /\ l = IF page = << >> THEN "listed" ELSE "selPayments"
              /\ page = << >> <=> uids = << >>
              /\ Fill(t, page, l)
  BY SelectPageIs
<1>5. /\ Len(uids) <= call[t].limit
      /\ \A i \in 1 .. Len(uids) : Rank(db, c, uids[i]) = call[t].offset + i - 1
  BY <1>4 DEF IsPage
<1>6. /\ DOMAIN uids = 1 .. Len(uids) /\ Len(uids) \in Nat
      /\ \A i \in 1 .. Len(uids) : uids[i] \in Owned(db, c)
      /\ DOMAIN page = 1 .. Len(uids)
  BY <1>4, LenProperties, ElementOfSeq
<1>7. \A i \in 1 .. Len(uids) : /\ page[i].uid = uids[i]
                                /\ page[i].order.base = db[uids[i]].base
                                /\ page[i].seen = {db[uids[i]]}
  <2>1. \A u : /\ BaseRow(u).uid = u /\ BaseRow(u).order.base = db[u].base
               /\ BaseRow(u).seen = {db[u]}
    BY DEF BaseRow, Absent
  <2>2. \A i \in 1 .. Len(uids) : page[i] = BaseRow(uids[i])
    BY <1>4
  <2> QED
    BY <2>1, <2>2
<1>8. Sorted(page)
  <2> SUFFICES ASSUME NEW i \in 1 .. Len(uids), NEW j \in 1 .. Len(uids), i < j
               PROVE  /\ page[i].uid # page[j].uid
                      /\ Later(page[i].uid, page[i].order.base,
                               page[j].uid, page[j].order.base)
    BY <1>6 DEF Sorted
  <2>1. Rank(db, c, uids[i]) = call[t].offset + i - 1
        /\ Rank(db, c, uids[j]) = call[t].offset + j - 1
    BY <1>5
  <2>2. Rank(db, c, uids[i]) < Rank(db, c, uids[j])
    BY <1>2, <1>6, <2>1
  <2>3. Later(uids[i], db[uids[i]].base, uids[j], db[uids[j]].base)
    BY <1>3, <1>6, <2>2, RankOrder
  <2>4. uids[i] # uids[j]
    BY <1>3, <1>6, <2>3, LaterTotal
  <2> QED
    BY <1>7, <2>3, <2>4
<1>9. ASSUME NEW i \in DOMAIN page PROVE RowOK(page[i], l)
  <2>1. l = "selPayments"
    BY <1>4, <1>9
  <2> QED
    BY <1>6, <1>7, <2>1 DEF RowOK, PartsListed
<1> QED
  BY <1>1, <1>4, <1>5, <1>8, <1>9, FillKeeps DEF Listings

\* Whatever a client asks for, the limit is in the handler's bounds and the
\* offset is none or its own.
LEMMA ParseIs ==
    ASSUME NEW q, q.limit \in Int \cup {Missing, NotInt},
           q.offset \in Int \cup {Missing, NotInt}
    PROVE  /\ ParseLimitOffset(q).limit \in 1 .. maxLimit
           /\ ParseLimitOffset(q).offset \in Nat
           /\ q.offset \in Nat => ParseLimitOffset(q).offset = q.offset
<1>1. /\ defaultLimit \in 1 .. maxLimit /\ defaultLimit \in Int /\ maxLimit \in Int
      /\ 1 <= maxLimit /\ Missing \notin Int /\ NotInt \notin Int
  BY PagesAssumption
<1>2. ParseLimitOffset(q).limit \in 1 .. maxLimit
  <2> DEFINE l == DefaultQuery(q.limit, defaultLimit)
  <2>1. l \in Int \cup {NotInt}
    BY <1>1 DEF DefaultQuery
  <2>2. ParseLimitOffset(q).limit = IF l = NotInt THEN defaultLimit
                                   ELSE ClampInt(l, 1, maxLimit)
    BY DEF ParseLimitOffset
  <2> HIDE DEF l
  <2>3. l \in Int => ClampInt(l, 1, maxLimit) \in 1 .. maxLimit
    BY <1>1 DEF ClampInt
  <2> QED
    BY <1>1, <2>1, <2>2, <2>3
<1>3. /\ ParseLimitOffset(q).offset \in Nat
      /\ q.offset \in Nat => ParseLimitOffset(q).offset = q.offset
  <2> DEFINE o == DefaultQuery(q.offset, 0)
  <2>1. o \in Int \cup {NotInt} /\ (q.offset \in Nat => o = q.offset)
    BY <1>1 DEF DefaultQuery
  <2>2. ParseLimitOffset(q).offset = IF o = NotInt THEN 0 ELSE IF o >= 0 THEN o ELSE 0
    BY DEF ParseLimitOffset
  <2> HIDE DEF o
  <2> QED
    BY <1>1, <2>1, <2>2
<1> QED
  BY <1>2, <1>3

LEMMA AskedIs ==
    ASSUME PagesTyped, NEW t \in Threads, NEW c \in Customers, NEW q,
           q.limit \in Int \cup {Missing, NotInt},
           q.offset \in Int \cup {Missing, NotInt},
           listOrdersByCustomer(t, c, q)
    PROVE  LET n == [at |-> "selPage", cust |-> c,
                     limit |-> ParseLimitOffset(q).limit,
                     offset |-> ParseLimitOffset(q).offset, page |-> << >>]
           IN  n \in ListCall /\ call' = [call EXCEPT ![t] = n] /\ PageOK(n)
<1> DEFINE l == ParseLimitOffset(q).limit
           o == ParseLimitOffset(q).offset
           n == [at |-> "selPage", cust |-> c, limit |-> l, offset |-> o, page |-> << >>]
<1>1. l \in 1 .. maxLimit /\ o \in Nat
  BY ParseIs
<1>2. call' = [call EXCEPT ![t] =
                  [at |-> "selPage", cust |-> c,
                   limit |-> IF l <= 0 THEN repoLimit ELSE l,
                   offset |-> IF o < 0 THEN 0 ELSE o, page |-> << >>]]
  BY DEF listOrdersByCustomer, ListByCustomer
<1> HIDE DEF l, o
<1>3. ~(l <= 0) /\ ~(o < 0)
  BY <1>1, PagesAssumption
<1>4. << >> \in Seq(PageRow) /\ Len(<< >>) = 0 /\ DOMAIN << >> = {}
  BY EmptySeq
<1>5. n \in ListCall /\ n.at = "selPage" /\ n.page = << >> /\ n.limit = l
  BY <1>1, <1>4 DEF ListCall, Listings
<1>6. call' = [call EXCEPT ![t] = n]
  BY <1>2, <1>3
<1> HIDE DEF n
<1>7. PageOK(n)
  BY <1>1, <1>4, <1>5, PagesAssumption DEF PageOK, Sorted
<1> QED
  BY <1>5, <1>6, <1>7 DEF n, l, o

LEMMA OpenKeeps ==
    ASSUME PageInv, NEW t \in Threads, NEW c \in Customers, NEW q \in Queries,
           Open(t, c, q)
    PROVE  PageInv'
<1> DEFINE n == [at |-> "selPage", cust |-> c,
                 limit |-> ParseLimitOffset(q).limit,
                 offset |-> ParseLimitOffset(q).offset, page |-> << >>]
           w == [on |-> TRUE, cust |-> c, limit |-> q.limit, got |-> << >>,
                 done |-> FALSE, must |-> Owned(db, c), mayRepeat |-> {}, saves |-> 0]
<1>1. /\ q.limit \in Int \cup {Missing, NotInt}
      /\ q.offset \in Int \cup {Missing, NotInt}
  BY PagesAssumption
<1>2. n \in ListCall /\ call' = [call EXCEPT ![t] = n] /\ PageOK(n)
  BY <1>1, AskedIs DEF Open, PageInv
<1>3. w \in Walk
  <2>1. Owned(db, c) \in SUBSET UIDs /\ << >> \in Seq(UIDs)
    BY EmptySeq DEF Owned
  <2> QED
    BY <1>1, <2>1 DEF Walk
<1>4. walk' = [walk EXCEPT ![t] = w] /\ UNCHANGED <<db, custs>>
  BY DEF Open
<1> HIDE DEF n, w
<1>5. walk' \in [Threads -> {NoWalk} \cup Walk]
  BY <1>3, <1>4 DEF PageInv, PagesTyped
<1> QED
  BY <1>2, <1>4, <1>5, PageStep

LEMMA NextPageKeeps ==
    ASSUME PageInv, NEW t \in Threads, NextPage(t)
    PROVE  /\ PageInv' /\ walk[t] \in Walk
           /\ LET n == [at |-> "selPage", cust |-> walk[t].cust,
                        limit |-> ParseLimitOffset([limit |-> walk[t].limit,
                                      offset |-> Len(walk[t].got)]).limit,
                        offset |-> Len(walk[t].got), page |-> << >>]
              IN  n \in ListCall /\ call' = [call EXCEPT ![t] = n]
<1> DEFINE q == [limit |-> walk[t].limit, offset |-> Len(walk[t].got)]
           n == [at |-> "selPage", cust |-> walk[t].cust,
                 limit |-> ParseLimitOffset(q).limit,
                 offset |-> Len(walk[t].got), page |-> << >>]
<1>1. walk[t] \in Walk
  BY DEF NextPage, PageInv, PagesTyped, NoWalk
<1>2. walk[t].cust \in Customers /\ walk[t].limit \in Int \cup {Missing, NotInt}
      /\ Len(walk[t].got) \in Nat
  BY <1>1, LenProperties DEF Walk
<1>3. /\ q.limit \in Int \cup {Missing, NotInt}
      /\ q.offset \in Int \cup {Missing, NotInt} /\ q.offset \in Nat
      /\ q.offset = Len(walk[t].got)
  BY <1>2
<1>4. listOrdersByCustomer(t, walk[t].cust, q) /\ UNCHANGED <<db, custs, walk>>
  BY DEF NextPage
<1> HIDE DEF q
<1>5. ParseLimitOffset(q).offset = Len(walk[t].got)
  BY <1>3, ParseIs
<1>6. n \in ListCall /\ call' = [call EXCEPT ![t] = n] /\ PageOK(n)
  BY <1>2, <1>3, <1>4, <1>5, AskedIs DEF PageInv
<1> HIDE DEF n
<1>7. walk' \in [Threads -> {NoWalk} \cup Walk]
  BY <1>4 DEF PageInv, PagesTyped
<1>8. PageInv'
  BY <1>4, <1>6, <1>7, PageStep
<1> QED
  BY <1>1, <1>6, <1>8 DEF n, q

LEMMA ListFailsKeeps == ASSUME PageInv, NEW t \in Threads, ListFails(t) PROVE PageInv'
<1>1. call[t] \in ListCall
  BY CallIs DEF ListFails, PageInv
<1>2. << >> \in Seq(PageRow) /\ Len(<< >>) = 0 /\ DOMAIN << >> = {}
  BY EmptySeq
<1>3. call[t].limit \in Nat
  BY <1>1, PagesAssumption DEF ListCall
<1>4. Fill(t, << >>, "listErr") /\ Sorted(<< >>) /\ Len(<< >>) <= call[t].limit
  BY <1>2, <1>3 DEF ListFails, Sorted
<1> QED
  BY <1>1, <1>2, <1>4, FillKeeps

\* A client that takes an answer has no call any more.
LEMMA TakeKeeps ==
    ASSUME PageInv, NEW t \in Threads, TakePage(t) \/ TakeErr(t) \/ Leave(t)
    PROVE  PageInv'
<1>1. UNCHANGED <<db, custs>> /\ call' = [call EXCEPT ![t] = Idle]
  BY CallIs DEF TakePage, TakeErr, Leave, At, PageInv, PagesTyped
<1>2. walk' \in [Threads -> {NoWalk} \cup Walk]
  <2>1. CASE TakeErr(t) \/ Leave(t)
    BY <2>1 DEF TakeErr, Leave, PageInv, PagesTyped
  <2>2. CASE TakePage(t)
    <3> DEFINE page == call[t].page
               uids == UidsOf(page)
    <3>1. call[t] \in ListCall
      BY <2>2, CallIs DEF TakePage, At, PageInv
    <3>2. page \in Seq(PageRow)
      BY <3>1 DEF ListCall
    <3>4. uids \in Seq(UIDs)
      BY <3>2, UidsIs
    <3>5. walk' = [walk EXCEPT ![t] = [walk[t] EXCEPT !.got = @ \o uids,
                                                      !.done = (page = << >>)]]
      BY <2>2 DEF TakePage, UidsOf
    <3> HIDE DEF uids
    <3>6. ASSUME NEW w \in Walk, NEW b \in BOOLEAN
          PROVE  [w EXCEPT !.got = @ \o uids, !.done = b] \in Walk
      <4>1. w.got \in Seq(UIDs)
        BY DEF Walk
      <4>2. w.got \o uids \in Seq(UIDs)
        BY <3>4, <4>1, ConcatProperties
      <4> QED
        BY <4>2 DEF Walk
    <3>7. (page = << >>) \in BOOLEAN
      OBVIOUS
    <3>8. walk[t] = NoWalk => [walk[t] EXCEPT !.got = @ \o uids,
                                             !.done = (page = << >>)] = NoWalk
      BY DEF NoWalk
    <3>9. [walk[t] EXCEPT !.got = @ \o uids, !.done = (page = << >>)] \in {NoWalk} \cup Walk
      BY <3>6, <3>7, <3>8 DEF PageInv, PagesTyped
    <3> QED
      BY <3>5, <3>9 DEF PageInv, PagesTyped
  <2> QED
    BY <2>1, <2>2
<1> QED
  BY <1>1, <1>2, PageStep

\* What a Save's commit does to a page under way: one version more to read from.
LEMMA SaveSees ==
    ASSUME PageInv, NEW u \in UIDs, NEW o, SaveCommits(u, o), db'[u] \in Row,
           NEW t \in Threads
    PROVE  /\ call'[t] \in {Idle} \cup ListCall
           /\ call'[t] = Idle <=> call[t] = Idle
           /\ call[t] # Idle =>
                /\ call'[t].at = call[t].at /\ call'[t].cust = call[t].cust
                /\ call'[t].limit = call[t].limit /\ call'[t].offset = call[t].offset
                /\ Len(call'[t].page) = Len(call[t].page)
                /\ DOMAIN call[t].page = 1 .. Len(call[t].page)
                /\ DOMAIN call'[t].page = 1 .. Len(call[t].page)
                /\ \A i \in 1 .. Len(call[t].page) :
                      /\ call'[t].page[i].uid = call[t].page[i].uid
                      /\ call'[t].page[i].order = call[t].page[i].order
                      /\ call[t].page[i].seen \subseteq call'[t].page[i].seen
                      /\ call[t].at \in Listings /\ call[t].page[i].uid = u
                            => db'[u] \in call'[t].page[i].seen
<1> DEFINE saw(r) == Told(r, u, db'[u])
           page == call[t].page
           q == [i \in DOMAIN page |-> saw(page[i])]
<1>1. CASE call[t] = Idle
  <2>1. call'[t] = call[t]
    BY <1>1 DEF SaveCommits, Idle, Listings
  <2> QED
    BY <1>1, <2>1
<1>2. CASE call[t] # Idle
  <2>1. call[t] \in ListCall
    BY <1>2, CallIs DEF PageInv
  <2>2. page \in Seq(PageRow)
    BY <2>1 DEF ListCall
  <2>3. DOMAIN page = 1 .. Len(page) /\ Len(page) \in Nat
        /\ \A i \in 1 .. Len(page) : page[i] \in PageRow
    BY <2>2, LenProperties, ElementOfSeq
  <2>4. CASE call[t].at \notin Listings
    <3>1. call'[t] = call[t]
      BY <2>4 DEF SaveCommits
    <3> QED
      BY <1>2, <2>1, <2>3, <2>4, <3>1
  <2>5. CASE call[t].at \in Listings
    <3>1. call'[t] = [call[t] EXCEPT !.page = q]
      BY <2>5 DEF SaveCommits
    <3>2. ASSUME NEW r \in PageRow
          PROVE  /\ saw(r) \in PageRow /\ saw(r).uid = r.uid
                 /\ saw(r).order = r.order /\ r.seen \subseteq saw(r).seen
                 /\ r.uid = u => db'[u] \in saw(r).seen
      BY DEF PageRow, Told
    <3> HIDE DEF page, saw
    <3>3. q \in [1 .. Len(page) -> PageRow] /\ DOMAIN q = 1 .. Len(page)
          /\ \A i \in 1 .. Len(page) : q[i] = saw(page[i])
      BY <2>3, <3>2
    <3> HIDE DEF q
    <3>4. q \in Seq(PageRow) /\ Len(q) = Len(page)
      BY <2>3, <3>3
    <3>5. /\ call'[t] \in ListCall /\ call'[t].page = q
          /\ call'[t].at = call[t].at /\ call'[t].cust = call[t].cust
          /\ call'[t].limit = call[t].limit /\ call'[t].offset = call[t].offset
      BY <2>1, <3>1, <3>4 DEF ListCall
    <3>6. call'[t] # Idle
      BY <3>5, <2>5 DEF Idle, Listings
    <3>7. ASSUME NEW i \in 1 .. Len(page)
          PROVE  /\ q[i].uid = page[i].uid /\ q[i].order = page[i].order
                 /\ page[i].seen \subseteq q[i].seen
                 /\ page[i].uid = u => db'[u] \in q[i].seen
      BY <2>3, <3>2, <3>3
    <3> QED
      BY <1>2, <2>3, <3>3, <3>4, <3>5, <3>6, <3>7 DEF page
  <2> QED
    BY <2>4, <2>5
<1> QED
  BY <1>1, <1>2

LEMMA SaveDb ==
    ASSUME PageInv, NEW u \in UIDs, NEW c \in Customers, NEW r \in Revs,
           SaveCommits(u, Whole(c, TranOf[u], r))
    PROVE  /\ db \in Rows /\ db' \in Rows /\ db'[u] \in Row
           /\ \A w \in UIDs \ {u} : db'[w] = db[w]
           /\ custs' \subseteq Customers
           /\ IsFiniteSet({w \in UIDs : db'[w] # Absent})
<1> DEFINE o == Whole(c, TranOf[u], r)
<1>1. TranOf[u] \in Trans
  BY PagesAssumption
<1>2. o \in Messages /\ o.base.cust = c
  BY <1>1 DEF Messages, Whole
<1>3. db' = Applied(db, u, o) /\ custs' = custs \cup {o.base.cust}
  BY DEF SaveCommits
<1>4. db \in [UIDs -> Row \cup {Absent}] /\ custs \subseteq Customers
      /\ IsFiniteSet({w \in UIDs : db[w] # Absent})
  BY DEF PageInv, PagesTyped
<1> HIDE DEF o
<1>5. /\ db' \in [UIDs -> Row \cup {Absent}] /\ db'[u] \in Row
      /\ \A w \in UIDs \ {u} : db'[w] = db[w]
  BY <1>2, <1>3, <1>4, AppliedWhole
<1>6. {w \in UIDs : db'[w] # Absent} \in SUBSET ({w \in UIDs : db[w] # Absent} \cup {u})
  BY <1>5
<1>7. IsFiniteSet({w \in UIDs : db[w] # Absent} \cup {u})
  BY <1>4, FS_AddElement
<1>8. IsFiniteSet({w \in UIDs : db'[w] # Absent})
  BY <1>6, <1>7, FS_Subset
<1> QED
  BY <1>2, <1>3, <1>4, <1>5, <1>8 DEF Rows

\* Walk n is walk w with another history.
Remembers(n, w, m, y) ==
    /\ n \in Walk /\ n.must = m /\ n.mayRepeat = y
    /\ n.cust = w.cust /\ n.got = w.got /\ n.on = w.on /\ n.done = w.done

LEMMA WalkWith ==
    ASSUME NEW w \in Walk, NEW a, NEW b \in SUBSET UIDs, NEW c \in SUBSET UIDs
    PROVE  Remembers([w EXCEPT !.saves = @ + 1, !.must = @ \ a,
                               !.mayRepeat = @ \cup b \cup c],
                     w, w.must \ a, w.mayRepeat \cup b \cup c)
<1> DEFINE m == w.must \ a
           y == w.mayRepeat \cup b \cup c
           e == [w EXCEPT !.saves = @ + 1, !.must = @ \ a, !.mayRepeat = @ \cup b \cup c]
           n == [on |-> w.on, cust |-> w.cust, limit |-> w.limit, got |-> w.got,
                 done |-> w.done, must |-> m, mayRepeat |-> y, saves |-> w.saves + 1]
<1>1. /\ w.on \in {TRUE} /\ w.cust \in Customers
      /\ w.limit \in Int \cup {Missing, NotInt} /\ w.got \in Seq(UIDs)
      /\ w.done \in BOOLEAN /\ w.must \in SUBSET UIDs
      /\ w.mayRepeat \in SUBSET UIDs /\ w.saves \in Nat
  BY Zenon DEF Walk
<1>2. DOMAIN w = {"on", "cust", "limit", "got", "done", "must", "mayRepeat", "saves"}
  BY DEF Walk
<1>3. m \in SUBSET UIDs /\ y \in SUBSET UIDs /\ w.saves + 1 \in Nat
  BY <1>1
<1>4. e = [x \in DOMAIN e |-> e[x]] /\ DOMAIN e = DOMAIN w
  BY <1>2
<1>5. /\ e["cust"] = w["cust"] /\ e["limit"] = w["limit"] /\ e["got"] = w["got"]
      /\ e["must"] = m /\ e["mayRepeat"] = y /\ e["saves"] = w.saves + 1
  BY <1>2
<1>6. e["on"] = w["on"] /\ e["done"] = w["done"]
  BY <1>2
<1> HIDE DEF m, y
<1>7. n \in Walk
  BY <1>1, <1>3 DEF Walk
<1>8. /\ n = [x \in DOMAIN n |-> n[x]] /\ DOMAIN n = DOMAIN w
  BY <1>2
<1>9. /\ n["on"] = w["on"] /\ n["cust"] = w["cust"] /\ n["limit"] = w["limit"]
      /\ n["got"] = w["got"] /\ n["done"] = w["done"]
      /\ n["must"] = m /\ n["mayRepeat"] = y /\ n["saves"] = w.saves + 1
  OBVIOUS
<1> HIDE DEF e, n
<1>10. e = n
  <2>1. \A x \in DOMAIN w : e[x] = n[x]
    BY <1>2, <1>5, <1>6, <1>9
  <2> QED
    BY <1>4, <1>8, <2>1
<1>11. Remembers(n, w, m, y)
  BY <1>7, <1>9 DEF Remembers
<1> QED
  BY <1>10, <1>11 DEF e, m, y

\* What a Save's commit does to a walk.
LEMMA SaveWalks ==
    ASSUME PageInv, NEW u \in UIDs, NEW o, SaveCommits(u, o), NEW t \in Threads
    PROVE  LET k == walk[t].cust
           IN  /\ walk[t] = NoWalk => walk'[t] = NoWalk
               /\ walk[t] # NoWalk =>
                     /\ walk[t] \in Walk
                     /\ Remembers(walk'[t], walk[t],
                                  walk[t].must \ (Gone(db', k) \cup Slid(db', k)),
                                  walk[t].mayRepeat \cup Gone(db', k) \cup Pushed(db', k))
<1>1. CASE walk[t] = NoWalk
  BY <1>1 DEF SaveCommits, NoWalk
<1>2. CASE walk[t] # NoWalk
  <2>1. walk[t] \in Walk
    BY <1>2 DEF PageInv, PagesTyped
  <2>2. walk[t].on
    BY <2>1 DEF Walk
  <2> DEFINE k == walk[t].cust
             m == Gone(db', k) \cup Slid(db', k)
  <2>3. walk'[t] = [walk[t] EXCEPT !.saves = @ + 1, !.must = @ \ m,
                                   !.mayRepeat = @ \cup Gone(db', k) \cup Pushed(db', k)]
    BY <1>2, <2>2 DEF SaveCommits
  <2>4. Gone(db', k) \in SUBSET UIDs /\ Pushed(db', k) \in SUBSET UIDs
    BY DEF Gone, Pushed, Owned
  <2> HIDE DEF m
  <2>5. Remembers([walk[t] EXCEPT !.saves = @ + 1, !.must = @ \ m,
                                  !.mayRepeat = @ \cup Gone(db', k) \cup Pushed(db', k)],
                  walk[t], walk[t].must \ m,
                  walk[t].mayRepeat \cup Gone(db', k) \cup Pushed(db', k))
    BY <2>1, <2>4, WalkWith
  <2>6. Remembers(walk'[t], walk[t], walk[t].must \ m,
                  walk[t].mayRepeat \cup Gone(db', k) \cup Pushed(db', k))
    BY <2>3, <2>5
  <2> QED
    BY <1>2, <2>1, <2>6 DEF m
<1> QED
  BY <1>1, <1>2

LEMMA SaveCommitsKeeps ==
    ASSUME PageInv, NEW u \in UIDs, NEW c \in Customers, NEW r \in Revs,
           SaveCommits(u, Whole(c, TranOf[u], r))
    PROVE  PageInv'
<1> DEFINE o == Whole(c, TranOf[u], r)
<1>1. /\ db' \in Rows /\ db'[u] \in Row
      /\ \A w \in UIDs \ {u} : db'[w] = db[w]
      /\ custs' \subseteq Customers
      /\ IsFiniteSet({w \in UIDs : db'[w] # Absent})
  BY SaveDb
<1>2. SaveCommits(u, o)
  OBVIOUS
<1> HIDE DEF o
<1>3. call' \in [Threads -> {Idle} \cup ListCall]
  <2>1. call' = [t \in Threads |-> call'[t]]
    BY <1>2 DEF SaveCommits
  <2>2. \A t \in Threads : call'[t] \in {Idle} \cup ListCall
    BY <1>1, <1>2, SaveSees
  <2> QED
    BY <2>1, <2>2
<1>4. walk' \in [Threads -> {NoWalk} \cup Walk]
  <2>1. walk' = [t \in Threads |-> walk'[t]]
    BY <1>2 DEF SaveCommits
  <2>2. \A t \in Threads : walk'[t] \in {NoWalk} \cup Walk
    BY <1>2, SaveWalks DEF Remembers
  <2> QED
    BY <2>1, <2>2
<1>5. PagesTyped'
  BY <1>1, <1>3, <1>4 DEF PagesTyped, Rows
<1>6. ASSUME NEW t \in Threads, call'[t] # Idle PROVE PageOK(call[t])'
  <2> DEFINE page == call[t].page
             next == call'[t].page
  <2>1. /\ call[t] # Idle
        /\ call'[t].at = call[t].at /\ call'[t].limit = call[t].limit
        /\ call[t] \in ListCall /\ call'[t] \in ListCall
        /\ Len(next) = Len(page)
        /\ DOMAIN page = 1 .. Len(page) /\ DOMAIN next = 1 .. Len(page)
        /\ \A i \in 1 .. Len(page) :
              /\ next[i].uid = page[i].uid
              /\ next[i].order = page[i].order
              /\ page[i].seen \subseteq next[i].seen
              /\ call[t].at \in Listings /\ page[i].uid = u => db'[u] \in next[i].seen
    BY <1>1, <1>2, <1>6, SaveSees, CallIs DEF PageInv
  <2>2. PageOK(call[t])
    BY <2>1 DEF PageInv
  <2>3. page \in Seq(PageRow) /\ next \in Seq(PageRow)
    BY <2>1 DEF ListCall
  <2>4. \A i \in 1 .. Len(page) : page[i].uid \in UIDs
    BY <2>3, UidsIs, ElementOfSeq DEF PageRow
  <2>5. /\ Len(page) <= call[t].limit
        /\ call[t].at \in {"selPage", "listErr"} => page = << >>
        /\ \A i \in 1 .. Len(page) : RowOK(page[i], call[t].at)
        /\ Sorted(page)
    BY <2>1, <2>2 DEF PageOK
  <2> HIDE DEF page, next
  <2>6. call'[t].at \in {"selPage", "listErr"} => next = << >>
    <3>1. page = << >> => Len(page) = 0
      BY <2>3, EmptySeq
    <3>2. Len(next) = 0 => next = << >>
      BY <2>3, EmptySeq
    <3> QED
      BY <2>1, <2>5, <3>1, <3>2
  <2>7. ASSUME NEW i \in 1 .. Len(page)
        PROVE  /\ call'[t].at \in Listings => db'[next[i].uid] \in next[i].seen
               /\ \A part \in PartsListed(call'[t].at) :
                     \E v \in next[i].seen : next[i].order[part] = v[part]
    <3>1. RowOK(page[i], call[t].at)
      BY <2>5
    <3>2. /\ call[t].at \in Listings => db[page[i].uid] \in page[i].seen
          /\ \A part \in PartsListed(call[t].at) :
                \E v \in page[i].seen : page[i].order[part] = v[part]
      BY <3>1 DEF RowOK
    <3>3. page[i].uid # u => db'[page[i].uid] = db[page[i].uid]
      BY <1>1, <2>4
    <3>4. /\ next[i].uid = page[i].uid /\ next[i].order = page[i].order
          /\ page[i].seen \subseteq next[i].seen
          /\ call[t].at \in Listings /\ page[i].uid = u => db'[u] \in next[i].seen
      BY <2>1
    <3> QED
      BY <2>1, <3>2, <3>3, <3>4
  <2>8. Sorted(next)
    <3> SUFFICES ASSUME NEW i \in 1 .. Len(page), NEW j \in 1 .. Len(page), i < j
                 PROVE  /\ next[i].uid # next[j].uid
                        /\ Later(next[i].uid, next[i].order.base,
                                 next[j].uid, next[j].order.base)
      BY <2>1 DEF Sorted
    <3>1. /\ page[i].uid # page[j].uid
          /\ Later(page[i].uid, page[i].order.base, page[j].uid, page[j].order.base)
      BY <2>1, <2>5 DEF Sorted
    <3>2. /\ next[i].uid = page[i].uid /\ next[i].order = page[i].order
          /\ next[j].uid = page[j].uid /\ next[j].order = page[j].order
      BY <2>1
    <3> QED
      BY <3>1, <3>2
  <2> QED
    BY <2>1, <2>5, <2>6, <2>7, <2>8 DEF PageOK, RowOK, next
<1> QED
  BY <1>5, <1>6 DEF PageInv

LEMMA InitPageInv == PInit => PageInv
<1> SUFFICES ASSUME PInit PROVE PageInv
  OBVIOUS
<1>1. {u \in UIDs : db[u] # Absent} = {}
  BY DEF PInit, Init
<1>2. IsFiniteSet({u \in UIDs : db[u] # Absent})
  BY <1>1, FS_EmptySet
<1>3. PagesTyped
  BY <1>2 DEF PInit, Init, PagesTyped
<1> QED
  BY <1>3 DEF PageInv, PInit, Init

LEMMA NextPageInv == PageInv /\ [PNext]_pvars => PageInv'
<1> SUFFICES ASSUME PageInv, [PNext]_pvars PROVE PageInv'
  OBVIOUS
<1>1. ASSUME NEW u \in UIDs, NEW c \in Customers, NEW r \in Revs,
             SaveCommits(u, Whole(c, TranOf[u], r))
      PROVE  PageInv'
  BY <1>1, SaveCommitsKeeps
<1>2. ASSUME NEW t \in Threads, NEW c \in Customers, NEW q \in Queries, Open(t, c, q)
      PROVE  PageInv'
  BY <1>2, OpenKeeps
<1>3. ASSUME NEW t \in Threads, NextPage(t) PROVE PageInv'
  BY <1>3, NextPageKeeps
<1>4. ASSUME NEW t \in Threads, ListWork(t) PROVE PageInv'
  BY <1>4, SelectPageKeeps, SelectPaymentsKeeps, SelectDeliveriesKeeps,
     SelectPageItemsKeeps DEF ListWork
<1>5. ASSUME NEW t \in Threads,
             ListFails(t) \/ TakePage(t) \/ TakeErr(t) \/ Leave(t)
      PROVE  PageInv'
  BY <1>5, ListFailsKeeps, TakeKeeps
<1>6. CASE UNCHANGED pvars
  <2>1. db' = db /\ custs' = custs /\ call' = call /\ walk' = walk
    BY <1>6 DEF pvars, rvars
  <2> QED
    BY <2>1 DEF PageInv, PagesTyped, PageOK, RowOK
<1> QED
  BY <1>1, <1>2, <1>3, <1>4, <1>5, <1>6 DEF PNext

LEMMA PageInvariance == PSpec => []PageInv
BY InitPageInv, NextPageInv, PTL DEF PSpec
-----------------------------------------------------------------------------
(* Walks: what was shown, what is on the page and what is still behind it.  *)

\* A walk that begins has everything before it.
LEMMA WalkBegins ==
    ASSUME NEW d \in Rows, NEW c, IsFiniteSet(Owned(d, c))
    PROVE  /\ Coming(d, c, << >>, << >>, Owned(d, c), FALSE)
           /\ Once(d, c, << >>, << >>, {}) /\ NoneTwice(<< >>, {})
<1>1. Len(<< >>) = 0 /\ DOMAIN << >> = {}
  OBVIOUS
<1>2. \A u : ~Shows(<< >>, u)
  BY <1>1 DEF Shows
<1>3. \A u \in Owned(d, c) : Rank(d, c, u) \in Nat
  BY RankOrder
<1>4. Coming(d, c, << >>, << >>, Owned(d, c), FALSE)
  BY <1>1, <1>3 DEF Coming
<1> QED
  BY <1>1, <1>2, <1>4 DEF Once, NoneTwice

\* A page behind what was shown.
LEMMA WalkGetsPage ==
    ASSUME NEW d \in Rows, NEW c, IsFiniteSet(Owned(d, c)), NEW limit,
           NEW got \in Seq(UIDs), NEW uids \in Seq(UIDs),
           IsPage(d, c, limit, Len(got), uids),
           NEW must, NEW may, NEW end, Coming(d, c, got, << >>, must, end),
           Once(d, c, got, << >>, may)
    PROVE  /\ Coming(d, c, got, uids, must, end \/ uids = << >>)
           /\ Once(d, c, got, uids, may)
<1>1. /\ uids \in Seq(Owned(d, c))
      /\ \A i \in 1 .. Len(uids) : Rank(d, c, uids[i]) = Len(got) + i - 1
      /\ \A u \in Owned(d, c) : Rank(d, c, u) >= Len(got) =>
            \/ \E i \in 1 .. Len(uids) : uids[i] = u
            \/ Rank(d, c, u) >= Len(got) + Len(uids)
      /\ uids = << >> => \A u \in Owned(d, c) : Rank(d, c, u) < Len(got)
  BY DEF IsPage
<1>2. /\ Len(got) \in Nat /\ Len(uids) \in Nat /\ DOMAIN uids = 1 .. Len(uids)
      /\ \A i \in 1 .. Len(uids) : uids[i] \in Owned(d, c)
  BY <1>1, LenProperties, ElementOfSeq
<1>3. \A u \in Owned(d, c) : Rank(d, c, u) \in Nat
  BY RankOrder
<1>4. \A u : Shows(uids, u) <=> \E i \in 1 .. Len(uids) : uids[i] = u
  BY <1>2 DEF Shows
<1>5. \A u \in must : /\ u \in Owned(d, c)
                      /\ Shows(got, u) \/ Rank(d, c, u) >= Len(got)
  BY DEF Coming
<1>6. ASSUME NEW u \in must
      PROVE  \/ Shows(got, u)
             \/ /\ Rank(d, c, u) >= Len(got)
                /\ Shows(uids, u) \/ Rank(d, c, u) >= Len(got) + Len(uids)
  BY <1>1, <1>4, <1>5
<1>7. ASSUME uids = << >>, NEW u \in must PROVE Shows(got, u)
  <2>1. u \in Owned(d, c) /\ Rank(d, c, u) \in Nat /\ Rank(d, c, u) < Len(got)
    BY <1>1, <1>3, <1>5, <1>7
  <2> QED
    BY <1>2, <1>5, <2>1
<1>8. Coming(d, c, got, uids, must, end \/ uids = << >>)
  BY <1>5, <1>6, <1>7 DEF Coming
<1>9. ASSUME NEW u \in UIDs \ may
      PROVE  /\ Shows(got, u) => u \in Owned(d, c) /\ Rank(d, c, u) < Len(got)
             /\ Shows(uids, u) => /\ u \in Owned(d, c) /\ ~Shows(got, u)
                                  /\ Rank(d, c, u) < Len(got) + Len(uids)
  <2>1. Shows(got, u) => u \in Owned(d, c) /\ Rank(d, c, u) < Len(got)
    BY DEF Once
  <2>2. ASSUME Shows(uids, u)
        PROVE  /\ u \in Owned(d, c) /\ Rank(d, c, u) >= Len(got)
               /\ Rank(d, c, u) < Len(got) + Len(uids) /\ Rank(d, c, u) \in Nat
    <3>1. PICK i \in 1 .. Len(uids) : uids[i] = u
      BY <1>4, <2>2
    <3>2. Rank(d, c, u) = Len(got) + i - 1 /\ u \in Owned(d, c)
      BY <1>1, <1>2, <3>1
    <3> QED
      BY <1>2, <3>2
  <2> QED
    BY <1>2, <2>1, <2>2
<1> QED
  BY <1>8, <1>9 DEF Once

\* A page that is not answered is asked for again.
LEMMA WalkLosesPage ==
    ASSUME NEW d, NEW c, NEW got, NEW page, NEW must, NEW may, NEW end,
           \A u \in must : Rank(d, c, u) \in Int, Len(got) \in Nat,
           Coming(d, c, got, page, must, end), Once(d, c, got, page, may)
    PROVE  Coming(d, c, got, << >>, must, FALSE) /\ Once(d, c, got, << >>, may)
<1>1. Len(<< >>) = 0 /\ \A u : ~Shows(<< >>, u)
  BY DEF Shows
<1>2. Coming(d, c, got, << >>, must, FALSE)
  BY <1>1 DEF Coming
<1> QED
  BY <1>1, <1>2 DEF Once

\* A client shows what a page has behind what it has shown.
LEMMA ShowsConcat ==
    ASSUME NEW got \in Seq(UIDs), NEW page \in Seq(UIDs)
    PROVE  /\ got \o page \in Seq(UIDs) /\ Len(got \o page) = Len(got) + Len(page)
           /\ Len(got) \in Nat /\ Len(page) \in Nat
           /\ \A u : Shows(got \o page, u) <=> Shows(got, u) \/ Shows(page, u)
<1> DEFINE all == got \o page
<1>1. /\ all \in Seq(UIDs) /\ Len(all) = Len(got) + Len(page)
      /\ \A i \in 1 .. Len(got) + Len(page) :
            all[i] = IF i <= Len(got) THEN got[i] ELSE page[i - Len(got)]
  BY ConcatProperties
<1>2. /\ Len(got) \in Nat /\ Len(page) \in Nat
      /\ DOMAIN got = 1 .. Len(got) /\ DOMAIN page = 1 .. Len(page)
      /\ DOMAIN all = 1 .. Len(got) + Len(page)
  BY <1>1, LenProperties
<1> HIDE DEF all
<1>3. ASSUME NEW u, Shows(all, u) PROVE Shows(got, u) \/ Shows(page, u)
  <2>1. PICK i \in 1 .. Len(got) + Len(page) : all[i] = u
    BY <1>2, <1>3 DEF Shows
  <2>2. i <= Len(got) => i \in DOMAIN got /\ got[i] = u
    BY <1>1, <1>2, <2>1
  <2>3. ~(i <= Len(got)) => i - Len(got) \in DOMAIN page /\ page[i - Len(got)] = u
    BY <1>1, <1>2, <2>1
  <2> QED
    BY <2>2, <2>3 DEF Shows
<1>4. ASSUME NEW u, Shows(got, u) PROVE Shows(all, u)
  <2>1. PICK i \in 1 .. Len(got) : got[i] = u
    BY <1>2, <1>4 DEF Shows
  <2>2. i \in DOMAIN all /\ all[i] = u
    BY <1>1, <1>2, <2>1
  <2> QED
    BY <2>2 DEF Shows
<1>5. ASSUME NEW u, Shows(page, u) PROVE Shows(all, u)
  <2>1. PICK i \in 1 .. Len(page) : page[i] = u
    BY <1>2, <1>5 DEF Shows
  <2>2. i + Len(got) \in DOMAIN all /\ i + Len(got) - Len(got) = i
        /\ ~(i + Len(got) <= Len(got))
    BY <1>2, <2>1
  <2>3. all[i + Len(got)] = u
    BY <1>1, <1>2, <2>1, <2>2
  <2> QED
    BY <2>2, <2>3 DEF Shows
<1> QED
  BY <1>1, <1>2, <1>3, <1>4, <1>5 DEF all

LEMMA WalkTakesPage ==
    ASSUME NEW d \in Rows, NEW c, NEW got \in Seq(UIDs), NEW page \in Seq(UIDs),
           NEW must, NEW may, IsFiniteSet(Owned(d, c)),
           Coming(d, c, got, page, must, page = << >>),
           Once(d, c, got, page, may), NoneTwice(got, may),
           \A i, j \in DOMAIN page : i < j => page[i] # page[j]
    PROVE  /\ Coming(d, c, got \o page, << >>, must, page = << >>)
           /\ Once(d, c, got \o page, << >>, may)
           /\ NoneTwice(got \o page, may)
<1> DEFINE all == got \o page
<1>1. /\ all \in Seq(UIDs) /\ Len(all) = Len(got) + Len(page)
      /\ Len(got) \in Nat /\ Len(page) \in Nat
      /\ \A u : Shows(all, u) <=> Shows(got, u) \/ Shows(page, u)
  BY ShowsConcat
<1>2. \A i \in 1 .. Len(got) + Len(page) :
         all[i] = IF i <= Len(got) THEN got[i] ELSE page[i - Len(got)]
  BY ConcatProperties
<1>3. /\ DOMAIN got = 1 .. Len(got) /\ DOMAIN page = 1 .. Len(page)
      /\ DOMAIN all = 1 .. Len(got) + Len(page)
      /\ \A i \in 1 .. Len(all) : all[i] \in UIDs
  BY <1>1, LenProperties, ElementOfSeq
<1> HIDE DEF all
<1>4. Len(<< >>) = 0 /\ \A u : ~Shows(<< >>, u)
  BY DEF Shows
<1>5. \A u \in Owned(d, c) : Rank(d, c, u) \in Nat
  BY RankOrder
<1>6. Coming(d, c, all, << >>, must, page = << >>)
  BY <1>1, <1>4, <1>5 DEF Coming
<1>7. Once(d, c, all, << >>, may)
  <2> SUFFICES ASSUME NEW u \in UIDs \ may, Shows(all, u)
               PROVE  u \in Owned(d, c) /\ Rank(d, c, u) < Len(all)
    BY <1>4 DEF Once
  <2>1. CASE Shows(got, u)
    <3>1. u \in Owned(d, c) /\ Rank(d, c, u) < Len(got)
      BY <2>1 DEF Once
    <3> QED
      BY <1>1, <1>5, <3>1
  <2>2. CASE Shows(page, u)
    BY <1>1, <2>2 DEF Once
  <2> QED
    BY <1>1, <2>1, <2>2
<1>8. ASSUME NEW i \in DOMAIN all, NEW j \in DOMAIN all, i < j, all[i] = all[j]
      PROVE  all[i] \in may
  <2>1. CASE j <= Len(got)
    <3>1. i \in DOMAIN got /\ j \in DOMAIN got /\ got[i] = all[i] /\ got[j] = all[j]
      BY <1>1, <1>2, <1>3, <1>8, <2>1
    <3> QED
      BY <1>8, <3>1 DEF NoneTwice
  <2>2. CASE ~(j <= Len(got)) /\ i <= Len(got)
    <3>1. j - Len(got) \in DOMAIN page /\ page[j - Len(got)] = all[j]
          /\ i \in DOMAIN got /\ got[i] = all[i]
      BY <1>1, <1>2, <1>3, <2>2
    <3>2. Shows(page, all[j]) /\ Shows(got, all[j])
      BY <1>8, <3>1 DEF Shows
    <3>3. all[j] \in UIDs
      BY <1>1, <1>3
    <3> QED
      BY <1>8, <3>2, <3>3 DEF Once
  <2>3. CASE ~(i <= Len(got))
    <3>1. /\ i - Len(got) \in DOMAIN page /\ page[i - Len(got)] = all[i]
          /\ j - Len(got) \in DOMAIN page /\ page[j - Len(got)] = all[j]
          /\ i - Len(got) < j - Len(got)
      BY <1>1, <1>2, <1>3, <1>8, <2>3
    <3> QED
      BY <1>8, <3>1
  <2> QED
    BY <1>1, <1>3, <1>8, <2>1, <2>2, <2>3
<1>9. NoneTwice(all, may)
  BY <1>8 DEF NoneTwice
<1> QED
  BY <1>6, <1>7, <1>9 DEF all

\* The list when the database becomes db': an order that stays with its customer
\* comes no earlier than before unless it loses one in front of it, and no later
\* unless it gets another in front of it.
LEMMA RanksMove ==
    ASSUME db \in Rows, db' \in Rows, NEW c,
           IsFiniteSet(Owned(db, c)), IsFiniteSet(Owned(db', c)),
           \A w \in UIDs : db[w] # Absent => db'[w] # Absent,
           NEW u \in Owned(db, c) \ Gone(db', c)
    PROVE  /\ u \in Owned(db', c)
           /\ Rank(db, c, u) \in Nat /\ Rank(db', c, u) \in Nat
           /\ u \notin Slid(db', c) => Rank(db', c, u) >= Rank(db, c, u)
           /\ u \notin Pushed(db', c) => Rank(db', c, u) <= Rank(db, c, u)
<1>1. u \in Owned(db, c) /\ u \in Owned(db', c)
  BY DEF Gone
<1>2. u \in Owned(db', c)
  BY <1>1
<1>3. /\ IsFiniteSet(InFront(db, c, u)) /\ IsFiniteSet(InFront(db', c, u))
      /\ Rank(db, c, u) \in Nat /\ Rank(db', c, u) \in Nat
  <2>1. /\ InFront(db, c, u) \in SUBSET Owned(db, c)
        /\ InFront(db', c, u) \in SUBSET Owned(db', c)
    BY DEF InFront
  <2>2. IsFiniteSet(InFront(db, c, u)) /\ IsFiniteSet(InFront(db', c, u))
    BY <2>1, FS_Subset
  <2> QED
    BY <2>2, FS_CardinalityType DEF Rank
<1>4. ASSUME u \notin Slid(db', c) PROVE Rank(db', c, u) >= Rank(db, c, u)
  <2>1. InFront(db, c, u) \in SUBSET InFront(db', c, u)
    BY <1>2, <1>4 DEF Slid
  <2>2. Cardinality(InFront(db, c, u)) <= Cardinality(InFront(db', c, u))
    BY <1>3, <2>1, FS_Subset
  <2> QED
    BY <1>3, <2>2 DEF Rank
<1>5. ASSUME u \notin Pushed(db', c) PROVE Rank(db', c, u) <= Rank(db, c, u)
  <2>1. InFront(db', c, u) \in SUBSET InFront(db, c, u)
    BY <1>2, <1>5 DEF Pushed
  <2>2. Cardinality(InFront(db', c, u)) <= Cardinality(InFront(db, c, u))
    BY <1>3, <2>1, FS_Subset
  <2> QED
    BY <2>2 DEF Rank
<1> QED
  BY <1>2, <1>3, <1>4, <1>5

LEMMA WalkSeesSave ==
    ASSUME db \in Rows, db' \in Rows, NEW c,
           IsFiniteSet(Owned(db, c)), IsFiniteSet(Owned(db', c)),
           \A w \in UIDs : db[w] # Absent => db'[w] # Absent,
           NEW got \in Seq(UIDs), NEW page \in Seq(UIDs),
           NEW must, NEW may, NEW end,
           Coming(db, c, got, page, must, end), Once(db, c, got, page, may),
           NoneTwice(got, may)
    PROVE  /\ Coming(db', c, got, page, must \ (Gone(db', c) \cup Slid(db', c)), end)
           /\ Once(db', c, got, page, may \cup Gone(db', c) \cup Pushed(db', c))
           /\ NoneTwice(got, may \cup Gone(db', c) \cup Pushed(db', c))
<1> DEFINE m == must \ (Gone(db', c) \cup Slid(db', c))
           y == may \cup Gone(db', c) \cup Pushed(db', c)
<1>1. Len(got) \in Nat /\ Len(page) \in Nat
  BY LenProperties
<1>2. ASSUME NEW u \in m
      PROVE  /\ u \in Owned(db', c)
             /\ \/ Shows(got, u)
                \/ /\ Rank(db', c, u) >= Len(got)
                   /\ Shows(page, u) \/ Rank(db', c, u) >= Len(got) + Len(page)
  <2>1. /\ u \in Owned(db, c)
        /\ \/ Shows(got, u)
           \/ /\ Rank(db, c, u) >= Len(got)
              /\ Shows(page, u) \/ Rank(db, c, u) >= Len(got) + Len(page)
    BY DEF Coming
  <2>2. /\ u \in Owned(db', c) /\ Rank(db, c, u) \in Nat /\ Rank(db', c, u) \in Nat
        /\ Rank(db', c, u) >= Rank(db, c, u)
    BY <2>1, RanksMove
  <2> QED
    BY <1>1, <2>1, <2>2
<1>3. end => \A u \in m : Shows(got, u)
  BY DEF Coming
<1>4. ASSUME NEW u \in UIDs \ y
      PROVE  /\ Shows(got, u) => u \in Owned(db', c) /\ Rank(db', c, u) < Len(got)
             /\ Shows(page, u) => /\ u \in Owned(db', c) /\ ~Shows(got, u)
                                  /\ Rank(db', c, u) < Len(got) + Len(page)
  <2>1. /\ Shows(got, u) => u \in Owned(db, c) /\ Rank(db, c, u) < Len(got)
        /\ Shows(page, u) => /\ u \in Owned(db, c) /\ ~Shows(got, u)
                             /\ Rank(db, c, u) < Len(got) + Len(page)
    BY DEF Once
  <2>2. u \in Owned(db, c) =>
           /\ u \in Owned(db', c) /\ Rank(db, c, u) \in Nat /\ Rank(db', c, u) \in Nat
           /\ Rank(db', c, u) <= Rank(db, c, u)
    BY RanksMove
  <2> QED
    BY <1>1, <2>1, <2>2
<1>5. NoneTwice(got, y)
  BY DEF NoneTwice
<1> HIDE DEF m, y
<1>6. Coming(db', c, got, page, m, end)
  BY <1>2, <1>3 DEF Coming
<1>7. Once(db', c, got, page, y)
  BY <1>4 DEF Once
<1> QED
  BY <1>5, <1>6, <1>7 DEF m, y

\* A step of one client that is no Save.
LEMMA WalkStep ==
    ASSUME WalkInv, PageInv', NEW t \in Threads, db' = db,
           \A p \in Threads \ {t} : call'[p] = call[p] /\ walk'[p] = walk[p],
           WalkOK(db, call'[t], walk'[t])
    PROVE  WalkInv'
<1>1. \A p \in Threads : WalkOK(db, call'[p], walk'[p])
  BY DEF WalkInv
<1>2. \A p \in Threads : WalkOK(db', call'[p], walk'[p])
  BY <1>1
<1> QED
  BY <1>2 DEF WalkInv

LEMMA WalkIs ==
    ASSUME WalkInv, NEW t \in Threads, call[t] # Idle
    PROVE  LET c == call[t]
               w == walk[t]
           IN  /\ c \in ListCall /\ w \in Walk /\ w.on /\ ~w.done
               /\ c.cust = w.cust /\ c.offset = Len(w.got)
               /\ w.got \in Seq(UIDs) /\ c.page \in Seq(PageRow)
               /\ OnPage(c) = UidsOf(c.page)
               /\ Coming(db, w.cust, w.got, OnPage(c), w.must, Ended(c, w))
               /\ Once(db, w.cust, w.got, OnPage(c), w.mayRepeat)
               /\ NoneTwice(w.got, w.mayRepeat)
<1>1. WalkOK(db, call[t], walk[t]) /\ call[t] \in ListCall
  BY CallIs DEF WalkInv, PageInv
<1>2. /\ walk[t].on /\ ~walk[t].done
      /\ call[t].cust = walk[t].cust /\ call[t].offset = Len(walk[t].got)
      /\ Coming(db, walk[t].cust, walk[t].got, OnPage(call[t]), walk[t].must,
                Ended(call[t], walk[t]))
      /\ Once(db, walk[t].cust, walk[t].got, OnPage(call[t]), walk[t].mayRepeat)
      /\ NoneTwice(walk[t].got, walk[t].mayRepeat)
  BY <1>1 DEF WalkOK
<1>3. walk[t] # NoWalk /\ walk[t] \in {NoWalk} \cup Walk
  BY <1>2 DEF NoWalk, WalkInv, PageInv, PagesTyped
<1>4. walk[t] \in Walk
  BY <1>3
<1>5. walk[t].got \in Seq(UIDs)
  BY <1>4 DEF Walk
<1>6. call[t].page \in Seq(PageRow)
  BY <1>1 DEF ListCall
<1>7. OnPage(call[t]) = UidsOf(call[t].page)
  BY DEF OnPage
<1> QED
  BY <1>1, <1>2, <1>4, <1>5, <1>6, <1>7

LEMMA GluedWalk == ASSUME WalkInv, PageInv', NEW t \in Threads, Glued(t) PROVE WalkInv'
<1> DEFINE c == call[t]
           n == call'[t]
           w == walk[t]
<1>1. /\ db' = db /\ walk' = walk /\ \A p \in Threads \ {t} : call'[p] = call[p]
      /\ Answered(c, n)
  BY DEF Glued
<1>2. WalkOK(db, c, w)
  BY DEF WalkInv
<1> HIDE DEF c, n, w
<1>3. /\ c # Idle /\ n # Idle /\ n.cust = c.cust /\ n.offset = c.offset
      /\ c.at \notin {"idle", "selPage", "listErr"}
      /\ n.at \notin {"idle", "selPage", "listErr"}
      /\ OnPage(n) = OnPage(c)
  BY <1>1 DEF Answered
<1>4. Ended(n, w) => Ended(c, w)
  BY <1>3 DEF Ended
<1>5. WalkOK(db, n, w)
  BY <1>2, <1>3, <1>4 DEF WalkOK, Coming
<1> QED
  BY <1>1, <1>5, WalkStep DEF n, w

LEMMA OpenWalks ==
    ASSUME FromStart, WalkInv, NEW t \in Threads, NEW c \in Customers,
           NEW q \in Queries, Open(t, c, q)
    PROVE  WalkInv'
<1> DEFINE n == [at |-> "selPage", cust |-> c,
                 limit |-> ParseLimitOffset(q).limit,
                 offset |-> ParseLimitOffset(q).offset, page |-> << >>]
           w == [on |-> TRUE, cust |-> c, limit |-> q.limit, got |-> << >>,
                 done |-> FALSE, must |-> Owned(db, c), mayRepeat |-> {}, saves |-> 0]
<1>1. /\ q.limit \in Int \cup {Missing, NotInt}
      /\ q.offset \in Int \cup {Missing, NotInt}
  BY PagesAssumption
<1>2. n \in ListCall /\ call' = [call EXCEPT ![t] = n]
  BY <1>1, AskedIs DEF Open, WalkInv, PageInv
<1>3. walk' = [walk EXCEPT ![t] = w] /\ db' = db
  BY DEF Open
<1>4. /\ n # Idle /\ n.at = "selPage" /\ n.cust = c /\ n.offset = 0 /\ n.page = << >>
      /\ w.on = TRUE /\ w.cust = c /\ w.got = << >> /\ w.done = FALSE
      /\ w.must = Owned(db, c) /\ w.mayRepeat = {}
  BY DEF Idle, FromStart
<1>5. OnPage(n) = << >>
  BY <1>4 DEF OnPage, UidsOf
<1>6. /\ Coming(db, c, << >>, << >>, Owned(db, c), FALSE)
      /\ Once(db, c, << >>, << >>, {}) /\ NoneTwice(<< >>, {})
  BY OwnedFinite, WalkBegins DEF WalkInv, PageInv
<1>7. call'[t] = n /\ walk'[t] = w
      /\ \A p \in Threads \ {t} : call'[p] = call[p] /\ walk'[p] = walk[p]
  BY <1>2, <1>3 DEF WalkInv, PageInv, PagesTyped
<1> HIDE DEF n, w
<1>8. Ended(n, w) = FALSE
  BY <1>4 DEF Ended
<1>9. WalkOK(db, n, w)
  <2>1. Len(<< >>) = 0
    OBVIOUS
  <2> QED
    BY <1>4, <1>5, <1>6, <1>8, <2>1 DEF WalkOK
<1>10. PageInv'
  BY OpenKeeps DEF WalkInv
<1> QED
  BY <1>3, <1>7, <1>9, <1>10, WalkStep

LEMMA NextPageWalks ==
    ASSUME WalkInv, NEW t \in Threads, NextPage(t) PROVE WalkInv'
<1> DEFINE l == ParseLimitOffset([limit |-> walk[t].limit,
                                  offset |-> Len(walk[t].got)]).limit
           n == [at |-> "selPage", cust |-> walk[t].cust, limit |-> l,
                 offset |-> Len(walk[t].got), page |-> << >>]
           w == walk[t]
<1>1. PageInv' /\ walk[t] \in Walk /\ n \in ListCall /\ call' = [call EXCEPT ![t] = n]
  BY NextPageKeeps DEF WalkInv
<1>2. db' = db /\ walk' = walk /\ w.on /\ ~w.done /\ call[t].at = "idle"
  BY DEF NextPage, At
<1>3. call[t] = Idle
  BY <1>2, CallIs DEF WalkInv, PageInv
<1>4. WalkOK(db, Idle, w)
  BY <1>3 DEF WalkInv
<1> HIDE DEF l
<1>5. /\ n # Idle /\ n.at = "selPage" /\ n.cust = w.cust /\ n.offset = Len(w.got)
      /\ n.page = << >>
  BY DEF Idle
<1>6. call'[t] = n /\ \A p \in Threads \ {t} : call'[p] = call[p]
  BY <1>1 DEF WalkInv, PageInv, PagesTyped
<1> HIDE DEF n
<1>7. OnPage(n) = << >> /\ OnPage(Idle) = << >>
  BY <1>5 DEF OnPage, UidsOf
<1>8. ~Ended(n, w)
  BY <1>2, <1>5 DEF Ended
<1>9. WalkOK(db, n, w)
  BY <1>2, <1>4, <1>5, <1>7, <1>8 DEF WalkOK, Coming
<1> QED
  BY <1>1, <1>2, <1>6, <1>9, WalkStep

LEMMA SelectPageWalks ==
    ASSUME WalkInv, NEW t \in Threads, SelectPage(t) PROVE WalkInv'
<1> DEFINE c == call[t]
           w == walk[t]
<1>1. c \in ListCall /\ c # Idle /\ c.at = "selPage"
  BY CallIs DEF SelectPage, At, Listings, Idle, WalkInv, PageInv
<1>2. /\ w \in Walk /\ w.on /\ ~w.done
      /\ c.cust = w.cust /\ c.offset = Len(w.got) /\ w.got \in Seq(UIDs)
      /\ OnPage(c) = UidsOf(c.page)
      /\ Coming(db, w.cust, w.got, OnPage(c), w.must, Ended(c, w))
      /\ Once(db, w.cust, w.got, OnPage(c), w.mayRepeat)
      /\ NoneTwice(w.got, w.mayRepeat)
  BY <1>1, WalkIs
<1>3. OnPage(c) = << >>
  <2>1. c.page = << >>
    BY <1>1 DEF WalkInv, PageInv, PageOK
  <2> QED
    BY <1>2, <2>1 DEF UidsOf
<1>4. PICK uids \in Seq(Owned(db, c.cust)), page \in Seq(PageRow),
           l \in {"listed", "selPayments"} :
              /\ IsPage(db, c.cust, c.limit, c.offset, uids)
              /\ Len(page) = Len(uids)
              /\ \A i \in 1 .. Len(uids) : page[i] = BaseRow(uids[i])
              /\ page = << >> <=> uids = << >>
              /\ Fill(t, page, l)
  BY SelectPageIs DEF WalkInv
<1>5. uids \in Seq(UIDs) /\ Len(uids) \in Nat /\ DOMAIN uids = 1 .. Len(uids)
      /\ uids = [i \in 1 .. Len(uids) |-> uids[i]]
  <2>1. Len(uids) \in Nat /\ uids \in [1 .. Len(uids) -> Owned(db, c.cust)]
    BY <1>4, LenProperties
  <2>2. uids \in [1 .. Len(uids) -> UIDs]
    BY <2>1 DEF Owned
  <2> QED
    BY <2>1, <2>2
<1>6. UidsOf(page) = uids
  <2>1. \A u : BaseRow(u).uid = u
    BY DEF BaseRow
  <2>2. \A i \in 1 .. Len(uids) : page[i] = BaseRow(uids[i])
    BY <1>4
  <2>3. \A i \in 1 .. Len(uids) : page[i].uid = uids[i]
    BY <2>1, <2>2
  <2>4. DOMAIN page = 1 .. Len(uids)
    BY <1>4, LenProperties
  <2> QED
    BY <1>5, <2>3, <2>4 DEF UidsOf
<1> DEFINE n == [at |-> l, cust |-> c.cust, limit |-> c.limit,
                 offset |-> c.offset, page |-> page]
<1>7. n \in ListCall /\ call' = [call EXCEPT ![t] = n]
  <2>1. l \in Listings \cup {"listed", "listErr"}
    BY DEF Listings
  <2> QED
    BY <1>1, <1>4, <2>1, FillIs DEF WalkInv, PageInv
<1>8. call'[t] = n /\ db' = db /\ walk' = walk
      /\ \A p \in Threads \ {t} : call'[p] = call[p]
  BY <1>4, <1>7 DEF Fill, WalkInv, PageInv, PagesTyped
<1>9. n # Idle /\ n.cust = c.cust /\ n.offset = c.offset /\ n.page = page
  BY DEF Idle
<1> HIDE DEF n, c, w
<1>10. OnPage(n) = uids
  BY <1>6, <1>9 DEF OnPage
<1>11. /\ Coming(db, w.cust, w.got, uids, w.must, Ended(c, w) \/ uids = << >>)
       /\ Once(db, w.cust, w.got, uids, w.mayRepeat)
  <2>1. IsPage(db, w.cust, c.limit, Len(w.got), uids)
    BY <1>2, <1>4
  <2>2. db \in Rows /\ IsFiniteSet(Owned(db, w.cust))
    BY OwnedFinite DEF WalkInv, PageInv
  <2>3. /\ Coming(db, w.cust, w.got, << >>, w.must, Ended(c, w))
        /\ Once(db, w.cust, w.got, << >>, w.mayRepeat)
    BY <1>2, <1>3
  <2> QED
    BY <1>2, <1>5, <2>1, <2>2, <2>3, WalkGetsPage
<1>12. Ended(n, w) => uids = << >>
  BY <1>2, <1>10 DEF Ended
<1>13. WalkOK(db, n, w)
  BY <1>2, <1>9, <1>10, <1>11, <1>12 DEF WalkOK, Coming
<1>14. PageInv'
  BY SelectPageKeeps DEF WalkInv
<1> QED
  BY <1>8, <1>13, <1>14, WalkStep DEF n, w

LEMMA ListFailsWalks ==
    ASSUME WalkInv, NEW t \in Threads, ListFails(t) PROVE WalkInv'
<1> DEFINE c == call[t]
           w == walk[t]
           n == [at |-> "listErr", cust |-> c.cust, limit |-> c.limit,
                 offset |-> c.offset, page |-> << >>]
<1>1. c \in ListCall /\ c # Idle
  BY CallIs DEF ListFails, Idle, Listings, WalkInv, PageInv
<1>2. /\ w \in Walk /\ w.on /\ ~w.done
      /\ c.cust = w.cust /\ c.offset = Len(w.got) /\ w.got \in Seq(UIDs)
      /\ Coming(db, w.cust, w.got, OnPage(c), w.must, Ended(c, w))
      /\ Once(db, w.cust, w.got, OnPage(c), w.mayRepeat)
      /\ NoneTwice(w.got, w.mayRepeat)
  BY <1>1, WalkIs
<1>3. n \in ListCall /\ call' = [call EXCEPT ![t] = n]
  BY <1>1, EmptySeq, FillIs DEF ListFails, WalkInv, PageInv
<1>4. call'[t] = n /\ db' = db /\ walk' = walk
      /\ \A p \in Threads \ {t} : call'[p] = call[p]
  BY <1>3 DEF ListFails, Fill, WalkInv, PageInv, PagesTyped
<1>5. n # Idle /\ n.cust = c.cust /\ n.offset = c.offset /\ n.page = << >>
      /\ n.at = "listErr"
  BY DEF Idle
<1>6. \A u \in w.must : Rank(db, w.cust, u) \in Int
  <2>1. \A u \in w.must : u \in Owned(db, w.cust)
    BY <1>2 DEF Coming
  <2> QED
    BY <2>1, OwnedFinite, RankOrder DEF WalkInv, PageInv
<1>7. Len(w.got) \in Nat
  BY <1>2, LenProperties
<1> HIDE DEF n, c, w
<1>8. OnPage(n) = << >> /\ ~Ended(n, w)
  BY <1>2, <1>5 DEF OnPage, UidsOf, Ended
<1>9. /\ Coming(db, w.cust, w.got, << >>, w.must, FALSE)
      /\ Once(db, w.cust, w.got, << >>, w.mayRepeat)
  BY <1>2, <1>6, <1>7, WalkLosesPage
<1>10. WalkOK(db, n, w)
  BY <1>2, <1>5, <1>8, <1>9 DEF WalkOK, Coming
<1>11. PageInv'
  BY ListFailsKeeps DEF WalkInv
<1> QED
  BY <1>4, <1>10, <1>11, WalkStep DEF n, w

LEMMA TakePageWalks ==
    ASSUME WalkInv, NEW t \in Threads, TakePage(t) PROVE WalkInv'
<1> DEFINE c == call[t]
           w == walk[t]
           n == walk'[t]
           uids == UidsOf(c.page)
<1>1. c \in ListCall /\ c # Idle /\ c.at = "listed"
  BY CallIs DEF TakePage, At, Idle, WalkInv, PageInv
<1>2. /\ w \in Walk /\ w.on /\ ~w.done
      /\ c.cust = w.cust /\ w.got \in Seq(UIDs) /\ c.page \in Seq(PageRow)
      /\ OnPage(c) = uids
      /\ Coming(db, w.cust, w.got, OnPage(c), w.must, Ended(c, w))
      /\ Once(db, w.cust, w.got, OnPage(c), w.mayRepeat)
      /\ NoneTwice(w.got, w.mayRepeat)
  BY <1>1, WalkIs
<1>3. /\ uids \in Seq(UIDs) /\ Len(uids) = Len(c.page) /\ DOMAIN c.page = 1 .. Len(c.page)
      /\ \A i \in 1 .. Len(c.page) : uids[i] = c.page[i].uid
  BY <1>2, UidsIs
<1>4. uids = << >> <=> c.page = << >>
  <2>1. uids = << >> <=> Len(uids) = 0
    BY <1>3, EmptySeq
  <2>2. c.page = << >> <=> Len(c.page) = 0
    BY <1>2, EmptySeq
  <2> QED
    BY <1>3, <2>1, <2>2
<1>5. \A i, j \in DOMAIN uids : i < j => uids[i] # uids[j]
  <2>1. Sorted(c.page)
    BY <1>1 DEF WalkInv, PageInv, PageOK
  <2>2. DOMAIN uids = DOMAIN c.page
    BY <1>3, LenProperties
  <2> QED
    BY <1>3, <2>1, <2>2 DEF Sorted
<1>6. /\ db' = db /\ call'[t] = Idle
      /\ \A p \in Threads \ {t} : call'[p] = call[p] /\ walk'[p] = walk[p]
      /\ n = [w EXCEPT !.got = @ \o uids, !.done = (c.page = << >>)]
  BY DEF TakePage, WalkInv, PageInv, PagesTyped, UidsOf
<1>7. /\ n.on = w.on /\ n.cust = w.cust /\ n.must = w.must
      /\ n.mayRepeat = w.mayRepeat /\ n.got = w.got \o uids
      /\ n.done <=> uids = << >>
  BY <1>2, <1>4, <1>6 DEF Walk
<1>8. Ended(c, w) <=> uids = << >>
  BY <1>1, <1>2 DEF Ended
<1> HIDE DEF c, w, n, uids
<1>9. /\ Coming(db, w.cust, w.got \o uids, << >>, w.must, uids = << >>)
      /\ Once(db, w.cust, w.got \o uids, << >>, w.mayRepeat)
      /\ NoneTwice(w.got \o uids, w.mayRepeat)
  <2>1. db \in Rows /\ IsFiniteSet(Owned(db, w.cust))
    BY OwnedFinite DEF WalkInv, PageInv
  <2>2. Coming(db, w.cust, w.got, uids, w.must, uids = << >>)
    BY <1>2, <1>8 DEF Coming
  <2> QED
    BY <1>2, <1>3, <1>5, <2>1, <2>2, WalkTakesPage
<1>10. WalkOK(db, Idle, n)
  <2>1. OnPage(Idle) = << >> /\ (Ended(Idle, n) <=> uids = << >>)
    BY <1>7 DEF OnPage, Ended, Idle
  <2> QED
    BY <1>7, <1>9, <2>1 DEF WalkOK, Coming
<1>11. PageInv'
  BY TakeKeeps DEF WalkInv
<1> QED
  BY <1>6, <1>10, <1>11, WalkStep DEF n

LEMMA TakeErrWalks ==
    ASSUME WalkInv, NEW t \in Threads, TakeErr(t) PROVE WalkInv'
<1> DEFINE c == call[t]
           w == walk[t]
<1>1. c \in ListCall /\ c # Idle /\ c.at = "listErr"
  BY CallIs DEF TakeErr, At, Idle, WalkInv, PageInv
<1>2. /\ w.on /\ ~w.done /\ OnPage(c) = UidsOf(c.page)
      /\ Coming(db, w.cust, w.got, OnPage(c), w.must, Ended(c, w))
      /\ Once(db, w.cust, w.got, OnPage(c), w.mayRepeat)
      /\ NoneTwice(w.got, w.mayRepeat)
  BY <1>1, WalkIs
<1>3. OnPage(c) = << >>
  <2>1. c.page = << >>
    BY <1>1 DEF WalkInv, PageInv, PageOK
  <2> QED
    BY <1>2, <2>1 DEF UidsOf
<1>4. /\ db' = db /\ walk' = walk /\ call'[t] = Idle
      /\ \A p \in Threads \ {t} : call'[p] = call[p]
  BY DEF TakeErr, WalkInv, PageInv, PagesTyped
<1> HIDE DEF c, w
<1>5. OnPage(Idle) = << >> /\ ~Ended(Idle, w)
  BY <1>2 DEF OnPage, Ended, Idle
<1>6. WalkOK(db, Idle, w)
  BY <1>2, <1>3, <1>5 DEF WalkOK, Coming
<1>7. PageInv'
  BY TakeKeeps DEF WalkInv
<1> QED
  BY <1>4, <1>6, <1>7, WalkStep DEF w

LEMMA LeaveWalks == ASSUME WalkInv, NEW t \in Threads, Leave(t) PROVE WalkInv'
<1>1. call[t] = Idle
  BY CallIs DEF Leave, At, WalkInv, PageInv
<1>2. /\ db' = db /\ call' = call /\ walk'[t] = NoWalk
      /\ \A p \in Threads \ {t} : walk'[p] = walk[p]
  BY DEF Leave, WalkInv, PageInv, PagesTyped
<1>3. WalkOK(db, Idle, NoWalk)
  BY DEF WalkOK, NoWalk
<1>4. PageInv'
  BY TakeKeeps DEF WalkInv
<1> QED
  BY <1>1, <1>2, <1>3, <1>4, WalkStep

LEMMA SaveCommitsWalks ==
    ASSUME WalkInv, NEW u \in UIDs, NEW c \in Customers, NEW r \in Revs,
           SaveCommits(u, Whole(c, TranOf[u], r))
    PROVE  WalkInv'
<1> DEFINE o == Whole(c, TranOf[u], r)
<1>1. /\ PageInv /\ PageInv' /\ SaveCommits(u, o)
      /\ db \in Rows /\ db' \in Rows /\ db'[u] \in Row
      /\ \A k \in UIDs \ {u} : db'[k] = db[k]
  BY SaveCommitsKeeps, SaveDb DEF WalkInv
<1> HIDE DEF o
<1>2. \A k \in UIDs : db[k] # Absent => db'[k] # Absent
  <2>1. db'[u] # Absent
    BY <1>1, RowNotAbsent
  <2> QED
    BY <1>1, <2>1
<1>3. \A k : IsFiniteSet(Owned(db, k)) /\ IsFiniteSet(Owned(db', k))
  <2>1. \A k : IsFiniteSet(Owned(db, k))
    BY <1>1, OwnedFinite DEF PageInv
  <2>2. \A k : Owned(db', k) \in SUBSET {w \in UIDs : db'[w] # Absent}
    BY DEF Owned
  <2>3. IsFiniteSet({w \in UIDs : db'[w] # Absent})
    BY SaveDb DEF WalkInv
  <2> QED
    BY <2>1, <2>2, <2>3, FS_Subset
<1>4. ASSUME NEW t \in Threads PROVE WalkOK(db', call'[t], walk'[t])
  <2> DEFINE w == walk[t]
             n == walk'[t]
             k == w.cust
             m == w.must \ (Gone(db', k) \cup Slid(db', k))
             y == w.mayRepeat \cup Gone(db', k) \cup Pushed(db', k)
  <2>1. WalkOK(db, call[t], w)
    BY DEF WalkInv
  <2>2. /\ w = NoWalk => n = NoWalk
        /\ w # NoWalk => w \in Walk /\ Remembers(n, w, m, y)
    BY <1>1, SaveWalks
  <2>3. /\ call'[t] = Idle <=> call[t] = Idle
        /\ call[t] # Idle => /\ call'[t].at = call[t].at /\ call'[t].cust = call[t].cust
                             /\ call'[t].offset = call[t].offset
    BY <1>1, SaveSees
  <2>4. OnPage(call'[t]) = OnPage(call[t]) /\ OnPage(call[t]) \in Seq(UIDs)
    <3>1. CASE call[t] = Idle
      BY <2>3, <3>1, EmptySeq DEF OnPage
    <3>2. CASE call[t] # Idle
      <4>1. /\ DOMAIN call[t].page = 1 .. Len(call[t].page)
            /\ DOMAIN call'[t].page = 1 .. Len(call[t].page)
            /\ \A i \in 1 .. Len(call[t].page) : call'[t].page[i].uid = call[t].page[i].uid
        BY <1>1, <3>2, SaveSees
      <4>2. UidsOf(call'[t].page) = UidsOf(call[t].page)
        BY <4>1 DEF UidsOf
      <4>3. call[t].page \in Seq(PageRow)
        BY <3>2, CallIs DEF ListCall, WalkInv, PageInv
      <4>4. UidsOf(call[t].page) \in Seq(UIDs)
        BY <4>3, UidsIs
      <4> QED
        BY <2>3, <3>2, <4>2, <4>4 DEF OnPage
    <3> QED
      BY <3>1, <3>2
  <2>5. CASE w = NoWalk
    <3>1. ~w.on /\ n = NoWalk /\ call[t] = Idle
      BY <2>1, <2>2, <2>5 DEF NoWalk, WalkOK
    <3> QED
      BY <2>3, <3>1 DEF NoWalk, WalkOK
  <2>6. CASE w # NoWalk
    <3>1. /\ w \in Walk /\ n.must = m /\ n.mayRepeat = y
          /\ n.cust = k /\ n.got = w.got /\ n.on = w.on /\ n.done = w.done
      BY <2>2, <2>6 DEF Remembers
    <3>2. w.on /\ w.got \in Seq(UIDs)
      BY <3>1 DEF Walk
    <3> DEFINE e == Ended(call[t], w)
    <3>3. /\ Coming(db, k, w.got, OnPage(call[t]), w.must, e)
          /\ Once(db, k, w.got, OnPage(call[t]), w.mayRepeat)
          /\ NoneTwice(w.got, w.mayRepeat)
      BY <2>1, <3>2 DEF WalkOK
    <3>4. Ended(call'[t], n) <=> e
      <4>1. call[t] = Idle => call'[t].at = call[t].at
        BY <2>3
      <4> QED
        BY <2>3, <2>4, <3>1, <4>1 DEF Ended
    <3> HIDE DEF e
    <3>5. /\ Coming(db', k, w.got, OnPage(call[t]), m, e)
          /\ Once(db', k, w.got, OnPage(call[t]), y)
          /\ NoneTwice(w.got, y)
      BY <1>1, <1>2, <1>3, <2>4, <3>2, <3>3, WalkSeesSave
    <3> HIDE DEF w, n, k, m, y
    <3>6. Coming(db', k, w.got, OnPage(call[t]), m, Ended(call'[t], n))
      BY <3>4, <3>5 DEF Coming
    <3> QED
      BY <2>1, <2>3, <2>4, <3>1, <3>5, <3>6 DEF WalkOK, n, k
  <2> QED
    BY <2>5, <2>6
<1> QED
  BY <1>1, <1>4 DEF WalkInv
-----------------------------------------------------------------------------
LEMMA InitWalkInv == PInit => WalkInv
<1> SUFFICES ASSUME PInit PROVE WalkInv
  OBVIOUS
<1>1. WalkOK(db, Idle, NoWalk)
  BY DEF WalkOK, NoWalk
<1>2. \A t \in Threads : call[t] = Idle /\ walk[t] = NoWalk
  BY DEF PInit, Init
<1> QED
  BY <1>1, <1>2, InitPageInv DEF WalkInv

LEMMA NextWalkInv == FromStart /\ WalkInv /\ [PNext]_pvars => WalkInv'
<1> SUFFICES ASSUME FromStart, WalkInv, [PNext]_pvars PROVE WalkInv'
  OBVIOUS
<1>1. ASSUME NEW u \in UIDs, NEW c \in Customers, NEW r \in Revs,
             SaveCommits(u, Whole(c, TranOf[u], r))
      PROVE  WalkInv'
  BY <1>1, SaveCommitsWalks
<1>2. ASSUME NEW t \in Threads, NEW c \in Customers, NEW q \in Queries, Open(t, c, q)
      PROVE  WalkInv'
  BY <1>2, OpenWalks
<1>3. ASSUME NEW t \in Threads, NextPage(t) PROVE WalkInv'
  BY <1>3, NextPageWalks
<1>4. ASSUME NEW t \in Threads, ListWork(t) PROVE WalkInv'
  <2>1. CASE SelectPage(t)
    BY <2>1, SelectPageWalks
  <2>2. CASE SelectPayments(t) \/ SelectDeliveries(t) \/ SelectPageItems(t)
    <3>1. PageInv' /\ Glued(t)
      BY <2>2, SelectPaymentsKeeps, SelectDeliveriesKeeps, SelectPageItemsKeeps DEF WalkInv
    <3> QED
      BY <3>1, GluedWalk
  <2> QED
    BY <1>4, <2>1, <2>2 DEF ListWork
<1>5. ASSUME NEW t \in Threads, ListFails(t) \/ TakePage(t) \/ TakeErr(t) \/ Leave(t)
      PROVE  WalkInv'
  BY <1>5, ListFailsWalks, TakePageWalks, TakeErrWalks, LeaveWalks
<1>6. CASE UNCHANGED pvars
  <2>1. db' = db /\ call' = call /\ walk' = walk
    BY <1>6 DEF pvars, rvars
  <2>2. PageInv'
    BY NextPageInv DEF WalkInv
  <2> QED
    BY <2>1, <2>2 DEF WalkInv
<1> QED
  BY <1>1, <1>2, <1>3, <1>4, <1>5, <1>6 DEF PNext

LEMMA WalkInvariance == ASSUME FromStart PROVE PSpec => []WalkInv
<1>1. PInit => WalkInv
  BY InitWalkInv
<1>2. WalkInv /\ [PNext]_pvars => WalkInv'
  BY NextWalkInv
<1> QED
  BY <1>1, <1>2, PTL DEF PSpec
-----------------------------------------------------------------------------
(* The theorems.                                                           *)

\* Types, and no call reads more rows than the handler's upper bound, whatever
\* the query says.
THEOREM PageTypes == PSpec => []PTypeOK
<1>1. PageInv => PTypeOK
  <2> SUFFICES ASSUME PageInv PROVE PTypeOK
    OBVIOUS
  <2>1. db \in [UIDs -> Row \cup {Absent}] /\ custs \subseteq Customers
    BY DEF PageInv, PagesTyped
  <2>2. ASSUME NEW t \in Threads, call[t] # Idle
        PROVE  /\ call[t].at \in Listings \cup {"listed", "listErr"}
               /\ call[t].cust \in Customers
               /\ call[t].limit \in 1 .. maxLimit
               /\ call[t].offset \in Nat
               /\ call[t].page \in Seq(PageRow)
               /\ Len(call[t].page) <= call[t].limit
    <3>1. call[t] \in ListCall /\ PageOK(call[t])
      BY <2>2, CallIs DEF PageInv
    <3> QED
      BY <3>1 DEF ListCall, PageOK
  <2>3. ASSUME NEW t \in Threads, walk[t].on
        PROVE  /\ walk[t].got \in Seq(UIDs)
               /\ walk[t].must \cup walk[t].mayRepeat \subseteq UIDs
    <3>1. walk[t] \in Walk
      BY <2>3 DEF PageInv, PagesTyped, NoWalk
    <3> QED
      BY <3>1 DEF Walk
  <2> QED
    BY <2>1, <2>2, <2>3 DEF PTypeOK
<1> QED
  BY <1>1, PageInvariance, PTL

\* A page that is answered is sorted and holds each order once: the rows that
\* ListByCustomer glues by order_uid keep the order of the first query.
THEOREM PagesSorted == PSpec => []PageInOrder
<1>1. PageInv => PageInOrder
  BY CallIs DEF PageInv, PageOK, Sorted, PageInOrder, At, Idle
<1> QED
  BY <1>1, PageInvariance, PTL

\* Every part of every row of a page was committed for that order between the
\* first query and the answer, however many Saves commit between the queries.
THEOREM PagesCommitted == PSpec => []PageIsCommitted
<1>1. PageInv => PageIsCommitted
  <2> SUFFICES ASSUME PageInv, NEW t \in Threads, At(t, "listed"),
                      NEW i \in DOMAIN call[t].page, NEW part \in DOMAIN Absent
               PROVE  \E v \in call[t].page[i].seen :
                         call[t].page[i].order[part] = v[part]
    BY DEF PageIsCommitted
  <2>1. call[t] # Idle /\ call[t].at = "listed"
    BY DEF At, Idle
  <2>2. RowOK(call[t].page[i], "listed")
    BY <2>1 DEF PageInv, PageOK
  <2> QED
    BY <2>2 DEF RowOK, PartsListed
<1> QED
  BY <1>1, PageInvariance, PTL

\* A client that begins at the first row and walks behind the rows it has, until
\* a page is empty, has been shown every order that stayed the customer's and
\* never lost one in front of it: limit and offset skip nothing.
THEOREM NoneMissed == ASSUME FromStart PROVE PSpec => []NothingMissed
<1>1. WalkInv => NothingMissed
  <2> SUFFICES ASSUME WalkInv, NEW t \in Threads, walk[t].on, walk[t].done,
                      NEW u \in walk[t].must
               PROVE  \E i \in DOMAIN walk[t].got : walk[t].got[i] = u
    BY DEF NothingMissed
  <2>1. WalkOK(db, call[t], walk[t])
    BY DEF WalkInv
  <2> QED
    BY <2>1 DEF WalkOK, Coming, Ended, Shows
<1>2. PSpec => []WalkInv
  BY WalkInvariance
<1> QED
  BY <1>1, <1>2, PTL

\* The same client is shown an order twice only if another one got in front of
\* it, or it went to another customer, during the walk.
THEOREM NoneTwiceShown == ASSUME FromStart PROVE PSpec => []NothingTwice
<1>1. WalkInv => NothingTwice
  BY DEF WalkInv, WalkOK, NoneTwice, NothingTwice
<1>2. PSpec => []WalkInv
  BY WalkInvariance
<1> QED
  BY <1>1, <1>2, PTL
=============================================================================
