-------------------------- MODULE ScanReportsProofs --------------------------
(***************************************************************************)
(* What a scan visits and what it reports, for any number of processes,    *)
(* runs and repositories, pages of any size and budgets of any value.      *)
(* CursorInv relates the cursor and the page of a process to what it owes. *)
(* TablesInv says what the counters of a process that is still at work     *)
(* tell of the rows it has written so far: only its owner writes rows for  *)
(* a run, and it meets each repository once.                               *)
(***************************************************************************)
EXTENDS ScanRunProofs, FiniteSetTheorems, WellFoundedInduction

InPage == {"visit", "match", "flag"}

\* The fields of a process that decide what it visits and counts.
Alike(p, q) ==
    /\ p.pc = q.pc /\ p.run = q.run /\ p.budget = q.budget /\ p.dry = q.dry
    /\ p.last = q.last /\ p.page = q.page /\ p.repo = q.repo /\ p.count = q.count

\* The cursor of a process q that owes the repositories of o: it has passed none
\* of them, and those a page leaves out are behind the page; a budget covers what
\* was scanned and the rest of the page.
Cursor(q, o) ==
    /\ q.pc = "start" => q.last = 0 /\ q.count = Zero /\ q.page = {}
    /\ \A row \in q.page : row.id > q.last
    /\ \A row, other \in q.page : row.id = other.id => row = other
    /\ q.budget = 0 =>
           /\ q.pc \in Looping => \A p \in o : p > q.last
           /\ q.pc \in InPage => \A p \in o : \/ \E row \in q.page : row.id = p
                                              \/ \A row \in q.page : row.id < p
           /\ q.pc = "finish" => o = {}
    /\ q.budget > 0 =>
           /\ q.count.scanned <= q.budget
           /\ q.pc = "fetch" => q.count.scanned < q.budget
           /\ q.pc \in InPage => /\ IsFiniteSet(q.page)
                                 /\ q.count.scanned + Cardinality(q.page) <= q.budget

CursorInv ==
    /\ \A s \in Scanner : \A p \in owed[s] : kind[p] # "out"
    /\ \A s \in Scanner : Cursor(proc[s], owed[s])

\* The cursor does not depend on the rest of a process.
LEMMA CursorAlike ==
    ASSUME NEW p, NEW q, NEW o, Alike(p, q), Cursor(p, o)
    PROVE  Cursor(q, o)
BY DEF Alike, Cursor

\* Nor on what is no longer owed.
LEMMA CursorOwesLess ==
    ASSUME NEW q, NEW o, NEW less \in SUBSET o, Cursor(q, o)
    PROVE  Cursor(q, less)
BY DEF Cursor

\* What Goto leaves of a process.
LEMMA GotoAlike ==
    ASSUME proc \in [Scanner -> Proc], NEW s \in Scanner, NEW next \in Proc, Goto(s, next)
    PROVE  /\ Alike(next, proc'[s])
           /\ \A x \in Scanner \ {s} : proc'[x] = proc[x]
<1>1. proc'[s] = [next EXCEPT !.busy = 0]  BY DEF Goto
<1> QED  BY <1>1 DEF Goto, Proc, Alike

\* A process that only moves on, or ends, keeps its cursor.
LEMMA CursorMoves ==
    ASSUME LeaseInv, CursorInv, NEW s \in Scanner, NEW next \in Proc, Goto(s, next),
           owed' = owed, kind' = kind, Cursor(next, owed[s])
    PROVE  CursorInv'
<1>1. proc \in [Scanner -> Proc]  BY DEF LeaseInv, TypeOK
<1>2. /\ Alike(next, proc'[s])
      /\ \A x \in Scanner \ {s} : proc'[x] = proc[x]
  BY <1>1, GotoAlike
<1>3. Cursor(proc'[s], owed[s])  BY <1>2, CursorAlike
<1>4. \A x \in Scanner : Cursor(proc'[x], owed[x])  BY <1>2, <1>3 DEF CursorInv
<1> QED  BY <1>4 DEF CursorInv

\* A process at rest has no cursor.
LEMMA CursorIdle ==
    ASSUME NEW o
    PROVE  Cursor(Idle, o)
BY DEF Cursor, Idle, Zero, Looping, InPage

\* A scan that fails still knows how far it got.
LEMMA CursorFailing ==
    ASSUME NEW q \in Proc, NEW o, Cursor(q, o)
    PROVE  Cursor([q EXCEPT !.pc = "failing"], o)
BY DEF Cursor, Proc, Looping, InPage

\* A process that ends leaves no cursor behind.
LEMMA CursorStops ==
    ASSUME ScanAssumption, LeaseInv, CursorInv, NEW s \in Scanner, Stop(s), UNCHANGED <<owed, kind>>
    PROVE  CursorInv'
<1>1. /\ proc'[s] = Idle
      /\ \A x \in Scanner \ {s} : proc'[x] = proc[x]
  BY DEF LeaseInv, TypeOK, Stop
<1>2. \A x \in Scanner : Cursor(proc'[x], owed[x])  BY <1>1, CursorIdle DEF CursorInv
<1> QED  BY <1>2 DEF CursorInv

(***************************************************************************)
(* A page                                                                  *)
(***************************************************************************)
\* The repositories of S below q.
Below(S, q) == {x \in S : x < q}

\* Finitely many ids are below any id.
LEMMA BelowFinite ==
    ASSUME NEW S \in SUBSET Nat, NEW q \in Nat
    PROVE  IsFiniteSet(Below(S, q)) /\ Cardinality(Below(S, q)) \in Nat
<1>1. Below(S, q) \in SUBSET Nat  BY DEF Below
<1>2. ASSUME NEW x \in Below(S, q)  PROVE x <= q
  <2>1. x \in Nat /\ x < q  BY <1>2 DEF Below
  <2> QED  BY <2>1
<1> QED  BY <1>1, <1>2, FS_BoundedSetOfNaturals, FS_CardinalityType

\* Fewer of them are below a smaller one.
LEMMA BelowGrows ==
    ASSUME NEW S \in SUBSET Nat, NEW p \in S, NEW q \in Nat, p < q
    PROVE  Cardinality(Below(S, p)) < Cardinality(Below(S, q))
<1>1. p \in Nat  OBVIOUS
<1>2. /\ IsFiniteSet(Below(S, p)) /\ Cardinality(Below(S, p)) \in Nat
      /\ IsFiniteSet(Below(S, q)) /\ Cardinality(Below(S, q)) \in Nat
  BY <1>1, BelowFinite
<1>3. Below(S, p) \in SUBSET Below(S, q)
  <2>1. \A x \in S : x < p => x < q
    <3> TAKE x \in S
    <3>1. x \in Nat  OBVIOUS
    <3> QED  BY <1>1, <3>1
  <2> QED  BY <2>1 DEF Below
<1>4. p \in Below(S, q) /\ p \notin Below(S, p)  BY <1>1 DEF Below
<1> QED  BY <1>2, <1>3, <1>4, FS_Subset

\* A set of numbers that is not empty has a least one.
LEMMA LeastOf ==
    ASSUME NEW S \in SUBSET Nat, S # {}
    PROVE  \E p \in S : Below(S, p) = {}
<1> DEFINE R == OpToRel(<, Nat)
<1>1. PICK p \in S : \A y \in S : <<y, p>> \notin R
  BY NatLessThanWellFounded, WFMin
<1>2. \A y \in S : ~(y < p)  BY <1>1 DEF OpToRel
<1> QED  BY <1>2 DEF Below

\* The repositories in scope ahead of a cursor.
Ahead(last) == {p \in Repo : p > last /\ kind[p] # "out"}

\* The first n of a set of numbers are n at most.
LEMMA FirstAreFew ==
    ASSUME NEW S \in SUBSET Nat, NEW n \in Nat
    PROVE  LET F == {q \in S : Cardinality(Below(S, q)) < n}
           IN  IsFiniteSet(F) /\ Cardinality(F) \in Nat /\ Cardinality(F) <= n
<1> DEFINE F == {q \in S : Cardinality(Below(S, q)) < n}
           T == 0 .. (n - 1)
           f == [q \in F |-> Cardinality(Below(S, q))]
<1>1. \A q \in F : q \in Nat /\ Cardinality(Below(S, q)) \in T  BY BelowFinite
<1>2. f \in [F -> T]  BY <1>1
<1>3. ASSUME NEW p \in F, NEW q \in F, p # q  PROVE f[p] # f[q]
  <2>1. /\ p \in S /\ q \in S /\ p \in Nat /\ q \in Nat
        /\ Cardinality(Below(S, p)) \in Nat /\ Cardinality(Below(S, q)) \in Nat
    BY BelowFinite
  <2>2. p < q \/ q < p  BY <1>3, <2>1
  <2>3. Cardinality(Below(S, p)) # Cardinality(Below(S, q))
    BY <2>1, <2>2, BelowGrows
  <2> QED  BY <2>3
<1>4. f \in Injection(F, T)  BY <1>2, <1>3 DEF Injection, IsInjective
<1>5. IsFiniteSet(T) /\ Cardinality(T) = n  BY FS_Interval
<1> HIDE DEF F, T, f
<1>6. IsFiniteSet(F) /\ Cardinality(F) <= Cardinality(T)  BY <1>4, <1>5, FS_Injection
<1> QED  BY <1>5, <1>6, FS_CardinalityType DEF F

\* A row of a page stands for one repository ahead of the cursor.
LEMMA PageRows ==
    ASSUME ScanAssumption, NEW s \in Scanner
    PROVE  LET A == Ahead(proc[s].last)
               F == {q \in A : Cardinality(Below(A, q)) < PageSize(s)}
           IN  /\ A \in SUBSET Nat
               /\ NextPage(s) = {[id |-> p, kind |-> kind[p]] : p \in F}
BY DEF ScanAssumption, NextPage, Ahead, Below

\* fetch_repository_batch: the page has one row for each repository, all ahead of
\* the cursor; those in scope it leaves out are behind its last; and it is empty
\* only if none is left.
LEMMA PageIsFirst ==
    ASSUME ScanAssumption, NEW s \in Scanner, PageSize(s) \in Nat \ {0}, proc[s].last \in Nat
    PROVE  LET A == Ahead(proc[s].last)
           IN  /\ \A row \in NextPage(s) : row.id \in A
               /\ \A row, other \in NextPage(s) : row.id = other.id => row = other
               /\ \A p \in A : \/ \E row \in NextPage(s) : row.id = p
                               \/ \A row \in NextPage(s) : row.id < p
               /\ NextPage(s) = {} => A = {}
               /\ IsFiniteSet(NextPage(s))
               /\ Cardinality(NextPage(s)) \in Nat
               /\ Cardinality(NextPage(s)) <= PageSize(s)
<1> DEFINE n == PageSize(s)
           A == Ahead(proc[s].last)
           F == {q \in A : Cardinality(Below(A, q)) < n}
           N == NextPage(s)
           f == [row \in N |-> row.id]
<1>1. A \in SUBSET Nat /\ N = {[id |-> p, kind |-> kind[p]] : p \in F}  BY PageRows
<1>2. n \in Nat \ {0}  OBVIOUS
<1> HIDE DEF n, A, N
<1>3. IsFiniteSet(F) /\ Cardinality(F) \in Nat /\ Cardinality(F) <= n
  BY <1>1, <1>2, FirstAreFew
<1>4. \A row \in N : row.id \in F /\ row = [id |-> row.id, kind |-> kind[row.id]]
  BY <1>1
<1>5. \A row, other \in N : row.id = other.id => row = other  BY <1>4
<1>6. ASSUME NEW p \in A, NEW row \in N, ~(row.id < p)
      PROVE  \E other \in N : other.id = p
  <2>1. /\ row.id \in A /\ p \in Nat /\ row.id \in Nat
        /\ Cardinality(Below(A, row.id)) \in Nat /\ Cardinality(Below(A, p)) \in Nat
        /\ Cardinality(Below(A, row.id)) < n
    BY <1>1, <1>4, BelowFinite
  <2>2. p = row.id \/ p < row.id  BY <1>6, <2>1
  <2>3. p < row.id => Cardinality(Below(A, p)) < Cardinality(Below(A, row.id))
    BY <1>1, <2>1, BelowGrows
  <2>4. Cardinality(Below(A, p)) < n  BY <1>2, <2>1, <2>2, <2>3
  <2>5. p \in F  BY <2>4
  <2> HIDE DEF F
  <2>6. [id |-> p, kind |-> kind[p]] \in N  BY <1>1, <2>5
  <2>7. [id |-> p, kind |-> kind[p]].id = p  OBVIOUS
  <2> QED  BY <2>6, <2>7
<1>7. ASSUME A # {}  PROVE N # {}
  <2>1. PICK p \in A : Below(A, p) = {}  BY <1>1, <1>7, LeastOf
  <2>2. Cardinality(Below(A, p)) < n  BY <1>2, <2>1, FS_EmptySet
  <2>3. p \in F  BY <2>2
  <2> QED  BY <1>1, <2>3
<1>8. f \in Injection(N, F)  BY <1>4, <1>5 DEF Injection, IsInjective
<1> HIDE DEF f
<1>9. IsFiniteSet(N) /\ Cardinality(N) <= Cardinality(F)  BY <1>3, <1>8, FS_Injection
<1>10. Cardinality(N) \in Nat  BY <1>9, FS_CardinalityType
<1>11. Cardinality(N) <= n  BY <1>2, <1>3, <1>9, <1>10
<1>12. \A row \in N : row.id \in A  BY <1>4
<1> QED  BY <1>5, <1>6, <1>7, <1>9, <1>10, <1>11, <1>12 DEF n, A, N

(***************************************************************************)
(* The cursor through the loop                                             *)
(***************************************************************************)
\* A process that moves on and may pay what it owes keeps its cursor, and the others
\* keep theirs.
LEMMA CursorPays ==
    ASSUME LeaseInv, CursorInv, NEW s \in Scanner, NEW next \in Proc, Goto(s, next),
           NEW o \in SUBSET Repo, \A p \in o : kind[p] # "out", Cursor(next, o),
           owed' = [owed EXCEPT ![s] = o], kind' = kind
    PROVE  CursorInv'
<1>1. proc \in [Scanner -> Proc] /\ owed \in [Scanner -> SUBSET Repo]  BY DEF LeaseInv, TypeOK
<1>2. /\ Alike(next, proc'[s])
      /\ \A x \in Scanner \ {s} : proc'[x] = proc[x]
  BY <1>1, GotoAlike
<1>3. owed'[s] = o /\ \A x \in Scanner \ {s} : owed'[x] = owed[x]  BY <1>1
<1>4. Cursor(proc'[s], o)  BY <1>2, CursorAlike
<1>5. \A x \in Scanner : Cursor(proc'[x], owed'[x])  BY <1>2, <1>3, <1>4 DEF CursorInv
<1>6. \A x \in Scanner : \A p \in owed'[x] : kind[p] # "out"  BY <1>3 DEF CursorInv
<1> QED  BY <1>5, <1>6 DEF CursorInv

\* create_scan_run: nothing was visited yet.
LEMMA CursorBegins ==
    ASSUME ScanAssumption, LeaseInv, CursorInv, NEW s \in Scanner, Begins(s)
    PROVE  CursorInv'
<1>1. PICK budget \in Budgets, dry \in DryRuns : BeginScan(s, budget, dry)  BY DEF Begins
<1> DEFINE next == [Idle EXCEPT !.pc = "start", !.budget = budget, !.dry = dry]
<1>2. Idle \in Proc /\ budget \in Nat /\ dry \in BOOLEAN  BY IdleTyped DEF ScanAssumption
<1>3. next \in Proc  BY <1>2 DEF Proc
<1>4. Cursor(next, owed[s])  BY <1>2 DEF Cursor, Idle, Zero, Looping, InPage
<1>5. Goto(s, next) /\ owed' = owed /\ kind' = kind  BY <1>1 DEF BeginScan
<1> HIDE DEF next
<1> QED  BY <1>3, <1>4, <1>5, CursorMoves

\* create_scan_run: everything in scope is owed, and nothing is behind the cursor.
LEMMA CursorCreates ==
    ASSUME ScanAssumption, LeaseInv, CursorInv, NEW s \in Scanner, NEW r \in Run, CreateRun(s, r)
    PROVE  CursorInv'
<1> DEFINE o == {p \in Repo : kind[p] # "out"}
           next == [proc[s] EXCEPT !.pc = "top", !.run = r]
<1>1. proc[s] \in Proc /\ proc[s].pc = "start" /\ kind' = kind
  BY DEF LeaseInv, TypeOK, CreateRun
<1>2. Cursor(proc[s], owed[s])  BY DEF CursorInv
<1>3. proc[s].last = 0 /\ proc[s].count = Zero /\ proc[s].page = {}  BY <1>1, <1>2 DEF Cursor
<1>4. CASE owed' = [owed EXCEPT ![s] = o] /\ Goto(s, next)
  <2>1. next \in Proc  BY <1>1 DEF Proc, Looping
  <2>2. /\ next.pc = "top" /\ next.last = 0 /\ next.page = {} /\ next.count = Zero
        /\ next.budget = proc[s].budget /\ next.budget \in Nat
    BY <1>1, <1>3 DEF Proc
  <2>3. \A p \in o : p > 0  BY DEF ScanAssumption
  <2> HIDE DEF next, o
  <2>4. Cursor(next, o)  BY <2>2, <2>3 DEF Cursor, Zero, InPage
  <2>5. o \in SUBSET Repo /\ \A p \in o : kind[p] # "out"  BY DEF o
  <2> QED  BY <1>1, <1>4, <2>1, <2>4, <2>5, CursorPays
<1>5. CASE Stop(s) /\ owed' = owed  BY <1>1, <1>5, CursorStops
<1> QED  BY <1>4, <1>5 DEF CreateRun

\* A nap is no longer than what is left of the pause.
LEMMA NapBounded ==
    ASSUME ScanAssumption, NEW s \in Scanner, proc[s] \in Proc
    PROVE  proc[s].nap - Nap(s) \in Nat
<1>1. proc[s].nap \in Nat  BY DEF Proc
<1>2. HeartbeatInterval \in Nat
  <2>1. Timeout * Second \in Nat /\ 30 * Second \in Nat  BY DEF ScanAssumption
  <2>2. (Timeout * Second) \div 3 \in Nat  BY <2>1
  <2> QED  BY <2>1, <2>2, MinOfTwo DEF HeartbeatInterval
<1>3. Nap(s) \in Nat /\ Nap(s) <= proc[s].nap  BY <1>1, <1>2, MinOfTwo DEF Nap
<1> QED  BY <1>1, <1>3

\* heartbeat_scan_run between two pages or within a pause.
LEMMA CursorRenews ==
    ASSUME LeaseInv, CursorInv, NEW s \in Scanner, NEW next \in Proc, Renew(s, next),
           owed' = owed, Cursor(next, owed[s])
    PROVE  CursorInv'
<1>1. proc[s] \in Proc /\ Cursor(proc[s], owed[s]) /\ kind' = kind
  BY DEF LeaseInv, TypeOK, CursorInv, Renew
<1>2. [next EXCEPT !.since = 0] \in Proc /\ [proc[s] EXCEPT !.pc = "failing"] \in Proc
  BY <1>1 DEF Proc
<1>3. Alike(next, [next EXCEPT !.since = 0])  BY DEF Alike, Proc
<1>4. Cursor([next EXCEPT !.since = 0], owed[s])  BY <1>3, CursorAlike
<1>5. Cursor([proc[s] EXCEPT !.pc = "failing"], owed[s])  BY <1>1, CursorFailing
<1> QED  BY <1>1, <1>2, <1>4, <1>5, CursorMoves DEF Renew

\* The renewals between pages and in a pause leave the cursor where it is.
LEMMA CursorRenewals ==
    ASSUME ScanAssumption, LeaseInv, CursorInv, NEW s \in Scanner,
           RenewAtTop(s) \/ RenewAfterNap(s)
    PROVE  CursorInv'
<1>1. proc[s] \in Proc /\ Cursor(proc[s], owed[s]) /\ owed' = owed
  BY DEF LeaseInv, TypeOK, CursorInv, RenewAtTop, RenewAfterNap
<1>2. proc[s].pc \in {"top", "nap"}  BY DEF RenewAtTop, RenewAfterNap
<1>3. CASE RenewAtTop(s)
  <2> DEFINE next == [proc[s] EXCEPT
           !.pc = IF proc[s].budget # 0 /\ proc[s].budget <= proc[s].count.scanned
                  THEN "finish" ELSE "fetch"]
  <2>1. next \in Proc  BY <1>1 DEF Proc, Looping
  <2>2. proc[s].count.scanned \in Nat /\ proc[s].budget \in Nat  BY <1>1 DEF Proc, Count
  <2>3. Cursor(next, owed[s])  BY <1>1, <1>2, <2>2 DEF Cursor, Proc, Looping, InPage
  <2>4. Renew(s, next)  BY <1>3 DEF RenewAtTop
  <2> HIDE DEF next
  <2> QED  BY <1>1, <2>1, <2>3, <2>4, CursorRenews
<1>4. CASE RenewAfterNap(s)
  <2> DEFINE next == [proc[s] EXCEPT !.nap = @ - Nap(s),
                                !.pc = IF proc[s].nap > Nap(s) THEN "nap" ELSE "top"]
  <2>1. next \in Proc  BY <1>1, NapBounded DEF Proc, Looping
  <2>2. Cursor(next, owed[s])  BY <1>1, <1>2 DEF Cursor, Proc, Looping, InPage
  <2>3. Renew(s, next)  BY <1>4 DEF RenewAfterNap
  <2> HIDE DEF next
  <2> QED  BY <1>1, <2>1, <2>2, <2>3, CursorRenews
<1> QED  BY <1>3, <1>4

\* The size of a page is positive, and within the budget if there is one.
LEMMA PageSizePositive ==
    ASSUME ScanAssumption, NEW s \in Scanner, proc[s] \in Proc, proc[s].pc = "fetch",
           NEW o, Cursor(proc[s], o)
    PROVE  /\ PageSize(s) \in Nat \ {0}
           /\ proc[s].budget > 0 => proc[s].count.scanned + PageSize(s) <= proc[s].budget
<1>1. BatchSize \in Nat \ {0}  BY DEF ScanAssumption
<1>2. proc[s].budget \in Nat /\ proc[s].count.scanned \in Nat  BY DEF Proc, Count
<1>3. CASE proc[s].budget = 0  BY <1>1, <1>3 DEF PageSize
<1>4. CASE proc[s].budget > 0
  <2>1. proc[s].count.scanned < proc[s].budget  BY <1>4 DEF Cursor
  <2>2. Remaining(s) \in Nat \ {0} /\ proc[s].count.scanned + Remaining(s) = proc[s].budget
    BY <1>2, <2>1 DEF Remaining
  <2>3. PageSize(s) \in {BatchSize, Remaining(s)} /\ PageSize(s) <= Remaining(s)
    BY <1>1, <1>4, <2>2, MinOfTwo DEF PageSize
  <2> QED  BY <1>1, <1>2, <2>2, <2>3
<1> QED  BY <1>2, <1>3, <1>4

\* A page is a set of rows.
LEMMA PageTyped ==
    ASSUME NEW s \in Scanner, kind \in [Repo -> Kinds]
    PROVE  NextPage(s) \in SUBSET [id: Repo, kind: Kinds]
<1>1. \A row \in NextPage(s) : \E p \in Repo : row = [id |-> p, kind |-> kind[p]]
  BY DEF NextPage
<1> SUFFICES ASSUME NEW row \in NextPage(s)  PROVE row \in [id: Repo, kind: Kinds]  OBVIOUS
<1>2. PICK p \in Repo : row = [id |-> p, kind |-> kind[p]]  BY <1>1
<1> QED  BY <1>2

\* fetch_repository_batch.
LEMMA CursorFetches ==
    ASSUME ScanAssumption, LeaseInv, CursorInv, NEW s \in Scanner, Fetch(s)
    PROVE  CursorInv'
<1> DEFINE N == NextPage(s)
           A == Ahead(proc[s].last)
           next == [proc[s] EXCEPT !.page = N, !.pc = IF N = {} THEN "finish" ELSE "visit"]
<1>1. /\ proc[s] \in Proc /\ Cursor(proc[s], owed[s]) /\ proc[s].pc = "fetch"
      /\ owed' = owed /\ kind' = kind /\ Goto(s, next)
      /\ owed[s] \in SUBSET Repo /\ kind \in [Repo -> Kinds]
  BY DEF LeaseInv, TypeOK, CursorInv, Fetch
<1>2. /\ proc[s].last \in Nat /\ proc[s].budget \in Nat /\ proc[s].count.scanned \in Nat
  BY <1>1 DEF Proc, Count
<1>3. /\ PageSize(s) \in Nat \ {0}
      /\ proc[s].budget > 0 => proc[s].count.scanned + PageSize(s) <= proc[s].budget
  BY <1>1, PageSizePositive
<1>4. /\ \A row \in N : row.id \in A
      /\ \A row, other \in N : row.id = other.id => row = other
      /\ \A p \in A : (\E row \in N : row.id = p) \/ (\A row \in N : row.id < p)
      /\ N = {} => A = {}
      /\ IsFiniteSet(N) /\ Cardinality(N) \in Nat /\ Cardinality(N) <= PageSize(s)
  BY <1>2, <1>3, PageIsFirst
<1>5. N \in SUBSET [id: Repo, kind: Kinds]  BY <1>1, PageTyped
<1>6. next \in Proc  BY <1>1, <1>5 DEF Proc, Looping
<1>7. proc[s].budget = 0 => owed[s] \subseteq A
  <2>1. \A p \in owed[s] : kind[p] # "out"  BY DEF CursorInv
  <2>2. proc[s].budget = 0 => \A p \in owed[s] : p > proc[s].last
    BY <1>1 DEF Cursor, Looping
  <2> QED  BY <1>1, <2>1, <2>2 DEF Ahead
<1>8. /\ next.pc = IF N = {} THEN "finish" ELSE "visit"
      /\ next.page = N /\ next.last = proc[s].last /\ next.budget = proc[s].budget
      /\ next.count = proc[s].count
  BY <1>1 DEF Proc
<1>9. \A row \in N : row.id > proc[s].last  BY <1>4 DEF Ahead
<1>10. next.budget = 0 =>
           /\ \A p \in owed[s] : p > next.last
           /\ \A p \in owed[s] : (\E row \in N : row.id = p) \/ (\A row \in N : row.id < p)
           /\ next.pc = "finish" => owed[s] = {}
  <2>1. proc[s].budget = 0 => \A p \in owed[s] : p > proc[s].last
    BY <1>1 DEF Cursor, Looping
  <2> HIDE DEF N, A, next
  <2> QED  BY <1>4, <1>7, <1>8, <2>1
<1>11. next.budget > 0 =>
           /\ next.count.scanned <= next.budget
           /\ next.pc # "fetch"
           /\ next.count.scanned + Cardinality(N) <= next.budget
  <2>1. proc[s].budget > 0 => proc[s].count.scanned <= proc[s].budget  BY <1>1 DEF Cursor
  <2> HIDE DEF N, A, next
  <2> QED  BY <1>2, <1>3, <1>4, <1>8, <2>1
<1> HIDE DEF next, N, A
<1>12. next.pc # "start"  BY <1>8
<1>13. Cursor(next, owed[s])  BY <1>4, <1>8, <1>9, <1>10, <1>11, <1>12 DEF Cursor
<1> QED  BY <1>1, <1>6, <1>13, CursorMoves

\* One repository of the page: the cursor moves to it, and it is owed no more.
LEMMA CursorVisited ==
    ASSUME ScanAssumption, NEW s \in Scanner, proc \in [Scanner -> Proc],
           proc[s].pc = "visit", NEW o \in SUBSET Repo, Cursor(proc[s], o),
           NEW row \in proc[s].page, \A other \in proc[s].page : row.id <= other.id
    PROVE  Cursor(Visited(s, row), o \ {row.id})
<1> DEFINE next == Visited(s, row)
           q == proc[s]
           rest == q.page \ {row}
<1>1. /\ q \in Proc /\ q.page \in SUBSET [id: Repo, kind: Kinds] /\ Repo \subseteq Nat
      /\ q.count \in Count /\ q.budget \in Nat
  BY DEF Proc, ScanAssumption
<1>2. row.id \in Nat /\ \A other \in q.page : other.id \in Nat  BY <1>1
<1>3. /\ next.pc \in {"match", "visit"}
      /\ next.page = rest /\ next.last = row.id /\ next.budget = q.budget
      /\ next.count.scanned = q.count.scanned + 1
  BY <1>1 DEF Visited, Proc, Count
<1>4. \A other \in rest : other.id > row.id
  <2> TAKE other \in rest
  <2>1. other \in q.page /\ other # row  OBVIOUS
  <2>2. other.id # row.id  BY <2>1 DEF Cursor
  <2> QED  BY <1>2, <2>1, <2>2
<1>5. \A a, b \in rest : a.id = b.id => a = b  BY DEF Cursor
<1>6. ASSUME q.budget = 0, NEW p \in o \ {row.id}
      PROVE  /\ p > row.id
             /\ (\E other \in rest : other.id = p) \/ (\A other \in rest : other.id < p)
  <2>1. p \in Nat /\ p # row.id  BY <1>1
  <2>2. (\E other \in q.page : other.id = p) \/ (\A other \in q.page : other.id < p)
    BY <1>6 DEF Cursor, InPage
  <2>3. CASE \E other \in q.page : other.id = p
    <3>1. PICK other \in q.page : other.id = p  BY <2>3
    <3>2. other \in rest  BY <2>1, <3>1
    <3> QED  BY <1>4, <3>1, <3>2
  <2>4. CASE \A other \in q.page : other.id < p  BY <1>2, <2>1, <2>4
  <2> QED  BY <2>2, <2>3, <2>4
<1>7. ASSUME q.budget > 0
      PROVE  /\ IsFiniteSet(rest)
             /\ next.count.scanned + Cardinality(rest) <= next.budget
             /\ next.count.scanned <= next.budget
  <2>1. IsFiniteSet(q.page) /\ q.count.scanned + Cardinality(q.page) <= q.budget
    BY <1>7 DEF Cursor, InPage
  <2>2. /\ IsFiniteSet(rest) /\ Cardinality(rest) = Cardinality(q.page) - 1
        /\ Cardinality(rest) \in Nat /\ Cardinality(q.page) \in Nat
    BY <2>1, FS_RemoveElement, FS_CardinalityType
  <2>3. q.count.scanned \in Nat  BY <1>1 DEF Count
  <2> QED  BY <1>1, <1>3, <2>1, <2>2, <2>3
<1> HIDE DEF next, rest, q
<1> QED  BY <1>3, <1>4, <1>5, <1>6, <1>7 DEF Cursor, next

\* One repository of the page: it is behind the cursor, and no longer owed.
LEMMA CursorVisits ==
    ASSUME ScanAssumption, LeaseInv, CursorInv, NEW s \in Scanner,
           NEW row \in [id: Repo, kind: Kinds], Visit(s, row)
    PROVE  CursorInv'
<1> DEFINE o == owed[s] \ {row.id}
           next == Visited(s, row)
           failing == [proc[s] EXCEPT !.pc = "failing"]
<1>1. /\ proc \in [Scanner -> Proc] /\ owed \in [Scanner -> SUBSET Repo]
      /\ proc[s].pc = "visit" /\ Cursor(proc[s], owed[s]) /\ Repo \subseteq Nat
      /\ row \in proc[s].page /\ \A other \in proc[s].page : row.id <= other.id
      /\ kind' = kind
      /\ owed' = [owed EXCEPT ![s] = IF proc'[s].pc = "failing" THEN owed[s] ELSE o]
  BY DEF LeaseInv, TypeOK, CursorInv, Visit, Renew, ScanAssumption
<1>2. next \in Proc /\ next.pc \in {"match", "visit"}  BY <1>1, VisitedTyped
<1>3. Cursor(next, o)  BY <1>1, CursorVisited
<1>4. /\ o \in SUBSET Repo /\ \A p \in o : kind[p] # "out"
      /\ owed[s] \in SUBSET Repo /\ \A p \in owed[s] : kind[p] # "out"
  BY <1>1 DEF CursorInv
<1> HIDE DEF next, o
<1>5. CASE Goto(s, next) \/ Goto(s, [next EXCEPT !.since = 0])
  <2>1. PICK q \in {next, [next EXCEPT !.since = 0]} : Goto(s, q)  BY <1>5
  <2>2. q \in Proc /\ Alike(next, q)  BY <1>2, <2>1 DEF Proc, Alike
  <2>3. Alike(q, proc'[s])  BY <1>1, <2>1, <2>2, GotoAlike
  <2>4. owed' = [owed EXCEPT ![s] = o]  BY <1>1, <1>2, <2>2, <2>3 DEF Alike
  <2>5. Cursor(q, o)  BY <1>3, <2>2, CursorAlike
  <2> QED  BY <1>1, <1>4, <2>1, <2>2, <2>4, <2>5, CursorPays
<1>6. CASE Goto(s, failing)
  <2>1. failing \in Proc /\ failing.pc = "failing"  BY <1>1 DEF Proc
  <2>2. Cursor(failing, owed[s])  BY <1>1, CursorFailing
  <2> HIDE DEF failing
  <2>3. proc'[s].pc = "failing"  BY <1>1, <1>6, <2>1, GotoAlike DEF Alike
  <2>4. owed' = [owed EXCEPT ![s] = owed[s]]  BY <1>1, <2>3
  <2> QED  BY <1>1, <1>4, <1>6, <2>1, <2>2, <2>4, CursorPays
<1> QED  BY <1>5, <1>6 DEF Visit, Renew, next

\* The counters after a match (create_flagged_record); how many were scanned stays.
LEMMA CountedTyped ==
    ASSUME NEW count \in Count, NEW outcome \in Review
    PROVE  /\ Counted(count, outcome) \in Count
           /\ Counted(count, outcome).scanned = count.scanned
           /\ Counted(count, outcome).matched = count.matched
           /\ outcome = "free" => /\ Counted(count, outcome).flagged = count.flagged + 1
                                  /\ Counted(count, outcome).skipped = count.skipped
           /\ outcome = "open" => Counted(count, outcome) = count
           /\ outcome = "suppressed" => /\ Counted(count, outcome).flagged = count.flagged
                                        /\ Counted(count, outcome).skipped = count.skipped + 1
<1>1. CASE outcome = "free"
  <2>1. Counted(count, outcome) = [count EXCEPT !.flagged = @ + 1]  BY <1>1 DEF Counted
  <2> QED  BY <1>1, <2>1 DEF Count
<1>2. CASE outcome = "open"
  <2>1. Counted(count, outcome) = count  BY <1>2 DEF Counted
  <2> QED  BY <1>2, <2>1
<1>3. CASE outcome = "suppressed"
  <2>1. Counted(count, outcome) = [count EXCEPT !.skipped = @ + 1]  BY <1>3 DEF Counted
  <2> QED  BY <1>3, <2>1 DEF Count
<1> QED  BY <1>1, <1>2, <1>3 DEF Review

\* The writes of a match and the end of a page leave the cursor alone.
LEMMA CursorWrites ==
    ASSUME ScanAssumption, LeaseInv, CursorInv, NEW s \in Scanner,
           AddMatch(s) \/ FlagMatch(s) \/ EndPage(s)
    PROVE  CursorInv'
<1>1. /\ proc[s] \in Proc /\ Cursor(proc[s], owed[s]) /\ review \in [Repo -> Review]
      /\ owed' = owed /\ kind' = kind /\ proc[s].pc \in InPage
  BY DEF LeaseInv, TypeOK, CursorInv, AddMatch, FlagMatch, EndPage, InPage
<1>2. proc[s].count \in Count  BY <1>1 DEF Proc
<1>3. CASE AddMatch(s)
  <2> DEFINE next == [proc[s] EXCEPT !.pc = IF proc[s].dry THEN "visit" ELSE "flag"]
  <2>1. next \in Proc  BY <1>1 DEF Proc, Looping
  <2>2. Cursor(next, owed[s])  BY <1>1 DEF Cursor, Proc, Looping, InPage
  <2>3. Goto(s, next)  BY <1>3 DEF AddMatch
  <2> HIDE DEF next
  <2> QED  BY <1>1, <2>1, <2>2, <2>3, CursorMoves
<1>4. CASE FlagMatch(s)
  <2> DEFINE count == Counted(proc[s].count, review[proc[s].repo])
             next == [proc[s] EXCEPT !.pc = "visit", !.count = count]
  <2>1. proc[s].repo \in Repo  BY <1>4 DEF LeaseInv, InHand, FlagMatch
  <2>2. count \in Count /\ count.scanned = proc[s].count.scanned
    BY <1>1, <1>2, <2>1, CountedTyped
  <2>3. Goto(s, next)  BY <1>4 DEF FlagMatch
  <2> HIDE DEF count
  <2>4. next \in Proc  BY <1>1, <2>2 DEF Proc, Looping
  <2>5. Cursor(next, owed[s])  BY <1>1, <2>2 DEF Cursor, Proc, Looping, InPage
  <2> HIDE DEF next
  <2> QED  BY <1>1, <2>3, <2>4, <2>5, CursorMoves
<1>5. CASE EndPage(s)
  <2> DEFINE next == [proc[s] EXCEPT !.pc = IF Sleep > 0 THEN "nap" ELSE "top",
                                     !.nap = Sleep]
  <2>1. next \in Proc  BY <1>1 DEF Proc, Looping, ScanAssumption
  <2>2. Cursor(next, owed[s])  BY <1>1 DEF Cursor, Proc, Looping, InPage
  <2>3. Goto(s, next)  BY <1>5 DEF EndPage
  <2> HIDE DEF next
  <2> QED  BY <1>1, <2>1, <2>2, <2>3, CursorMoves
<1> QED  BY <1>3, <1>4, <1>5

\* A scan that ends or fails owes nothing that matters.
LEMMA CursorEnds ==
    ASSUME ScanAssumption, LeaseInv, CursorInv, NEW s \in Scanner,
           Complete(s) \/ Fail(s) \/ Raise(s) \/ Crash(s)
    PROVE  CursorInv'
<1> DEFINE failing == [proc[s] EXCEPT !.pc = "failing"]
<1>1. /\ proc[s] \in Proc /\ Cursor(proc[s], owed[s]) /\ UNCHANGED <<owed, kind>>
  BY DEF LeaseInv, TypeOK, CursorInv, Complete, Fail, Raise, Crash
<1>2. failing \in Proc  BY <1>1 DEF Proc
<1>3. Cursor(failing, owed[s])  BY <1>1, CursorFailing
<1>4. Goto(s, failing) \/ Stop(s)  BY DEF Complete, Fail, Raise, Crash
<1> HIDE DEF failing
<1> QED  BY <1>1, <1>2, <1>3, <1>4, CursorMoves, CursorStops

\* Repositories that leave the scope are owed no more.
LEMMA CursorWorld ==
    ASSUME LeaseInv, CursorInv, NEW p \in Repo,
           (\E k \in Kinds : RepositoryBecomes(p, k)) \/ Decide(p)
    PROVE  CursorInv'
<1>1. kind \in [Repo -> Kinds] /\ owed \in [Scanner -> SUBSET Repo]  BY DEF LeaseInv, TypeOK
<1>2. CASE Decide(p)  BY <1>2 DEF CursorInv, Decide
<1>3. ASSUME NEW k \in Kinds, RepositoryBecomes(p, k)  PROVE CursorInv'
  <2>1. /\ kind' = [kind EXCEPT ![p] = k] /\ proc' = proc
        /\ owed' = [s \in Scanner |-> IF k = "out" THEN owed[s] \ {p} ELSE owed[s]]
    BY <1>3 DEF RepositoryBecomes
  <2>2. \A s \in Scanner : owed'[s] \in SUBSET owed[s]  BY <2>1
  <2>3. \A s \in Scanner : Cursor(proc[s], owed'[s])  BY <2>2, CursorOwesLess DEF CursorInv
  <2>4. ASSUME NEW s \in Scanner, NEW q \in owed'[s]  PROVE kind'[q] # "out"
    <3>1. q \in owed[s] /\ q \in Repo /\ (q = p => k # "out")  BY <1>1, <2>1, <2>4
    <3>2. kind[q] # "out"  BY <3>1 DEF CursorInv
    <3> QED  BY <1>1, <2>1, <3>1, <3>2
  <2> QED  BY <2>1, <2>3, <2>4 DEF CursorInv
<1> QED  BY <1>2, <1>3

\* Time leaves a process as it is, but for its clocks.
LEMMA TickAlike ==
    ASSUME LeaseInv, Tick, NEW s \in Scanner
    PROVE  Alike(proc[s], proc'[s]) \/ proc'[s] = Idle
<1>1. proc[s] \in Proc  BY DEF LeaseInv, TypeOK
<1>2. CASE proc[s].pc = "idle"  BY <1>2 DEF Tick
<1>3. CASE proc[s].pc # "idle"
  <2>1. PICK since, busy, late :
            proc'[s] = [proc[s] EXCEPT !.since = since, !.busy = busy, !.late = late]
    BY <1>3 DEF Tick
  <2> QED  BY <1>1, <2>1 DEF Proc, Alike
<1> QED  BY <1>2, <1>3

\* Time passes.
LEMMA CursorTicks ==
    ASSUME LeaseInv, CursorInv, Tick
    PROVE  CursorInv'
<1>1. UNCHANGED <<kind, owed>>  BY DEF Tick
<1>2. ASSUME NEW s \in Scanner  PROVE Cursor(proc'[s], owed[s])
  <2>1. Cursor(proc[s], owed[s])  BY DEF CursorInv
  <2> QED  BY <2>1, TickAlike, CursorAlike, CursorIdle
<1> QED  BY <1>1, <1>2 DEF CursorInv

\* No step of the scans breaks the invariant.
LEMMA CursorStep ==
    ASSUME ScanAssumption, LeaseInv, CursorInv, [Next]_vars
    PROVE  CursorInv'
<1>1. ASSUME NEW s \in Scanner, Begins(s)  PROVE CursorInv'  BY <1>1, CursorBegins
<1>2. ASSUME NEW s \in Scanner, NEW r \in Run, CreateRun(s, r)  PROVE CursorInv'
  BY <1>2, CursorCreates
<1>3. ASSUME NEW s \in Scanner, RenewAtTop(s) \/ RenewAfterNap(s)  PROVE CursorInv'
  BY <1>3, CursorRenewals
<1>4. ASSUME NEW s \in Scanner, Fetch(s)  PROVE CursorInv'  BY <1>4, CursorFetches
<1>5. ASSUME NEW s \in Scanner, NEW row \in [id: Repo, kind: Kinds], Visit(s, row)
      PROVE CursorInv'
  BY <1>5, CursorVisits
<1>6. ASSUME NEW s \in Scanner, AddMatch(s) \/ FlagMatch(s) \/ EndPage(s)  PROVE CursorInv'
  BY <1>6, CursorWrites
<1>7. ASSUME NEW s \in Scanner, Complete(s) \/ Fail(s) \/ Raise(s) \/ Crash(s)
      PROVE CursorInv'
  BY <1>7, CursorEnds
<1>8. ASSUME NEW p \in Repo, (\E k \in Kinds : RepositoryBecomes(p, k)) \/ Decide(p)
      PROVE CursorInv'
  BY <1>8, CursorWorld
<1>9. CASE Tick  BY <1>9, CursorTicks
<1>10. CASE UNCHANGED vars  BY <1>10 DEF vars, CursorInv
<1> QED
  BY <1>1, <1>2, <1>3, <1>4, <1>5, <1>6, <1>7, <1>8, <1>9, <1>10 DEF Next, Code

\* Nobody scans at first.
LEMMA CursorInit ==
    ASSUME Init
    PROVE  CursorInv
<1>1. \A s \in Scanner : proc[s] = Idle /\ owed[s] = {}  BY DEF Init
<1> QED  BY <1>1, CursorIdle DEF CursorInv

\* CursorInv holds of every behaviour.
LEMMA CursorInductive == Spec => []CursorInv
<1>1. Init => CursorInv  BY CursorInit
<1>2. LeaseInv /\ CursorInv /\ [Next]_vars => CursorInv'  BY CursorStep, ScanAssumption
<1> QED  BY <1>1, <1>2, LeaseInductive, PTL DEF Spec

\* A scan without a budget that is about to complete has visited every repository
\* that stayed in scope, whatever came and went between its pages
\* (fetch_repository_batch and last_seen_id).
THEOREM NothingIsMissed == Spec => []NothingMissed
<1>1. CursorInv => NothingMissed  BY DEF CursorInv, Cursor, NothingMissed
<1> QED  BY <1>1, CursorInductive, PTL

\* A scan with a budget never classifies more repositories than that, pages of any
\* size included (max_repos).
THEOREM BudgetIsKept == Spec => []BudgetKept
<1>1. CursorInv => BudgetKept  BY DEF CursorInv, Cursor, BudgetKept
<1> QED  BY <1>1, CursorInductive, PTL

(***************************************************************************)
(* The tables a scan writes                                                *)
(***************************************************************************)
\* The processes whose run is theirs to write for, or to end.
Owner(s) == proc[s].pc \in Looping \cup {"failing"}

\* What a process q knows of the matches m and records c of its run.
Told(q, m, c) ==
    /\ \A p \in m : p <= q.last /\ (q.pc = "match" => p < q.last)
    /\ q.pc \in {"match", "flag"} => q.repo = q.last
    /\ q.count.matched = Cardinality(m) + (IF q.pc = "match" THEN 1 ELSE 0)
    /\ q.count.flagged = Cardinality(c)
    /\ q.count.flagged + q.count.skipped + (IF q.pc \in {"match", "flag"} THEN 1 ELSE 0)
           <= q.count.matched
    /\ q.pc = "flag" => q.repo \in m /\ q.repo \notin c

\* No two processes own a run, and a run that has an owner has not completed.
Owned ==
    /\ \A s, x \in Scanner : Owner(s) /\ Owner(x) /\ proc[s].run = proc[x].run => s = x
    /\ \A s \in Scanner : Owner(s) => run[proc[s].run].status \in {"running", "failed"}

\* The rows of a run are few, and start with it.
RowsOf(r) ==
    /\ run[r].status = "none" => match[r] = {} /\ record[r] = {}
    /\ IsFiniteSet(match[r]) /\ record[r] \subseteq match[r]

TablesInv ==
    /\ Owned
    /\ \A r \in Run : RowsOf(r)
    /\ \A s \in Scanner : proc[s].pc \in Looping =>
           Told(proc[s], match[proc[s].run], record[proc[s].run])
    /\ ReportsAreTrue

\* What a process knows does not depend on its clocks.
LEMMA ToldAlike ==
    ASSUME NEW p, NEW q, NEW m, NEW c, Alike(p, q), Told(p, m, c)
    PROVE  Told(q, m, c)
BY DEF Alike, Told

\* An owner writes rows for its own run, or none, and goes on with it.
LEMMA OwnerWrites ==
    ASSUME LeaseInv, TablesInv, NEW s \in Scanner, Owner(s), NEW next \in Proc, Goto(s, next),
           next.run = proc[s].run, next.pc \in Looping \cup {"failing"},
           NEW m, NEW c, IsFiniteSet(m), c \subseteq m, run' = run,
           match' = [match EXCEPT ![proc[s].run] = m],
           record' = [record EXCEPT ![proc[s].run] = c],
           next.pc \in Looping => Told(next, m, c)
    PROVE  TablesInv'
<1> DEFINE r == proc[s].run
<1>1. /\ proc \in [Scanner -> Proc] /\ r \in Run
      /\ match \in [Run -> SUBSET Repo] /\ record \in [Run -> SUBSET Repo]
  BY DEF LeaseInv, TypeOK, InHand, Owner
<1>2. /\ Alike(next, proc'[s])
      /\ \A x \in Scanner \ {s} : proc'[x] = proc[x]
  BY <1>1, GotoAlike
<1>3. proc'[s].run = r /\ proc'[s].pc = next.pc  BY <1>2 DEF Alike
<1>4. /\ \A x \in Scanner : proc'[x].run = proc[x].run
      /\ \A x \in Scanner : proc'[x].pc \in Looping \cup {"failing"} => Owner(x)
  BY <1>2, <1>3 DEF Owner
<1>5. Owned'  BY <1>4 DEF TablesInv, Owned, Owner
<1>6. /\ match'[r] = m /\ record'[r] = c
      /\ \A q \in Run \ {r} : match'[q] = match[q] /\ record'[q] = record[q]
  BY <1>1
<1>7. run[r].status \notin {"none", "completed"}  BY DEF TablesInv, Owned
<1>8. \A q \in Run : RowsOf(q)'  BY <1>6, <1>7 DEF TablesInv, RowsOf
<1>9. ASSUME NEW x \in Scanner, proc'[x].pc \in Looping
      PROVE  Told(proc'[x], match'[proc'[x].run], record'[proc'[x].run])
  <2>1. CASE x = s  BY <1>2, <1>3, <1>6, <1>9, <2>1, ToldAlike
  <2>2. CASE x # s
    <3>1. proc'[x] = proc[x] /\ Owner(x)  BY <1>2, <1>9, <2>2 DEF Owner
    <3>2. proc[x].run # r  BY <2>2, <3>1 DEF TablesInv, Owned
    <3>3. proc[x].run \in Run  BY <3>1 DEF LeaseInv, InHand, Owner
    <3> QED  BY <1>6, <1>9, <3>1, <3>2, <3>3 DEF TablesInv
  <2> QED  BY <2>1, <2>2
<1>10. ReportsAreTrue'
  BY <1>6, <1>7 DEF TablesInv, ReportsAreTrue
<1> QED  BY <1>5, <1>8, <1>9, <1>10 DEF TablesInv

\* One that writes nothing.
LEMMA OwnerMoves ==
    ASSUME LeaseInv, TablesInv, NEW s \in Scanner, Owner(s), NEW next \in Proc, Goto(s, next),
           next.run = proc[s].run, next.pc \in Looping \cup {"failing"},
           UNCHANGED <<run, match, record>>,
           next.pc \in Looping => Told(next, match[proc[s].run], record[proc[s].run])
    PROVE  TablesInv'
<1> DEFINE r == proc[s].run
<1>1. r \in Run /\ match \in [Run -> SUBSET Repo] /\ record \in [Run -> SUBSET Repo]
  BY DEF LeaseInv, TypeOK, InHand, Owner
<1>2. /\ match' = [match EXCEPT ![r] = match[r]]
      /\ record' = [record EXCEPT ![r] = record[r]]
  BY <1>1
<1>3. IsFiniteSet(match[r]) /\ record[r] \subseteq match[r]  BY <1>1 DEF TablesInv, RowsOf
<1> HIDE DEF r
<1> QED  BY <1>2, <1>3, OwnerWrites DEF r

\* A process that owns nothing and goes on so.
LEMMA OutsiderMoves ==
    ASSUME LeaseInv, TablesInv, NEW s \in Scanner,
           \A x \in Scanner \ {s} : proc'[x] = proc[x],
           proc'[s].pc \notin Looping \cup {"failing"}, UNCHANGED <<run, match, record>>
    PROVE  TablesInv'
<1>1. Owned'  BY DEF TablesInv, Owned, Owner
<1>2. \A r \in Run : RowsOf(r)'  BY DEF TablesInv, RowsOf
<1>3. \A x \in Scanner : proc'[x].pc \in Looping => proc'[x] = proc[x]  OBVIOUS
<1>4. ReportsAreTrue'  BY DEF TablesInv, ReportsAreTrue
<1> QED  BY <1>1, <1>2, <1>3, <1>4 DEF TablesInv

\* A process that ends leaves its run to nobody.
LEMMA StopAlike ==
    ASSUME LeaseInv, NEW s \in Scanner, Stop(s)
    PROVE  /\ proc'[s].pc \notin Looping \cup {"failing"}
           /\ \A x \in Scanner \ {s} : proc'[x] = proc[x]
BY DEF LeaseInv, TypeOK, Stop, Idle, Looping

\* An owner ends its run: what it reports of a run it completes is what it knows.
LEMMA OwnerEnds ==
    ASSUME LeaseInv, TablesInv, NEW s \in Scanner, Owner(s), Stop(s),
           NEW status \in Ended, Updated(proc[s].run, status, proc[s].count),
           status = "completed" => proc[s].pc = "finish", UNCHANGED <<match, record>>
    PROVE  TablesInv'
<1> DEFINE r == proc[s].run
<1>1. /\ run \in [Run -> RunRow] /\ r \in Run
  BY DEF LeaseInv, TypeOK, InHand, Owner
<1>2. /\ proc'[s].pc \notin Looping \cup {"failing"}
      /\ \A x \in Scanner \ {s} : proc'[x] = proc[x]
  BY StopAlike
<1>3. CASE run' = run  BY <1>2, <1>3, OutsiderMoves
<1>4. CASE run' = [run EXCEPT ![r] = [status |-> status, count |-> proc[s].count]]
  <2>1. /\ run'[r] = [status |-> status, count |-> proc[s].count]
        /\ \A q \in Run \ {r} : run'[q] = run[q]
    BY <1>1, <1>4
  <2>2. status # "none" /\ run[r].status # "none"  BY DEF Ended, TablesInv, Owned
  <2>3. Owned'
    <3>1. ASSUME NEW x \in Scanner, Owner(x)'
          PROVE  Owner(x) /\ proc'[x] = proc[x] /\ proc[x].run # r /\ proc[x].run \in Run
      <4>1. x # s /\ proc'[x] = proc[x]  BY <1>2, <3>1 DEF Owner
      <4>2. Owner(x)  BY <3>1, <4>1 DEF Owner
      <4>3. proc[x].run \in Run  BY <4>2 DEF LeaseInv, InHand, Owner
      <4> QED  BY <4>1, <4>2, <4>3 DEF TablesInv, Owned
    <3> QED  BY <2>1, <3>1 DEF TablesInv, Owned
  <2>4. \A q \in Run : RowsOf(q)'  BY <2>1, <2>2 DEF TablesInv, RowsOf
  <2>5. \A x \in Scanner : proc'[x].pc \in Looping => proc'[x] = proc[x]  BY <1>2
  <2>6. ReportsAreTrue'
    <3> SUFFICES ASSUME NEW q \in Run, run'[q].status = "completed"
                 PROVE  LET count == run'[q].count IN
                        /\ count.matched = Cardinality(match[q])
                        /\ count.flagged = Cardinality(record[q])
                        /\ count.flagged + count.skipped <= count.matched
                        /\ record[q] \subseteq match[q]
      BY DEF ReportsAreTrue
    <3>1. CASE q # r  BY <2>1, <3>1 DEF TablesInv, ReportsAreTrue
    <3>2. CASE q = r
      <4>1. proc[s].pc = "finish" /\ run'[q].count = proc[s].count  BY <2>1, <3>2
      <4>2. Told(proc[s], match[r], record[r])  BY <4>1 DEF TablesInv, Looping
      <4>3. record[r] \subseteq match[r]  BY <1>1 DEF TablesInv, RowsOf
      <4>4. IsFiniteSet(match[r]) /\ Cardinality(match[r]) \in Nat
        BY <1>1, FS_CardinalityType DEF TablesInv, RowsOf
      <4>5. proc[s].count \in Count  BY DEF LeaseInv, TypeOK, Proc
      <4> QED  BY <3>2, <4>1, <4>2, <4>3, <4>4, <4>5 DEF Told, Count
    <3> QED  BY <3>1, <3>2
  <2> QED  BY <2>3, <2>4, <2>5, <2>6 DEF TablesInv
<1> QED  BY <1>3, <1>4 DEF Updated

(***************************************************************************)
(* The steps of a scan                                                     *)
(***************************************************************************)
\* create_scan_run: the new run has no rows, and nobody else has it.
LEMMA TablesCreate ==
    ASSUME ScanAssumption, LeaseInv, CursorInv, TablesInv, NEW s \in Scanner, NEW r \in Run,
           CreateRun(s, r)
    PROVE  TablesInv'
<1> DEFINE recovered == stale[s] \cap Running
           next == [proc[s] EXCEPT !.pc = "top", !.run = r]
<1>1. /\ proc \in [Scanner -> Proc] /\ proc[s] \in Proc /\ proc[s].pc = "start"
      /\ run \in [Run -> RunRow] /\ UNCHANGED <<match, record>>
  BY DEF LeaseInv, TypeOK, CreateRun
<1>2. CASE Stop(s) /\ run' = run  BY <1>1, <1>2, StopAlike, OutsiderMoves
<1>3. CASE /\ NextRun(r) /\ Goto(s, next)
           /\ run' = [q \in Run |->
                  IF q \in recovered THEN [run[q] EXCEPT !.status = "failed"]
                  ELSE IF q = r THEN [run[q] EXCEPT !.status = "running"]
                  ELSE run[q]]
  <2>0. proc[s].last = 0 /\ proc[s].count = Zero
    <3>1. Cursor(proc[s], owed[s])  BY DEF CursorInv
    <3> QED  BY <1>1, <3>1 DEF Cursor
  <2>1. /\ next \in Proc /\ next.pc = "top" /\ next.run = r
        /\ next.last = 0 /\ next.count = Zero
    BY <1>1, <2>0 DEF Proc, Looping
  <2> HIDE DEF next
  <2>2. /\ Alike(next, proc'[s])
        /\ \A x \in Scanner \ {s} : proc'[x] = proc[x]
    BY <1>1, <1>3, <2>1, GotoAlike
  <2>3. proc'[s].run = r /\ proc'[s].pc = "top"  BY <2>1, <2>2 DEF Alike
  <2>4. run[r].status = "none"  BY <1>3 DEF NextRun
  <2>5. ASSUME NEW q \in Run
        PROVE  /\ q = r => run'[q].status = "running"
               /\ \/ q = r
                  \/ run'[q] = run[q]
                  \/ run[q].status = "running" /\ run'[q].status = "failed"
    <3>1. run[q] \in RunRow  BY <1>1
    <3>2. CASE q \in recovered
      <4>1. run[q].status = "running"  BY <3>2 DEF Running
      <4>2. run'[q] = [run[q] EXCEPT !.status = "failed"]  BY <1>3, <3>2
      <4> QED  BY <2>4, <3>1, <4>1, <4>2 DEF RunRow
    <3>3. CASE q \notin recovered
      <4> HIDE DEF recovered
      <4>1. run'[q] = IF q = r THEN [run[q] EXCEPT !.status = "running"] ELSE run[q]
        BY <1>3, <3>3
      <4>2. CASE q = r
        <5>1. run'[q] = [run[q] EXCEPT !.status = "running"]  BY <4>1, <4>2
        <5> QED  BY <3>1, <4>2, <5>1 DEF RunRow
      <4> QED  BY <4>1, <4>2
    <3> QED  BY <3>2, <3>3
  <2>6. ASSUME NEW x \in Scanner \ {s}, proc'[x].pc \in Looping \cup {"failing"}
        PROVE  /\ Owner(x) /\ proc'[x] = proc[x]
               /\ proc[x].run \in Run /\ proc[x].run # r
    <3>1. Owner(x) /\ proc'[x] = proc[x]  BY <2>2, <2>6 DEF Owner
    <3>2. proc[x].run \in Run  BY <3>1 DEF LeaseInv, InHand, Owner
    <3> QED  BY <2>4, <3>1, <3>2 DEF TablesInv, Owned
  <2>7. Owned'
    <3>1. ASSUME NEW x \in Scanner, NEW y \in Scanner, Owner(x)', Owner(y)',
                 proc'[x].run = proc'[y].run
          PROVE  x = y
      <4>1. CASE x = s  BY <2>3, <2>6, <3>1, <4>1 DEF Owner
      <4>2. CASE y = s  BY <2>3, <2>6, <3>1, <4>2 DEF Owner
      <4>3. CASE x # s /\ y # s  BY <2>6, <3>1, <4>3 DEF Owner, TablesInv, Owned
      <4> QED  BY <4>1, <4>2, <4>3
    <3>2. ASSUME NEW x \in Scanner, Owner(x)'
          PROVE  run'[proc'[x].run].status \in {"running", "failed"}
      <4>1. CASE x = s  BY <2>3, <2>5, <4>1
      <4>2. CASE x # s
        <5>1. /\ Owner(x) /\ proc'[x] = proc[x] /\ proc[x].run \in Run
              /\ proc[x].run # r
          BY <2>6, <3>2, <4>2 DEF Owner
        <5>2. run[proc[x].run].status \in {"running", "failed"}
          BY <5>1 DEF TablesInv, Owned
        <5> QED  BY <2>5, <5>1, <5>2
      <4> QED  BY <4>1, <4>2
    <3> QED  BY <3>1, <3>2 DEF Owned, Owner
  <2>8. \A q \in Run : RowsOf(q)'
    <3> SUFFICES ASSUME NEW q \in Run  PROVE RowsOf(q)'  OBVIOUS
    <3>1. run'[q].status = "none" => run[q].status = "none"  BY <2>5
    <3> QED  BY <1>1, <3>1 DEF TablesInv, RowsOf
  <2>9. ASSUME NEW x \in Scanner, proc'[x].pc \in Looping
        PROVE  Told(proc'[x], match'[proc'[x].run], record'[proc'[x].run])
    <3>1. CASE x = s
      <4>1. match[r] = {} /\ record[r] = {}  BY <2>4 DEF TablesInv, RowsOf
      <4>2. Told(next, {}, {})
        BY <2>1, FS_EmptySet DEF Told, Zero
      <4> QED  BY <1>1, <2>2, <2>3, <3>1, <4>1, <4>2, ToldAlike
    <3>2. CASE x # s  BY <1>1, <2>6, <2>9, <3>2 DEF TablesInv
    <3> QED  BY <3>1, <3>2
  <2>10. ReportsAreTrue'
    <3> SUFFICES ASSUME NEW q \in Run, run'[q].status = "completed"
                 PROVE  run'[q] = run[q]
      BY <1>1 DEF TablesInv, ReportsAreTrue
    <3> QED  BY <2>5
  <2> QED  BY <2>7, <2>8, <2>9, <2>10 DEF TablesInv
<1> QED  BY <1>2, <1>3 DEF CreateRun

\* A scan that begins, or dies, owns no run.
LEMMA TablesOutside ==
    ASSUME LeaseInv, TablesInv, NEW s \in Scanner, Begins(s) \/ Crash(s)
    PROVE  TablesInv'
<1>1. proc \in [Scanner -> Proc] /\ UNCHANGED <<run, match, record>>
  BY DEF LeaseInv, TypeOK, Begins, BeginScan, Crash
<1>2. CASE Crash(s)  BY <1>1, <1>2, StopAlike, OutsiderMoves DEF Crash
<1>3. CASE Begins(s)
  <2>1. PICK budget \in Budgets, dry \in DryRuns : BeginScan(s, budget, dry)
    BY <1>3 DEF Begins
  <2>2. /\ proc'[s].pc = "start"
        /\ \A x \in Scanner \ {s} : proc'[x] = proc[x]
    BY <1>1, <2>1 DEF BeginScan, Goto, Idle
  <2> QED  BY <1>1, <2>2, OutsiderMoves DEF Looping
<1> QED  BY <1>2, <1>3

\* heartbeat_scan_run: the process goes on, or finds that it lost its lease.
LEMMA TablesRenew ==
    ASSUME LeaseInv, TablesInv, NEW s \in Scanner, Owner(s), NEW next \in Proc, Renew(s, next),
           next.run = proc[s].run, next.pc \in Looping,
           Told(next, match[proc[s].run], record[proc[s].run])
    PROVE  TablesInv'
<1> DEFINE renewed == [next EXCEPT !.since = 0]
           failing == [proc[s] EXCEPT !.pc = "failing"]
<1>1. proc[s] \in Proc /\ UNCHANGED <<run, match, record>>  BY DEF LeaseInv, TypeOK, Renew
<1>2. /\ renewed \in Proc /\ renewed.run = proc[s].run /\ renewed.pc = next.pc
      /\ Alike(next, renewed)
  BY DEF Proc, Alike
<1>3. Told(renewed, match[proc[s].run], record[proc[s].run])  BY <1>2, ToldAlike
<1>4. failing \in Proc /\ failing.run = proc[s].run /\ failing.pc = "failing"
  BY <1>1 DEF Proc
<1>5. Goto(s, renewed) \/ Goto(s, failing)  BY DEF Renew
<1>6. "failing" \notin Looping  BY DEF Looping
<1> HIDE DEF renewed, failing
<1> QED  BY <1>1, <1>2, <1>3, <1>4, <1>5, <1>6, OwnerMoves

\* The steps that neither visit a repository nor write rows.
LEMMA TablesMove ==
    ASSUME ScanAssumption, LeaseInv, TablesInv, NEW s \in Scanner,
           RenewAtTop(s) \/ RenewAfterNap(s) \/ Fetch(s) \/ EndPage(s)
    PROVE  TablesInv'
<1> DEFINE m == match[proc[s].run]
           c == record[proc[s].run]
<1>1. /\ proc[s] \in Proc /\ proc[s].pc \in {"top", "nap", "fetch", "visit"}
      /\ Owner(s) /\ Told(proc[s], m, c) /\ kind \in [Repo -> Kinds]
  BY DEF LeaseInv, TypeOK, TablesInv, Owner, Looping, RenewAtTop, RenewAfterNap, Fetch, EndPage
<1>2. ASSUME NEW next \in Proc, next.pc \in {"top", "nap", "fetch", "visit", "finish"},
             next.last = proc[s].last, next.count = proc[s].count
      PROVE  Told(next, m, c) /\ next.pc \in Looping
  BY <1>1, <1>2 DEF Told, Looping
<1> HIDE DEF m, c
<1>3. CASE RenewAtTop(s)
  <2> DEFINE next == [proc[s] EXCEPT
           !.pc = IF proc[s].budget # 0 /\ proc[s].budget <= proc[s].count.scanned
                  THEN "finish" ELSE "fetch"]
  <2>1. /\ next \in Proc /\ next.run = proc[s].run
        /\ next.pc \in {"top", "nap", "fetch", "visit", "finish"}
        /\ next.last = proc[s].last /\ next.count = proc[s].count
    BY <1>1 DEF Proc, Looping
  <2>2. Renew(s, next)  BY <1>3 DEF RenewAtTop
  <2> HIDE DEF next
  <2> QED  BY <1>1, <1>2, <2>1, <2>2, TablesRenew DEF m, c
<1>4. CASE RenewAfterNap(s)
  <2> DEFINE next == [proc[s] EXCEPT !.nap = @ - Nap(s),
                                !.pc = IF proc[s].nap > Nap(s) THEN "nap" ELSE "top"]
  <2>1. /\ next \in Proc /\ next.run = proc[s].run
        /\ next.pc \in {"top", "nap", "fetch", "visit", "finish"}
        /\ next.last = proc[s].last /\ next.count = proc[s].count
    BY <1>1, NapBounded DEF Proc, Looping
  <2>2. Renew(s, next)  BY <1>4 DEF RenewAfterNap
  <2> HIDE DEF next
  <2> QED  BY <1>1, <1>2, <2>1, <2>2, TablesRenew DEF m, c
<1>5. CASE Fetch(s)
  <2> DEFINE next == [proc[s] EXCEPT !.page = NextPage(s),
                          !.pc = IF NextPage(s) = {} THEN "finish" ELSE "visit"]
  <2>0. NextPage(s) \in SUBSET [id: Repo, kind: Kinds]  BY <1>1, PageTyped
  <2>1. /\ next \in Proc /\ next.run = proc[s].run
        /\ next.pc \in {"top", "nap", "fetch", "visit", "finish"}
        /\ next.last = proc[s].last /\ next.count = proc[s].count
    BY <1>1, <2>0 DEF Proc, Looping
  <2>2. Goto(s, next) /\ UNCHANGED <<run, match, record>>  BY <1>5 DEF Fetch
  <2> HIDE DEF next
  <2> QED  BY <1>1, <1>2, <2>1, <2>2, OwnerMoves DEF m, c
<1>6. CASE EndPage(s)
  <2> DEFINE next == [proc[s] EXCEPT !.pc = IF Sleep > 0 THEN "nap" ELSE "top",
                                     !.nap = Sleep]
  <2>1. /\ next \in Proc /\ next.run = proc[s].run
        /\ next.pc \in {"top", "nap", "fetch", "visit", "finish"}
        /\ next.last = proc[s].last /\ next.count = proc[s].count
    BY <1>1 DEF Proc, Looping, ScanAssumption
  <2>2. Goto(s, next) /\ UNCHANGED <<run, match, record>>  BY <1>6 DEF EndPage
  <2> HIDE DEF next
  <2> QED  BY <1>1, <1>2, <2>1, <2>2, OwnerMoves DEF m, c
<1> QED  BY <1>3, <1>4, <1>5, <1>6

\* One repository: it is ahead of every one matched before.
LEMMA TablesVisit ==
    ASSUME ScanAssumption, LeaseInv, CursorInv, TablesInv, NEW s \in Scanner,
           NEW row \in [id: Repo, kind: Kinds], Visit(s, row)
    PROVE  TablesInv'
<1> DEFINE m == match[proc[s].run]
           c == record[proc[s].run]
           q == proc[s]
           next == Visited(s, row)
<1>1. /\ proc \in [Scanner -> Proc] /\ q \in Proc /\ q.pc = "visit" /\ Owner(s)
      /\ Told(q, m, c) /\ row \in q.page /\ Repo \subseteq Nat /\ q.run \in Run
      /\ match \in [Run -> SUBSET Repo]
  BY DEF LeaseInv, TypeOK, InHand, TablesInv, Owner, Looping, Visit, ScanAssumption
<1>2. /\ next \in Proc /\ next.run = q.run /\ next.pc \in {"match", "visit"}
  BY <1>1, VisitedTyped
<1>3. next.pc \in Looping  BY <1>2 DEF Looping
<1>4. row.id > q.last /\ row.id \in Nat /\ q.last \in Nat  BY <1>1 DEF CursorInv, Cursor, Proc
<1>5. q.count \in Count /\ Cardinality(m) \in Nat
  BY <1>1, FS_CardinalityType DEF Proc, TablesInv, RowsOf
<1>6. /\ next.pc = IF row.kind = "spam" THEN "match" ELSE "visit"
      /\ next.last = row.id /\ (row.kind = "spam" => next.repo = row.id)
      /\ next.count.matched = IF row.kind = "spam" THEN q.count.matched + 1 ELSE q.count.matched
      /\ next.count.flagged = q.count.flagged /\ next.count.skipped = q.count.skipped
  BY <1>1, <1>5 DEF Visited, Proc, Count
<1>7. \A p \in m : p < row.id
  <2> TAKE p \in m
  <2>1. p \in Nat /\ p <= q.last  BY <1>1 DEF Told
  <2> QED  BY <1>4, <2>1
<1>8. \A p \in m : p \in Nat  BY <1>1
<1> HIDE DEF q, m, c, next
<1>9. Told(next, m, c)
  <2>1. CASE row.kind = "spam"
    <3>1. /\ next.pc = "match" /\ next.repo = row.id /\ next.last = row.id
          /\ next.count.matched = q.count.matched + 1
      BY <1>6, <2>1
    <3>2. /\ q.count.matched \in Nat /\ q.count.flagged \in Nat /\ q.count.skipped \in Nat
          /\ q.count.matched = Cardinality(m) /\ q.count.flagged = Cardinality(c)
          /\ q.count.flagged + q.count.skipped <= q.count.matched
      BY <1>1, <1>5 DEF Told, Count
    <3> QED  BY <1>4, <1>6, <1>7, <1>8, <3>1, <3>2 DEF Told
  <2>2. CASE row.kind # "spam"
    <3>1. next.pc = "visit" /\ next.last = row.id /\ next.count.matched = q.count.matched
      BY <1>6, <2>2
    <3>2. /\ q.count.matched \in Nat /\ q.count.flagged \in Nat /\ q.count.skipped \in Nat
          /\ q.count.matched = Cardinality(m) /\ q.count.flagged = Cardinality(c)
          /\ q.count.flagged + q.count.skipped <= q.count.matched
      BY <1>1, <1>5 DEF Told, Count
    <3> QED  BY <1>4, <1>6, <1>7, <1>8, <3>1, <3>2 DEF Told
  <2> QED  BY <2>1, <2>2
<1>10. CASE Renew(s, next)
  BY <1>1, <1>2, <1>3, <1>9, <1>10, TablesRenew DEF q, m, c
<1>11. CASE Goto(s, next) /\ UNCHANGED <<run, match, record>>
  BY <1>1, <1>2, <1>3, <1>9, <1>11, OwnerMoves DEF q, m, c
<1> QED  BY <1>10, <1>11 DEF Visit, next

\* add_scan_match: the repository in hand is behind no row of the run.
LEMMA TablesMatch ==
    ASSUME ScanAssumption, LeaseInv, TablesInv, NEW s \in Scanner, AddMatch(s)
    PROVE  TablesInv'
<1> DEFINE q == proc[s]
           m == match[proc[s].run]
           c == record[proc[s].run]
           next == [q EXCEPT !.pc = IF q.dry THEN "visit" ELSE "flag"]
<1>1. /\ proc \in [Scanner -> Proc] /\ q \in Proc /\ q.pc = "match" /\ Owner(s)
      /\ Told(q, m, c) /\ q.run \in Run /\ q.repo \in Repo /\ Repo \subseteq Nat
      /\ match \in [Run -> SUBSET Repo] /\ record \in [Run -> SUBSET Repo]
  BY DEF LeaseInv, TypeOK, InHand, TablesInv, Owner, Looping, AddMatch, ScanAssumption
<1>2. IsFiniteSet(m) /\ c \subseteq m  BY <1>1 DEF TablesInv, RowsOf
<1>3. q.repo = q.last /\ \A p \in m : p \in Nat /\ p < q.last
  <2> m \subseteq Repo  BY <1>1
  <2> HIDE DEF q, m, c
  <2> QED  BY <1>1 DEF Told
<1>4. q.repo \notin m /\ q.repo \notin c
  <2>1. q.repo \in Nat  BY <1>1
  <2>2. q.repo \notin m
    <3> HIDE DEF q, m, c
    <3> QED  BY <1>3, <2>1
  <2> QED  BY <1>2, <2>2
<1>5. /\ IsFiniteSet(m \cup {q.repo})
      /\ Cardinality(m \cup {q.repo}) = Cardinality(m) + 1
      /\ Cardinality(m) \in Nat
  BY <1>2, <1>4, FS_AddElement, FS_CardinalityType
<1>6. /\ next \in Proc /\ next.run = q.run /\ next.pc \in {"visit", "flag"}
      /\ next.pc \in Looping /\ next.count = q.count /\ next.last = q.last
      /\ next.repo = q.repo
  BY <1>1 DEF Proc, Looping
<1>7. q.count \in Count /\ q.last \in Nat  BY <1>1 DEF Proc
<1>8. /\ Goto(s, next) /\ run' = run
      /\ match' = [match EXCEPT ![q.run] = m \cup {q.repo}]
      /\ record' = [record EXCEPT ![q.run] = c]
  BY <1>1 DEF AddMatch
<1> HIDE DEF q, m, c, next
<1>9. Told(next, m \cup {q.repo}, c)
  <2>1. \A p \in m \cup {q.repo} : p <= next.last  BY <1>3, <1>6, <1>7
  <2>2. next.count.matched = Cardinality(m \cup {q.repo})
    BY <1>1, <1>5, <1>6 DEF Told
  <2>3. /\ next.count.flagged = Cardinality(c)
        /\ next.count.flagged + next.count.skipped + 1 <= next.count.matched
        /\ next.count.flagged + next.count.skipped <= next.count.matched
        /\ next.count.matched + 0 = next.count.matched
        /\ next.count.flagged + next.count.skipped + 0
               = next.count.flagged + next.count.skipped
    BY <1>1, <1>6, <1>7 DEF Told, Count
  <2> QED  BY <1>3, <1>4, <1>6, <2>1, <2>2, <2>3 DEF Told
<1> QED  BY <1>1, <1>2, <1>5, <1>6, <1>8, <1>9, OwnerWrites DEF q, m, c

\* create_flagged_record for the match in hand.
LEMMA TablesFlag ==
    ASSUME ScanAssumption, LeaseInv, TablesInv, NEW s \in Scanner, FlagMatch(s)
    PROVE  TablesInv'
<1> DEFINE q == proc[s]
           m == match[proc[s].run]
           c == record[proc[s].run]
           outcome == review[proc[s].repo]
           next == [q EXCEPT !.pc = "visit", !.count = Counted(@, outcome)]
           d == IF outcome = "free" THEN c \cup {q.repo} ELSE c
<1>1. /\ proc \in [Scanner -> Proc] /\ q \in Proc /\ q.pc = "flag" /\ Owner(s)
      /\ Told(q, m, c) /\ q.run \in Run /\ q.repo \in Repo
      /\ match \in [Run -> SUBSET Repo] /\ record \in [Run -> SUBSET Repo]
      /\ outcome \in {"open", "suppressed", "free"}
  BY DEF LeaseInv, TypeOK, InHand, TablesInv, Owner, Looping, FlagMatch, Review
<1>2. IsFiniteSet(m) /\ c \subseteq m /\ q.repo \in m /\ q.repo \notin c
  BY <1>1 DEF TablesInv, RowsOf, Told
<1>3. IsFiniteSet(c)  BY <1>2, FS_Subset
<1>4. /\ Cardinality(c \cup {q.repo}) = Cardinality(c) + 1
      /\ Cardinality(c) \in Nat /\ Cardinality(m) \in Nat
  BY <1>2, <1>3, FS_AddElement, FS_CardinalityType
<1>5. q.count \in Count /\ q.last \in Nat  BY <1>1 DEF Proc
<1>6. /\ Counted(q.count, outcome) \in Count
      /\ Counted(q.count, outcome).matched = q.count.matched
      /\ Counted(q.count, outcome).flagged
             = IF outcome = "free" THEN q.count.flagged + 1 ELSE q.count.flagged
      /\ Counted(q.count, outcome).skipped
             = IF outcome = "suppressed" THEN q.count.skipped + 1 ELSE q.count.skipped
  <2> HIDE DEF outcome
  <2>1. CASE outcome = "free"
    <3>1. Counted(q.count, outcome) = [q.count EXCEPT !.flagged = @ + 1]
      BY <2>1 DEF Counted
    <3> QED  BY <1>5, <2>1, <3>1 DEF Count
  <2>2. CASE outcome = "open"
    <3>1. Counted(q.count, outcome) = q.count  BY <2>2 DEF Counted
    <3> QED  BY <1>5, <2>2, <3>1 DEF Count
  <2>3. CASE outcome = "suppressed"
    <3>1. Counted(q.count, outcome) = [q.count EXCEPT !.skipped = @ + 1]
      BY <2>3 DEF Counted
    <3> QED  BY <1>5, <2>3, <3>1 DEF Count
  <2> QED  BY <1>1, <2>1, <2>2, <2>3
<1>7. /\ next \in Proc /\ next.run = q.run /\ next.pc = "visit" /\ next.last = q.last
      /\ next.count = Counted(q.count, outcome) /\ next.pc \in Looping
  BY <1>1, <1>6 DEF Proc, Looping
<1>8. /\ Goto(s, next) /\ run' = run
      /\ match' = [match EXCEPT ![q.run] = m]
      /\ record' = [record EXCEPT ![q.run] = d]
  BY <1>1 DEF FlagMatch
<1>9. d \subseteq m  BY <1>2
<1> HIDE DEF q, m, c, next, outcome
<1>10. Cardinality(d) = IF outcome = "free" THEN Cardinality(c) + 1 ELSE Cardinality(c)
  BY <1>4
<1> HIDE DEF d
<1>11. Told(next, m, d)
  <2>1. /\ q.count.matched \in Nat /\ q.count.flagged \in Nat /\ q.count.skipped \in Nat
        /\ q.count.matched = Cardinality(m) /\ q.count.flagged = Cardinality(c)
        /\ q.count.flagged + q.count.skipped + 1 <= q.count.matched
        /\ \A p \in m : p <= q.last
    BY <1>1, <1>4, <1>5 DEF Told, Count
  <2>2. next.count.matched = Cardinality(m) /\ next.count.flagged = Cardinality(d)
    BY <1>6, <1>7, <1>10, <2>1
  <2>3. next.count.flagged + next.count.skipped <= next.count.matched
    <3>1. CASE outcome = "free"  BY <1>6, <1>7, <2>1, <3>1
    <3>2. CASE outcome = "open"  BY <1>6, <1>7, <2>1, <3>2
    <3>3. CASE outcome = "suppressed"  BY <1>6, <1>7, <2>1, <3>3
    <3> QED  BY <1>1, <3>1, <3>2, <3>3
  <2>4. /\ next.count.matched \in Nat /\ next.count.flagged \in Nat
        /\ next.count.skipped \in Nat
    BY <1>6, <1>7 DEF Count
  <2>5. /\ next.count.matched + 0 = next.count.matched
        /\ next.count.flagged + next.count.skipped + 0 <= next.count.matched
    BY <2>3, <2>4
  <2> QED  BY <1>4, <1>7, <2>1, <2>2, <2>5 DEF Told
<1> QED  BY <1>1, <1>2, <1>7, <1>8, <1>9, <1>11, OwnerWrites DEF q, m, c

\* An exception, after which the record of the match in hand may be there.
LEMMA TablesRaise ==
    ASSUME LeaseInv, TablesInv, NEW s \in Scanner, Raise(s)
    PROVE  TablesInv'
<1> DEFINE q == proc[s]
           m == match[proc[s].run]
           c == record[proc[s].run]
           next == [q EXCEPT !.pc = "failing"]
           d == c \cup {q.repo}
<1>1. /\ q \in Proc /\ Owner(s) /\ Told(q, m, c) /\ q.run \in Run /\ Goto(s, next)
      /\ match \in [Run -> SUBSET Repo] /\ record \in [Run -> SUBSET Repo]
      /\ UNCHANGED <<run, match>>
  BY DEF LeaseInv, TypeOK, InHand, TablesInv, Owner, Raise
<1>2. next \in Proc /\ next.run = q.run /\ next.pc = "failing"  BY <1>1 DEF Proc
<1>3. "failing" \notin Looping  BY DEF Looping
<1>4. CASE UNCHANGED record
  <2> HIDE DEF next
  <2> QED  BY <1>1, <1>2, <1>3, <1>4, OwnerMoves
<1>5. CASE /\ q.pc = "flag"
           /\ record' = [record EXCEPT ![q.run] = d]
  <2>1. q.repo \in m  BY <1>1, <1>5 DEF Told
  <2>2. IsFiniteSet(m) /\ d \subseteq m
    BY <1>1, <2>1 DEF TablesInv, RowsOf
  <2>3. match' = [match EXCEPT ![q.run] = m]  BY <1>1
  <2>4. next.pc \in Looping => Told(next, m, d)  BY <1>2, <1>3
  <2> HIDE DEF next, m, c, d
  <2> QED  BY <1>1, <1>2, <1>3, <1>5, <2>2, <2>3, <2>4, OwnerWrites
<1> QED  BY <1>1, <1>4, <1>5 DEF Raise

\* update_scan_run: a run completes with what its process counted, or fails.
LEMMA TablesEnd ==
    ASSUME LeaseInv, TablesInv, NEW s \in Scanner, Complete(s) \/ Fail(s)
    PROVE  TablesInv'
<1> DEFINE next == [proc[s] EXCEPT !.pc = "failing"]
<1>1. proc[s] \in Proc /\ Owner(s) /\ UNCHANGED <<match, record>>
  BY DEF LeaseInv, TypeOK, Owner, Looping, Complete, Fail
<1>2. CASE Fail(s)
  BY <1>1, <1>2, OwnerEnds DEF Fail, Ended
<1>3. CASE Complete(s) /\ Holds(s)
  BY <1>1, <1>3, OwnerEnds DEF Complete, Ended
<1>4. CASE Complete(s) /\ ~Holds(s)
  <2>1. run' = run /\ Goto(s, next)  BY <1>4 DEF Complete, Updated, Holds
  <2>2. /\ next \in Proc /\ next.run = proc[s].run /\ next.pc = "failing"
        /\ "failing" \notin Looping
    BY <1>1 DEF Proc, Looping
  <2> HIDE DEF next
  <2> QED  BY <1>1, <2>1, <2>2, OwnerMoves
<1> QED  BY <1>2, <1>3, <1>4

\* Repositories, decisions and clocks leave the tables of the scans alone.
LEMMA TablesWorld ==
    ASSUME LeaseInv, TablesInv, NEW p \in Repo,
           (\E k \in Kinds : RepositoryBecomes(p, k)) \/ Decide(p)
    PROVE  TablesInv'
<1>1. UNCHANGED <<run, match, record, proc>>  BY DEF RepositoryBecomes, Decide
<1> QED
  BY <1>1 DEF TablesInv, Owned, Owner, RowsOf, Told, ReportsAreTrue

\* Time passes: what a process knows does not change.
LEMMA TablesTick ==
    ASSUME LeaseInv, TablesInv, Tick
    PROVE  TablesInv'
<1>1. UNCHANGED <<run, match, record>>  BY DEF Tick
<1>2. \A x \in Scanner : Alike(proc[x], proc'[x]) \/ proc'[x] = Idle
  BY TickAlike
<1>3. \A x \in Scanner : Owner(x)' => Owner(x) /\ Alike(proc[x], proc'[x])
  BY <1>2 DEF Owner, Idle, Looping, Alike
<1>4. Owned'  BY <1>1, <1>3 DEF TablesInv, Owned, Alike
<1>5. \A r \in Run : RowsOf(r)'  BY <1>1 DEF TablesInv, RowsOf
<1>6. ASSUME NEW x \in Scanner, proc'[x].pc \in Looping
      PROVE  Told(proc'[x], match'[proc'[x].run], record'[proc'[x].run])
  <2>1. Owner(x)' /\ Alike(proc[x], proc'[x])  BY <1>3, <1>6 DEF Owner
  <2>2. proc[x].pc \in Looping /\ proc'[x].run = proc[x].run
    BY <1>6, <2>1 DEF Alike
  <2> QED  BY <1>1, <2>1, <2>2, ToldAlike DEF TablesInv
<1>7. ReportsAreTrue'  BY <1>1 DEF TablesInv, ReportsAreTrue
<1> QED  BY <1>4, <1>5, <1>6, <1>7 DEF TablesInv

\* No step of the scans breaks the invariant.
LEMMA TablesStep ==
    ASSUME ScanAssumption, LeaseInv, CursorInv, TablesInv, [Next]_vars
    PROVE  TablesInv'
<1>1. ASSUME NEW s \in Scanner, Begins(s) \/ Crash(s) PROVE TablesInv'
  BY <1>1, TablesOutside
<1>2. ASSUME NEW s \in Scanner, Code(s) PROVE TablesInv'
  BY <1>2, TablesCreate, TablesMove, TablesVisit, TablesMatch, TablesFlag, TablesEnd DEF Code
<1>3. ASSUME NEW s \in Scanner, Raise(s) PROVE TablesInv'
  BY <1>3, TablesRaise
<1>4. ASSUME NEW p \in Repo, (\E k \in Kinds : RepositoryBecomes(p, k)) \/ Decide(p)
      PROVE  TablesInv'
  BY <1>4, TablesWorld
<1>5. CASE Tick  BY <1>5, TablesTick
<1>6. CASE UNCHANGED vars
  BY <1>6 DEF vars, TablesInv, Owned, Owner, RowsOf, Told, ReportsAreTrue
<1> QED  BY <1>1, <1>2, <1>3, <1>4, <1>5, <1>6 DEF Next

\* Nothing has been scanned yet.
LEMMA TablesInit ==
    ASSUME Init
    PROVE  TablesInv
<1>1. \A s \in Scanner : proc[s].pc = "idle"  BY DEF Init, Idle
<1>2. \A r \in Run : run[r].status = "none" /\ match[r] = {} /\ record[r] = {}
  BY DEF Init
<1>3. IsFiniteSet({})  BY FS_EmptySet
<1> QED
  BY <1>1, <1>2, <1>3 DEF TablesInv, Owned, Owner, Looping, RowsOf, ReportsAreTrue

\* TablesInv holds of every behaviour: only the owner of a run writes rows for it,
\* and run_scan meets each repository once.
THEOREM TablesInductive == Spec => []TablesInv
<1>1. Init => TablesInv  BY TablesInit
<1>2. LeaseInv /\ CursorInv /\ TablesInv /\ [Next]_vars => TablesInv'
  BY TablesStep, ScanAssumption
<1> QED  BY <1>1, <1>2, LeaseInductive, CursorInductive, PTL DEF Spec

\* ReportsAreTrue: the counts of a completed scan are those of the rows that
\* add_scan_match and create_flagged_record left, however scans, recoveries and
\* crashes interleave.
THEOREM ReportsAreTold == Spec => []ReportsAreTrue
<1>1. TablesInv => ReportsAreTrue  BY DEF TablesInv
<1> QED  BY <1>1, TablesInductive, PTL
=============================================================================
