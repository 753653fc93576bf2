--------------------------- MODULE TimeoutProofs ---------------------------
(***************************************************************************)
(* The safety invariants of Timeout, for any timers, any number of calls   *)
(* and any width of the counters.  They hold until the period of the timer *)
(* at the head ends inside a call: the inductive invariant is              *)
(* raced \/ IInv, and IInv is preserved by every step that leaves raced    *)
(* FALSE.                                                                  *)
(*                                                                         *)
(* A linked list is the least set that holds its head and is closed under  *)
(* its links, so what an operation does to a list is proved by giving      *)
(* closed sets: no induction over its length is needed.                    *)
(***************************************************************************)
EXTENDS Timeout, TLAPS

-----------------------------------------------------------------------------
(* Linked lists                                                             *)
Links == [Nodes -> Nodes \cup {NULL}]
Heads == Nodes \cup {NULL}

(* The list of head h neither runs into itself nor runs on for ever.        *)
IsList(h, nxt) ==
  /\ \A n \in reach(h, nxt) : nxt[n] # h
  /\ \A m, n \in reach(h, nxt) : nxt[m] = nxt[n] /\ nxt[m] # NULL => m = n
  /\ h # NULL => \E n \in reach(h, nxt) : nxt[n] = NULL

(* The nodes of a list are closed under its links.                          *)
LEMMA ReachClosed ==
  ASSUME NEW nxt \in Links, NEW h \in Heads
  PROVE  /\ reach(h, nxt) \subseteq Nodes
         /\ h # NULL => h \in reach(h, nxt)
         /\ \A n \in reach(h, nxt) : nxt[n] # NULL => nxt[n] \in reach(h, nxt)
BY DEF reach, closed, Links, Heads

(* They are the least such set.                                             *)
LEMMA ReachLeast ==
  ASSUME NEW nxt \in Links, NEW h \in Heads, NEW S \in SUBSET Nodes,
         h # NULL => h \in S,
         \A n \in S : nxt[n] # NULL => nxt[n] \in S
  PROVE  reach(h, nxt) \subseteq S
BY DEF reach, closed, Links, Heads

(* The empty list                                                           *)
LEMMA ReachNothing ==
  ASSUME NEW nxt \in Links
  PROVE  reach(NULL, nxt) = {}
<1>1. {} \in SUBSET Nodes /\ NULL \in Heads
  BY DEF Heads
<1>2. QED
  BY <1>1, ReachLeast

(* A list does not see a change of links outside it.                        *)
LEMMA ReachFrame ==
  ASSUME NEW nxt \in Links, NEW new \in Links, NEW h \in Heads,
         \A n \in reach(h, nxt) : new[n] = nxt[n]
  PROVE  /\ reach(h, new) = reach(h, nxt)
         /\ IsList(h, nxt) => IsList(h, new)
<1>1. reach(h, new) \subseteq reach(h, nxt)
  BY ReachClosed, ReachLeast
<1>2. reach(h, nxt) \subseteq reach(h, new)
  <2> DEFINE S == reach(h, nxt) \cap reach(h, new)
  <2>1. S \in SUBSET Nodes /\ (h # NULL => h \in S)
    BY ReachClosed
  <2>2. \A n \in S : nxt[n] # NULL => nxt[n] \in S
    BY ReachClosed
  <2> HIDE DEF S
  <2>3. reach(h, nxt) \subseteq S
    BY <2>1, <2>2, ReachLeast
  <2>4. QED
    BY <2>3 DEF S
<1>3. QED
  BY <1>1, <1>2 DEF IsList

(* What is left when the first node is taken off.                           *)
LEMMA ReachTail ==
  ASSUME NEW nxt \in Links, NEW h \in Nodes, IsList(h, nxt)
  PROVE  /\ reach(nxt[h], nxt) = reach(h, nxt) \ {h}
         /\ nxt[h] \in Heads
         /\ IsList(nxt[h], nxt)
<1> DEFINE L == reach(h, nxt)
<1> DEFINE R == reach(nxt[h], nxt)
<1>0. nxt[h] \in Heads /\ h \in Heads /\ h # NULL
  BY TimeoutAssumption DEF Links, Heads
<1>1. L \subseteq Nodes /\ h \in L /\ \A n \in L : nxt[n] # NULL => nxt[n] \in L
  BY <1>0, ReachClosed
<1>2. R \subseteq Nodes /\ (nxt[h] # NULL => nxt[h] \in R) /\ \A n \in R : nxt[n] # NULL => nxt[n] \in R
  BY <1>0, ReachClosed
<1>3. \A n \in L : nxt[n] # h
  BY DEF IsList
<1>4. \A m, n \in L : nxt[m] = nxt[n] /\ nxt[m] # NULL => m = n
  BY DEF IsList
<1>5. \E n \in L : nxt[n] = NULL
  BY <1>0 DEF IsList
<1>6. R \subseteq L \ {h}
  <2>1. L \ {h} \in SUBSET Nodes
    BY <1>1
  <2> HIDE DEF L
  <2>2. QED
    BY <1>0, <1>1, <1>3, <2>1, ReachLeast
<1>7. L \subseteq R \cup {h}
  <2>1. R \cup {h} \in SUBSET Nodes
    BY <1>2
  <2> HIDE DEF R
  <2>2. QED
    BY <1>0, <1>1, <1>2, <2>1, ReachLeast
<1> HIDE DEF L, R
<1>8. R = L \ {h}
  BY <1>6, <1>7
<1>9. IsList(nxt[h], nxt)
  <2>1. ASSUME NEW n \in R PROVE nxt[n] # nxt[h]
    <3>1. n \in L /\ n # h /\ h \in L
      BY <1>1, <1>8
    <3>2. CASE nxt[h] = NULL
      BY <3>2, ReachNothing DEF R
    <3>3. CASE nxt[h] # NULL
      BY <1>4, <3>1, <3>3
    <3>4. QED
      BY <3>2, <3>3
  <2>2. nxt[h] # NULL => \E n \in R : nxt[n] = NULL
    BY <1>5, <1>8
  <2>3. QED
    BY <1>4, <1>8, <2>1, <2>2 DEF IsList, R
<1>10. QED
  BY <1>0, <1>8, <1>9 DEF R, L

(* A node put in front.                                                     *)
LEMMA ReachPrepend ==
  ASSUME NEW nxt \in Links, NEW h \in Heads, NEW a \in Nodes,
         IsList(h, nxt), a \notin reach(h, nxt), nxt[a] = h
  PROVE  /\ reach(a, nxt) = reach(h, nxt) \cup {a}
         /\ IsList(a, nxt)
<1> DEFINE L == reach(h, nxt)
<1> DEFINE R == reach(a, nxt)
<1>0. a \in Heads /\ a # NULL
  BY TimeoutAssumption DEF Heads
<1>1. L \subseteq Nodes /\ (h # NULL => h \in L) /\ \A n \in L : nxt[n] # NULL => nxt[n] \in L
  BY ReachClosed
<1>2. R \subseteq Nodes /\ a \in R /\ \A n \in R : nxt[n] # NULL => nxt[n] \in R
  BY <1>0, ReachClosed
<1>3. R \subseteq L \cup {a}
  <2>1. L \cup {a} \in SUBSET Nodes
    BY <1>1
  <2> HIDE DEF L
  <2>2. QED
    BY <1>0, <1>1, <2>1, ReachLeast
<1>4. L \subseteq R
  BY <1>2, ReachLeast
<1> HIDE DEF L, R
<1>5. R = L \cup {a}
  BY <1>2, <1>3, <1>4
<1>6. IsList(a, nxt)
  <2>1. \A n \in R : nxt[n] # a
    BY <1>1, <1>5, <1>0 DEF L
  <2>2. \A m, n \in R : nxt[m] = nxt[n] /\ nxt[m] # NULL => m = n
    BY <1>5 DEF L, IsList
  <2>3. \E n \in R : nxt[n] = NULL
    BY <1>5 DEF L, IsList
  <2>4. QED
    BY <2>1, <2>2, <2>3 DEF IsList, R
<1>7. QED
  BY <1>5, <1>6 DEF L, R

(* A node put behind another one.                                           *)
LEMMA ReachInsert ==
  ASSUME NEW nxt \in Links, NEW new \in Links, NEW h \in Nodes,
         NEW p \in reach(h, nxt), NEW a \in Nodes,
         IsList(h, nxt), a \notin reach(h, nxt),
         new[p] = a, new[a] = nxt[p],
         \A n \in reach(h, nxt) : n # p => new[n] = nxt[n]
  PROVE  /\ reach(h, new) = reach(h, nxt) \cup {a}
         /\ IsList(h, new)
<1> DEFINE L == reach(h, nxt)
<1> DEFINE R == reach(h, new)
<1>0. h \in Heads /\ h # NULL /\ a # NULL
  BY TimeoutAssumption DEF Heads
<1>1. L \subseteq Nodes /\ h \in L /\ \A n \in L : nxt[n] # NULL => nxt[n] \in L
  BY <1>0, ReachClosed
<1>2. R \subseteq Nodes /\ h \in R /\ \A n \in R : new[n] # NULL => new[n] \in R
  BY <1>0, ReachClosed
<1>3. /\ p \in L /\ p # a /\ new[p] = a /\ new[a] = nxt[p]
      /\ \A n \in L : n # p => new[n] = nxt[n]
  BY <1>1
<1>4. R \subseteq L \cup {a}
  <2>1. L \cup {a} \in SUBSET Nodes
    BY <1>1
  <2> HIDE DEF L
  <2>2. \A n \in L \cup {a} : new[n] # NULL => new[n] \in L \cup {a}
    BY <1>1, <1>3
  <2>3. QED
    BY <1>0, <1>1, <2>1, <2>2, ReachLeast
<1>5. L \subseteq R
  <2> DEFINE S == L \cap R
  <2>1. S \in SUBSET Nodes /\ h \in S
    BY <1>1, <1>2
  <2>2. \A n \in S : nxt[n] # NULL => nxt[n] \in S
    BY <1>0, <1>1, <1>2, <1>3
  <2> HIDE DEF S
  <2>3. L \subseteq S
    BY <1>0, <2>1, <2>2, ReachLeast
  <2>4. QED
    BY <2>3 DEF S
<1> HIDE DEF L, R
<1>6. R = L \cup {a}
  BY <1>0, <1>2, <1>3, <1>4, <1>5
<1>7. IsList(h, new)
  <2>0. a \notin L /\ a # h
    BY <1>1 DEF L
  <2>1. \A n \in R : new[n] # h
    BY <1>3, <1>6, <2>0 DEF L, IsList
  <2>2. ASSUME NEW m \in R, NEW n \in R, new[m] = new[n], new[m] # NULL
        PROVE  m = n
    <3>1. \A x, y \in L : nxt[x] = nxt[y] /\ nxt[x] # NULL => x = y
      BY DEF IsList, L
    <3>2. \A x \in L : nxt[x] # a
      BY <1>0, <1>1, <2>0
    <3>3. \A x \in L : new[x] # NULL => new[a] # new[x]
      BY <1>3, <3>1, <3>2
    <3>4. \A x, y \in L : new[x] = new[y] /\ new[x] # NULL => x = y
      BY <1>3, <3>1, <3>2
    <3>5. QED
      BY <1>6, <2>2, <3>3, <3>4
  <2>3. \E n \in R : new[n] = NULL
    <3>1. PICK z \in L : nxt[z] = NULL
      BY <1>0 DEF IsList, L
    <3>2. new[IF z = p THEN a ELSE z] = NULL
      BY <1>3, <3>1
    <3>3. QED
      BY <1>6, <3>1, <3>2
  <2>4. QED
    BY <2>1, <2>2, <2>3 DEF IsList, R
<1>8. QED
  BY <1>6, <1>7 DEF L, R

(* A node other than the first taken out of a list.                         *)
LEMMA ReachRemove ==
  ASSUME NEW nxt \in Links, NEW h \in Nodes, NEW a \in reach(h, nxt), a # h,
         IsList(h, nxt),
         NEW new \in Links, 
         \A n \in reach(h, nxt) : new[n] = IF nxt[n] = a THEN nxt[a] ELSE nxt[n]
  PROVE  /\ reach(h, new) = reach(h, nxt) \ {a}
         /\ IsList(h, new)
<1> DEFINE L == reach(h, nxt)
<1> DEFINE R == reach(h, new)
<1>0. h \in Heads /\ h # NULL
  BY TimeoutAssumption DEF Heads
<1>1. L \subseteq Nodes /\ h \in L /\ \A n \in L : nxt[n] # NULL => nxt[n] \in L
  BY <1>0, ReachClosed
<1>2. R \subseteq Nodes /\ h \in R /\ \A n \in R : new[n] # NULL => new[n] \in R
  BY <1>0, ReachClosed
<1>3. /\ a \in L /\ a # NULL
      /\ \A n \in L : new[n] = IF nxt[n] = a THEN nxt[a] ELSE nxt[n]
      /\ \A n \in L : nxt[n] # h
      /\ \A m, n \in L : nxt[m] = nxt[n] /\ nxt[m] # NULL => m = n
  BY <1>1, TimeoutAssumption DEF IsList
<1>4. PICK p \in L : p # a /\ nxt[p] = a
  <2>1. SUFFICES ASSUME \A n \in L \ {a} : nxt[n] # a PROVE FALSE
    OBVIOUS
  <2>2. L \ {a} \in SUBSET Nodes
    BY <1>1
  <2> DEFINE S == L \ {a}
  <2>3. h \in S /\ \A n \in S : nxt[n] # NULL => nxt[n] \in S
    BY <1>1, <2>1
  <2> HIDE DEF S
  <2>4. L \subseteq S
    BY <1>0, <2>2, <2>3, ReachLeast DEF S
  <2>5. QED
    BY <1>3, <2>4 DEF S
<1>5. nxt[a] # a
  BY <1>3, <1>4
<1>6. R \subseteq L \ {a}
  <2> DEFINE S == L \ {a}
  <2>1. S \in SUBSET Nodes /\ h \in S
    BY <1>1
  <2>2. \A n \in S : new[n] # NULL => new[n] \in S
    BY <1>1, <1>3, <1>5
  <2> HIDE DEF S
  <2>3. R \subseteq S
    BY <1>0, <2>1, <2>2, ReachLeast
  <2>4. QED
    BY <2>3 DEF S
<1>7. L \ {a} \subseteq R
  <2> DEFINE S == IF p \in R THEN (L \cap R) \cup {a} ELSE (L \cap R) \ {a}
  <2>1. S \in SUBSET Nodes /\ h \in S
    BY <1>1, <1>2
  <2>2. ASSUME NEW n \in S, nxt[n] # NULL PROVE nxt[n] \in S
    <3>1. n \in L /\ nxt[n] \in L
      BY <1>1, <1>3, <2>2
    <3>2. CASE n = a
      BY <1>2, <1>3, <1>4, <1>5, <2>2, <3>1, <3>2
    <3>3. CASE n = p
      BY <1>2, <1>3, <1>4, <1>5, <2>2, <3>1, <3>3
    <3>4. CASE n # a /\ n # p
      <4>1. nxt[n] # a
        BY <1>3, <1>4, <3>1, <3>4
      <4>2. n \in R /\ new[n] = nxt[n]
        BY <1>3, <2>2, <3>1, <3>4, <4>1
      <4>3. QED
        BY <1>2, <2>2, <3>1, <4>1, <4>2
    <3>5. QED
      BY <3>2, <3>3, <3>4
  <2> HIDE DEF S
  <2>3. L \subseteq S
    BY <1>0, <2>1, <2>2, ReachLeast
  <2>4. QED
    BY <2>3 DEF S
<1> HIDE DEF L, R
<1>8. R = L \ {a}
  BY <1>6, <1>7
<1>9. IsList(h, new)
  <2>1. \A n \in R : new[n] # h
    BY <1>3, <1>8
  <2>2. \A m, n \in R : new[m] = new[n] /\ new[m] # NULL => m = n
    BY <1>3, <1>8
  <2>3. \E n \in R : new[n] = NULL
    <3>1. PICK z \in L : nxt[z] = NULL
      BY <1>0 DEF IsList, L
    <3>2. new[IF z = a THEN p ELSE z] = NULL
      BY <1>3, <1>4, <3>1
    <3>3. QED
      BY <1>4, <1>8, <3>1, <3>2
  <2>4. QED
    BY <2>1, <2>2, <2>3 DEF IsList, R
<1>10. QED
  BY <1>8, <1>9 DEF L, R

(* The nodes of a list are sorted by abs.                                   *)
SortedBy(h, nxt, abs) ==
  \A n \in reach(h, nxt) : nxt[n] \in Nodes => abs[n] <= abs[nxt[n]]

(* In a sorted list no node expires before the head.                        *)
LEMMA HeadIsLeast ==
  ASSUME NEW nxt \in Links, NEW h \in Nodes, NEW abs \in [Nodes -> Int],
         SortedBy(h, nxt, abs)
  PROVE  \A n \in reach(h, nxt) : abs[h] <= abs[n]
<1> DEFINE S == {n \in reach(h, nxt) : abs[h] <= abs[n]}
<1>1. h \in Heads /\ h # NULL
  BY TimeoutAssumption DEF Heads
<1>2. reach(h, nxt) \subseteq Nodes /\ h \in reach(h, nxt)
  BY <1>1, ReachClosed
<1>3. h \in S /\ S \in SUBSET Nodes
  BY <1>2
<1>4. ASSUME NEW n \in S, nxt[n] # NULL PROVE nxt[n] \in S
  <2>1. nxt[n] \in reach(h, nxt) /\ n \in reach(h, nxt)
    BY <1>1, <1>4, ReachClosed
  <2>2. abs[n] <= abs[nxt[n]]
    BY <1>2, <2>1 DEF SortedBy
  <2>3. abs[h] \in Int /\ abs[n] \in Int /\ abs[nxt[n]] \in Int
    BY <1>2, <2>1
  <2>4. QED
    BY <2>1, <2>2, <2>3
<1> HIDE DEF S
<1>5. reach(h, nxt) \subseteq S
  BY <1>1, <1>3, <1>4, ReachLeast
<1>6. QED
  BY <1>5 DEF S

-----------------------------------------------------------------------------
(* Arithmetic modulo n                                                      *)
LEMMA ModUnique ==
  ASSUME NEW n \in Nat \ {0}, NEW q \in Int, NEW r \in 0 .. n - 1
  PROVE  (n * q + r) % n = r
<1> DEFINE x == n * q + r
<1> DEFINE p == x \div n
<1> DEFINE s == x % n
<1>1. x \in Int /\ x = n * p + s /\ s \in 0 .. n - 1 /\ p \in Int
  OBVIOUS
<1> HIDE DEF p, s
<1>2. n * (q - p) = s - r /\ q - p \in Int
  BY <1>1
<1>3. q - p = 0
  <2>1. CASE q - p >= 1
    <3>1. n * (q - p) >= n
      BY <1>2, <2>1
    <3>2. QED
      BY <1>1, <1>2, <3>1
  <2>2. CASE q - p <= -1
    <3>1. n * (q - p) <= -n
      BY <1>2, <2>2
    <3>2. QED
      BY <1>1, <1>2, <3>1
  <2>3. QED
    BY <1>2, <2>1, <2>2
<1>4. s = r
  <2>1. n * (q - p) = 0
    BY <1>3
  <2>2. QED
    BY <1>1, <1>2, <2>1
<1>5. QED
  BY <1>4 DEF s

(* One subtraction or one addition of n is enough near the range.           *)
LEMMA ModSmall ==
  ASSUME NEW n \in Nat \ {0}, NEW x \in Int, -n <= x, x < 2 * n
  PROVE  x % n = IF x < 0 THEN x + n ELSE IF x < n THEN x ELSE x - n
<1>1. CASE x < 0
  <2>1. n * (-1) + (x + n) = x
    OBVIOUS
  <2>2. QED
    BY <1>1, <2>1, ModUnique
<1>2. CASE x >= 0 /\ x < n
  <2>1. n * 0 + x = x
    OBVIOUS
  <2>2. QED
    BY <1>2, <2>1, ModUnique
<1>3. CASE x >= n
  <2>1. n * 1 + (x - n) = x
    OBVIOUS
  <2>2. QED
    BY <1>3, <2>1, ModUnique
<1>4. QED
  BY <1>1, <1>2, <1>3

(* A difference may be taken of the residues.                               *)
LEMMA ModDifference ==
  ASSUME NEW n \in Nat \ {0}, NEW x \in Int, NEW y \in Int
  PROVE  ((x % n) - (y % n)) % n = (x - y) % n
<1> DEFINE p == x \div n
<1> DEFINE q == y \div n
<1> DEFINE r == x % n
<1> DEFINE s == y % n
<1>1. x = n * p + r /\ r \in 0 .. n - 1 /\ p \in Int
  OBVIOUS
<1>2. y = n * q + s /\ s \in 0 .. n - 1 /\ q \in Int
  OBVIOUS
<1>3. (r - s) % n = (x - y) % n
  <2> HIDE DEF p, q, r, s
  <2>0. n * (p - q) = n * p - n * q /\ n * p \in Int /\ n * q \in Int
    BY <1>1, <1>2
  <2>1. x - y = n * (p - q) + (r - s)
    BY <1>1, <1>2, <2>0
  <2>2. (r - s) % n = IF r < s THEN r - s + n ELSE r - s
    <3>1. r - s \in Int /\ -n <= r - s /\ r - s < n /\ r \in Int /\ s \in Int
      BY <1>1, <1>2
    <3>2. \A z \in Int : -n <= z /\ z < 2 * n =>
            z % n = IF z < 0 THEN z + n ELSE IF z < n THEN z ELSE z - n
      BY ModSmall
    <3>3. QED
      BY <3>1, <3>2
  <2>3. CASE r >= s
    <3>1. r - s \in 0 .. n - 1 /\ p - q \in Int
      BY <1>1, <1>2, <2>3
    <3>2. (n * (p - q) + (r - s)) % n = r - s
      BY <3>1, ModUnique
    <3>3. QED
      BY <1>1, <1>2, <2>1, <2>2, <2>3, <3>2
  <2>4. CASE r < s
    <3>1. r - s + n \in 0 .. n - 1 /\ p - q - 1 \in Int
      BY <1>1, <1>2, <2>4
    <3>2. (n * (p - q - 1) + (r - s + n)) % n = r - s + n
      BY <3>1, ModUnique
    <3>3. n * (p - q - 1) + (r - s + n) = n * (p - q) + (r - s)
      BY <1>1, <1>2
    <3>4. QED
      BY <2>1, <2>2, <2>4, <3>2, <3>3
  <2>5. QED
    BY <1>1, <1>2, <2>3, <2>4
<1>4. QED
  BY <1>3

(* CNT++                                                                    *)
LEMMA CountUp ==
  ASSUME NEW n \in Nat \ {0}, NEW c \in 0 .. n - 1
  PROVE  (c + 1) % n = IF c = n - 1 THEN 0 ELSE c + 1
<1>1. CASE c = n - 1
  <2>1. n * 1 + 0 = c + 1 /\ 0 \in 0 .. n - 1
    BY <1>1
  <2>2. (n * 1 + 0) % n = 0
    BY <2>1, ModUnique
  <2>3. QED
    BY <1>1, <2>1, <2>2
<1>2. CASE c # n - 1
  <2>1. n * 0 + (c + 1) = c + 1 /\ c + 1 \in 0 .. n - 1
    BY <1>2
  <2>2. (n * 0 + (c + 1)) % n = c + 1
    BY <2>1, ModUnique
  <2>3. QED
    BY <1>2, <2>1, <2>2
<1>3. QED
  BY <1>1, <1>2

(* The same of absolute times                                               *)
LEMMA AbsSmall ==
  \A x \in Int : -ABS <= x /\ x < 2 * ABS =>
    x % ABS = IF x < 0 THEN x + ABS ELSE IF x < ABS THEN x ELSE x - ABS
BY ModSmall, TimeoutAssumption

(* and their differences                                                    *)
LEMMA AbsDifference ==
  \A x, y \in Int : ((x % ABS) - (y % ABS)) % ABS = (x - y) % ABS
BY ModDifference, TimeoutAssumption

-----------------------------------------------------------------------------
(* The walk of scheduler_sorted_insert ends at a node that expires no later *)
(* than the new timer, and before one that does.                            *)
LEMMA InsertPoint ==
  ASSUME next \in Links, list_head \in Nodes, IsList(list_head, next),
         NEW abs \in [Nodes -> Int], NEW time \in Int, abs[list_head] <= time
  PROVE  LET p == insertAfter(time, abs)
         IN /\ p \in chain(list_head) /\ abs[p] <= time
            /\ next[p] # NULL => abs[next[p]] > time
<1> DEFINE early == [n \in Nodes |-> IF next[n] # NULL /\ abs[next[n]] <= time
                                     THEN next[n] ELSE NULL]
<1> DEFINE W == reach(list_head, early)
<1> DEFINE L == reach(list_head, next)
<1> DEFINE S == {n \in L : abs[n] <= time}
<1>1. early \in Links /\ list_head \in Heads /\ list_head # NULL
  BY TimeoutAssumption DEF Links, Heads
<1>2. \A n \in Nodes : early[n] # NULL => early[n] = next[n] /\ abs[next[n]] <= time
  OBVIOUS
<1>3. \A n \in Nodes : early[n] = NULL => next[n] = NULL \/ ~(abs[next[n]] <= time)
  OBVIOUS
<1>4. insertAfter(time, abs) = CHOOSE n \in W : early[n] = NULL
  BY DEF insertAfter
<1> HIDE DEF early
<1>5. L \subseteq Nodes /\ list_head \in L /\ \A n \in L : next[n] # NULL => next[n] \in L
  BY <1>1, ReachClosed
<1>6. W \subseteq Nodes /\ list_head \in W /\ \A n \in W : early[n] # NULL => early[n] \in W
  BY <1>1, ReachClosed
<1>7. W \subseteq S
  <2>1. list_head \in S /\ S \in SUBSET Nodes
    BY <1>5
  <2>2. \A n \in S : early[n] # NULL => early[n] \in S
    BY <1>2, <1>5
  <2> HIDE DEF S
  <2>3. QED
    BY <1>1, <2>1, <2>2, ReachLeast
<1>8. \E n \in W : early[n] = NULL
  <2>1. SUFFICES ASSUME \A n \in W : early[n] # NULL PROVE FALSE
    OBVIOUS
  <2>2. \A n \in W : next[n] # NULL => next[n] \in W
    BY <1>2, <1>6, <2>1
  <2>3. W \in SUBSET Nodes
    BY <1>6
  <2> HIDE DEF W
  <2>4. L \subseteq W
    BY <1>1, <1>6, <2>2, <2>3, ReachLeast
  <2>5. PICK z \in L : next[z] = NULL
    BY <1>1 DEF IsList
  <2>6. early[z] = next[z]
    BY <1>2, <1>6, <2>1, <2>4, <2>5
  <2>7. QED
    BY <2>1, <2>4, <2>5, <2>6
<1> DEFINE p == insertAfter(time, abs)
<1>9. p \in W /\ early[p] = NULL
  BY <1>4, <1>8
<1>10. p \in L /\ abs[p] <= time
  BY <1>7, <1>9
<1>11. next[p] # NULL => abs[next[p]] > time
  <2>1. next[p] # NULL => next[p] \in Nodes /\ abs[next[p]] \in Int
    BY <1>5, <1>10
  <2>2. QED
    BY <1>3, <1>5, <1>9, <1>10, <2>1
<1>12. QED
  BY <1>10, <1>11 DEF chain

-----------------------------------------------------------------------------
(* The invariant                                                            *)

(* the timer that is being created is not in the list yet *)
waiting(t) == status[t] = "pending" /\ ~(pc = "create" /\ t = arg)

Types ==
  /\ TypeOK
  /\ absolute_time \in [Nodes -> 0 .. ABS - 1]

Lists ==
  /\ IsList(list_head, next) /\ IsList(queue_head, next)
  /\ chain(list_head) \cap Timers = {t \in Timers : waiting(t)}
  /\ chain(queue_head) = {t \in Timers : status[t] = "due"}
  /\ scheduler_dummy \in chain(list_head) => list_head = scheduler_dummy

Calls ==
  /\ pc = "create" => /\ arg \in Timers /\ status[arg] = "pending" /\ ~ovfEnabled
                      /\ asked[arg] \in Timeouts
  /\ pc = "delete" => arg \in Timers /\ list_head # NULL
  /\ ops = 0 => \A t \in Timers : asked[t] = 0

(* When the interrupt is on: a list that is not empty is being timed.       *)
Armed ==
  /\ is_running = (list_head # NULL)
  /\ list_head # NULL /\ pc # "create" => ovfEnabled
  /\ list_head # NULL /\ ovf => pc = "idle"
  /\ list_head = NULL => last = 0 /\ (ovfEnabled => ops = 0)

(* the ticks from the last timeout to that of node n, and those passed *)
left(n) == (absolute_time[n] - last) % ABS
elapsed == IF list_head = NULL THEN 0 ELSE CNT - load + (IF ovf THEN TOP + 1 ELSE 0)

(* The counter was loaded for the node at the head.                         *)
Counts ==
  list_head # NULL => /\ left(list_head) = TOP - load
                      /\ IF ovf THEN CNT = 0 ELSE CNT >= load

(* What is left of the time of a timer is enough.                           *)
Ripe(t) == age[t] >= asked[t] \/ age[t] + left(t) - elapsed >= asked[t]
OnTime ==
  \A t \in Timers : /\ status[t] = "due" => age[t] >= asked[t]
                    /\ waiting(t) => Ripe(t)

IInv == Types /\ Lists /\ Sorted /\ Calls /\ Armed /\ Counts /\ OnTime

-----------------------------------------------------------------------------
(* scheduler_start_timer_at_head, on any sorted list without the dummy      *)
LEMMA StartAtHead ==
  ASSUME NEW h \in Heads, NEW nxt \in Links, NEW abs \in [Nodes -> 0 .. ABS - 1],
         NEW base \in 0 .. ABS - 1, NEW q \in Heads,
         startAtHead(h, nxt, abs, base),
         IsList(h, nxt), SortedBy(h, nxt, abs), IsList(q, nxt),
         scheduler_dummy \notin reach(h, nxt), scheduler_dummy \notin reach(q, nxt),
         h # NULL /\ abs[h] < base => ABS - base <= TOP,
         load \in 0 .. TOP, CNT \in 0 .. TOP
  PROVE  /\ list_head' \in Heads /\ next' \in Links
         /\ absolute_time' \in [Nodes -> 0 .. ABS - 1]
         /\ last' = IF h = NULL THEN 0 ELSE base
         /\ load' \in 0 .. TOP /\ CNT' \in 0 .. TOP
         /\ ovfEnabled' = (h # NULL) /\ is_running' = (h # NULL)
         /\ list_head' = NULL <=> h = NULL
         /\ IsList(list_head', next') /\ IsList(q, next')
         /\ reach(list_head', next') \cap Timers = reach(h, nxt) \cap Timers
         /\ reach(q, next') = reach(q, nxt)
         /\ scheduler_dummy \in reach(list_head', next') => list_head' = scheduler_dummy
         /\ SortedBy(list_head', next', absolute_time')
         /\ \A t \in Timers : absolute_time'[t] = abs[t]
         /\ h # NULL => /\ (absolute_time'[list_head'] - base) % ABS = TOP - load'
                        /\ CNT' = load'
<1> USE TimeoutAssumption
<1> DEFINE period == (abs[h] - base) % ABS
<1> DEFINE far == period > TOP
<1> DEFINE dummy == scheduler_dummy
<1>0. NULL \notin Nodes /\ dummy \in Nodes /\ Timers \subseteq Nodes /\ dummy \notin Timers
  BY DEF Nodes
<1>1. CASE h = NULL
  <2>1. /\ list_head' = NULL /\ next' = nxt /\ absolute_time' = abs /\ last' = 0
        /\ load' = load /\ CNT' = CNT /\ ovfEnabled' = FALSE /\ is_running' = FALSE
    BY <1>1 DEF startAtHead
  <2>2. QED
    BY <1>1, <2>1, ReachNothing
<1>2. CASE h # NULL /\ ~far
  <2>1. /\ list_head' = h /\ next' = nxt /\ absolute_time' = abs /\ last' = base
        /\ load' = TOP - period /\ CNT' = load' /\ ovfEnabled' = TRUE /\ is_running' = TRUE
    BY <1>2 DEF startAtHead
  <2>2. h \in Nodes /\ abs[h] \in 0 .. ABS - 1
    BY <1>2 DEF Heads
  <2>3. period \in 0 .. TOP
    BY <1>2, <2>2
  <2>4. load' \in 0 .. TOP /\ period = TOP - load'
    BY <2>1, <2>3
  <2>5. QED
    BY <1>2, <2>1, <2>4
<1>3. CASE h # NULL /\ far
  <2>1. /\ list_head' = dummy /\ next' = [nxt EXCEPT ![dummy] = h]
        /\ absolute_time' = [abs EXCEPT ![dummy] = (base + TOP) % ABS]
        /\ last' = base /\ load' = 0 /\ CNT' = 0
        /\ ovfEnabled' = TRUE /\ is_running' = TRUE
    BY <1>3 DEF startAtHead
  <2>2. h \in Nodes /\ abs[h] \in 0 .. ABS - 1 /\ h \in reach(h, nxt)
    BY <1>3, ReachClosed DEF Heads
  <2>3. next' \in Links /\ next'[dummy] = h /\ \A n \in Nodes : n # dummy => next'[n] = nxt[n]
    BY <1>0, <2>1, <2>2 DEF Links
  <2>4. reach(h, next') = reach(h, nxt) /\ IsList(h, next')
    <3>1. \A n \in reach(h, nxt) : next'[n] = nxt[n]
      BY <2>3, ReachClosed
    <3>2. QED
      BY <2>3, <3>1, ReachFrame
  <2>5. reach(q, next') = reach(q, nxt) /\ IsList(q, next')
    <3>1. \A n \in reach(q, nxt) : next'[n] = nxt[n]
      BY <2>3, ReachClosed
    <3>2. QED
      BY <2>3, <3>1, ReachFrame
  <2>6. reach(dummy, next') = reach(h, nxt) \cup {dummy} /\ IsList(dummy, next')
    BY <1>0, <2>3, <2>4, ReachPrepend
  <2>7. /\ absolute_time' \in [Nodes -> 0 .. ABS - 1]
        /\ absolute_time'[dummy] = (base + TOP) % ABS
        /\ \A n \in Nodes : n # dummy => absolute_time'[n] = abs[n]
    <3>1. (base + TOP) % ABS \in 0 .. ABS - 1
      OBVIOUS
    <3>2. QED
      BY <1>0, <2>1, <3>1
  <2>8. TOP < ABS /\ (base + TOP) % ABS <= abs[h]
    <3>0. abs[h] - base \in Int /\ -ABS <= abs[h] - base /\ abs[h] - base < ABS
      BY <2>2
    <3>1. period = IF abs[h] < base THEN abs[h] - base + ABS ELSE abs[h] - base
      BY <2>2, <3>0, AbsSmall
    <3>2. TOP < ABS /\ base + TOP \in Int /\ 0 <= base + TOP /\ base + TOP < 2 * ABS
      BY <1>3, <2>2, <3>1
    <3>3. (base + TOP) % ABS = IF base + TOP < ABS THEN base + TOP ELSE base + TOP - ABS
      BY <3>2, AbsSmall
    <3>4. QED
      BY <1>3, <2>2, <3>1, <3>2, <3>3
  <2>9. (absolute_time'[dummy] - base) % ABS = TOP
    <3>1. base + TOP \in Int /\ base \in Int /\ base % ABS = base /\ TOP % ABS = TOP
      BY <2>8, AbsSmall
    <3>2. (((base + TOP) % ABS) - (base % ABS)) % ABS = ((base + TOP) - base) % ABS
      BY <3>1, AbsDifference
    <3>3. (base + TOP) - base = TOP
      OBVIOUS
    <3>4. QED
      BY <2>7, <3>1, <3>2, <3>3
  <2>10. SortedBy(dummy, next', absolute_time')
    <3>1. ASSUME NEW n \in reach(h, nxt), next'[n] \in Nodes
          PROVE  absolute_time'[n] <= absolute_time'[next'[n]]
      <4>1. n \in Nodes /\ n # dummy /\ next'[n] = nxt[n]
        BY <2>3, ReachClosed
      <4>2. nxt[n] \in reach(h, nxt) /\ nxt[n] # dummy
        BY <1>0, <3>1, <4>1, ReachClosed
      <4>3. QED
        BY <2>7, <3>1, <4>1, <4>2 DEF SortedBy
    <3>2. absolute_time'[dummy] <= absolute_time'[next'[dummy]]
      BY <2>2, <2>3, <2>7, <2>8
    <3>3. QED
      BY <2>6, <3>1, <3>2 DEF SortedBy
  <2>11. reach(dummy, next') \cap Timers = reach(h, nxt) \cap Timers
    BY <1>0, <2>6
  <2>12. dummy \in Heads /\ dummy # NULL /\ 0 \in 0 .. TOP
    BY <1>0 DEF Heads
  <2>13. \A t \in Timers : absolute_time'[t] = abs[t]
    BY <1>0, <2>7
  <2> HIDE DEF far, period
  <2>14. (absolute_time'[list_head'] - base) % ABS = TOP - load'
    BY <2>1, <2>9
  <2>15. QED
    BY <1>3, <2>1, <2>3, <2>4, <2>5, <2>6, <2>7, <2>10, <2>11, <2>12, <2>13, <2>14
<1>4. QED
  BY <1>1, <1>2, <1>3

-----------------------------------------------------------------------------
(* The boot state satisfies the invariant.                                  *)
LEMMA InitHolds == Init => IInv
<1> SUFFICES ASSUME Init PROVE IInv
  OBVIOUS
<1> USE TimeoutAssumption
<1>1. next \in Links /\ \A n \in Nodes : next[n] = NULL
  BY DEF Init, Links
<1>2. chain(list_head) = {} /\ chain(queue_head) = {}
  BY <1>1, ReachNothing DEF Init, chain
<1>3. IsList(list_head, next) /\ IsList(queue_head, next)
  BY <1>2 DEF Init, chain, IsList
<1>4. Types
  <2>1. 0 \in 0 .. MaxAge /\ 0 \in 0 .. ABS - 1 /\ 0 \in 0 .. TOP /\ 0 \in 0 .. MaxOps
    BY DEF MaxAge
  <2>2. absolute_time \in [Nodes -> 0 .. ABS - 1] /\ absolute_time \in [Nodes -> Int]
    BY <2>1 DEF Init
  <2>3. /\ asked \in [Timers -> Timeouts \cup {0}] /\ age \in [Timers -> 0 .. MaxAge]
        /\ status \in [Timers -> {"off", "pending", "due"}]
    BY <2>1 DEF Init
  <2>4. QED
    BY <1>1, <2>1, <2>2, <2>3 DEF Init, Types, TypeOK, Links
<1>5. Lists
  BY <1>2, <1>3 DEF Init, Lists, waiting
<1>6. Sorted /\ Calls /\ Armed /\ Counts
  BY <1>2 DEF Init, Sorted, Calls, Armed, Counts
<1>7. OnTime
  BY DEF Init, OnTime, waiting
<1>8. QED
  BY <1>4, <1>5, <1>6, <1>7 DEF IInv

(* A timeout is shorter than the absolute time is wide.                     *)
LEMMA AskedBound == TypeOK => \A t \in Timers : asked[t] \in 0 .. ABS
<1> SUFFICES ASSUME TypeOK, NEW t \in Timers PROVE asked[t] \in 0 .. ABS
  OBVIOUS
<1>1. asked[t] \in Timeouts \cup {0}
  BY DEF TypeOK
<1>2. ABS \in Nat /\ TOP \in Nat /\ \A d \in Timeouts : d \in 1 .. ABS - 2 * (TOP + 1)
  BY TimeoutAssumption
<1>3. CASE asked[t] = 0
  BY <1>2, <1>3
<1>4. CASE asked[t] \in Timeouts
  <2>1. asked[t] \in 1 .. ABS - 2 * (TOP + 1)
    BY <1>2, <1>4
  <2>2. QED
    BY <1>2, <2>1
<1>5. QED
  BY <1>1, <1>3, <1>4

(* A tick passes for every timer that waits, and for the counter.           *)
LEMMA TickHolds ==
  ASSUME IInv, tick, ~raced'
  PROVE  IInv'
<1> USE TimeoutAssumption
<1>0. Types /\ TypeOK /\ Lists /\ Sorted /\ Calls /\ Armed /\ Counts /\ OnTime
  BY DEF IInv, Types
<1>1. /\ served /\ (CNT = TOP /\ list_head # NULL => pc = "idle")
      /\ CNT' = (CNT + 1) % (TOP + 1) /\ ovf' = (ovf \/ CNT = TOP)
      /\ age' = [t \in Timers |-> IF status[t] = "pending" /\ age[t] < MaxAge
                                  THEN age[t] + 1 ELSE age[t]]
  BY DEF tick
<1>2. /\ next' = next /\ absolute_time' = absolute_time /\ list_head' = list_head
      /\ last' = last /\ queue_head' = queue_head /\ load' = load
      /\ ovfEnabled' = ovfEnabled /\ is_running' = is_running /\ pc' = pc /\ arg' = arg
      /\ asked' = asked /\ status' = status /\ ops' = ops
  BY DEF tick, list
<1>3. CNT \in 0 .. TOP /\ load \in 0 .. TOP /\ ovf \in BOOLEAN
  BY <1>0 DEF TypeOK
<1>4. CNT' = IF CNT = TOP THEN 0 ELSE CNT + 1
  <2>1. PICK n \in Nat \ {0} : n = TOP + 1
    OBVIOUS
  <2>2. (CNT + 1) % n = IF CNT = n - 1 THEN 0 ELSE CNT + 1
    BY <1>3, <2>1, CountUp
  <2>3. QED
    BY <1>1, <1>3, <2>1, <2>2
<1>5. list_head # NULL => ~ovf
  BY <1>0, <1>1 DEF Armed, served
<1>6. MaxAge \in Nat /\ ABS <= MaxAge /\ \A t \in Timers : age[t] \in 0 .. MaxAge /\ age'[t] \in 0 .. MaxAge
  BY <1>0, <1>1 DEF TypeOK, MaxAge
<1>7. Types'
  <2>1. CNT' \in 0 .. TOP /\ ovf' \in BOOLEAN /\ age' \in [Timers -> 0 .. MaxAge]
    BY <1>1, <1>3, <1>4, <1>6
  <2>2. QED
    BY <1>0, <1>2, <2>1 DEF Types, TypeOK
<1>8. Lists' /\ Sorted' /\ Calls'
  BY <1>0, <1>1, <1>2 DEF Lists, Sorted, Calls, IsList, chain, waiting
<1>9. Armed'
  BY <1>0, <1>1, <1>2 DEF Armed
<1>10. Counts'
  <2>1. SUFFICES ASSUME list_head # NULL
                 PROVE  left(list_head)' = TOP - load' /\ IF ovf' THEN CNT' = 0 ELSE CNT' >= load'
    BY <1>2 DEF Counts
  <2>2. left(list_head)' = left(list_head)
    BY <1>2 DEF left
  <2>3. left(list_head) = TOP - load /\ CNT >= load /\ ~ovf
    BY <1>0, <1>5, <2>1 DEF Counts
  <2>4. IF ovf' THEN CNT' = 0 ELSE CNT' >= load
    <3>1. CASE CNT = TOP
      BY <1>1, <1>4, <3>1
    <3>2. CASE CNT # TOP
      <4>1. ~ovf' /\ CNT' = CNT + 1
        BY <1>1, <1>4, <2>3, <3>2
      <4>2. CNT + 1 >= load
        BY <1>3, <2>3
      <4>3. QED
        BY <4>1, <4>2
    <3>3. QED
      BY <3>1, <3>2
  <2>5. QED
    BY <1>2, <2>2, <2>3, <2>4
<1>11. OnTime'
  <2>1. ASSUME NEW t \in Timers, status[t] = "due"
        PROVE  age'[t] >= asked[t]
    BY <1>0, <1>1, <2>1 DEF OnTime
  <2>2. ASSUME NEW t \in Timers, waiting(t)
        PROVE  Ripe(t)'
    <3>1. status[t] = "pending" /\ Ripe(t)
      BY <1>0, <2>2 DEF OnTime, waiting
    <3>10. asked[t] \in 0 .. ABS /\ age[t] \in 0 .. MaxAge
      BY <1>0, <1>6, AskedBound
    <3>2. list_head # NULL /\ t \in Nodes
      <4>1. t \in chain(list_head)
        BY <1>0, <2>2 DEF Lists
      <4>2. next \in Links
        BY <1>0 DEF TypeOK, Links
      <4>3. QED
        BY <4>1, <4>2, ReachNothing DEF chain, Nodes
    <3>3. elapsed' = elapsed + 1 /\ elapsed \in Int
      <4>1. elapsed = CNT - load /\ CNT \in Int /\ load \in Int
        BY <1>3, <1>5, <3>2 DEF elapsed
      <4>2. elapsed' = CNT' - load + (IF CNT = TOP THEN TOP + 1 ELSE 0)
        BY <1>1, <1>2, <1>5, <3>2 DEF elapsed
      <4>3. QED
        BY <1>4, <4>1, <4>2
    <3>4. left(t)' = left(t)
      BY <1>2 DEF left
    <3>5. left(t) \in Int
      BY <1>0, <3>2 DEF left, Types, TypeOK
    <3>6. CASE age[t] < MaxAge
      <4>1. age'[t] = age[t] + 1
        BY <1>1, <3>1, <3>6
      <4>2. QED
        BY <1>2, <3>1, <3>10, <3>3, <3>4, <3>5, <4>1 DEF Ripe
    <3>7. CASE age[t] >= MaxAge
      <4>1. age'[t] = age[t]
        BY <1>1, <1>6, <3>7
      <4>2. QED
        BY <1>2, <1>6, <3>10, <3>7, <4>1 DEF Ripe
    <3>8. QED
      BY <1>6, <3>10, <3>6, <3>7
  <2>3. QED
    BY <1>2, <2>1, <2>2 DEF OnTime, waiting
<1>12. QED
  BY <1>7, <1>8, <1>9, <1>10, <1>11 DEF IInv

(* What the steps below need of the invariant                               *)
LEMMA Facts ==
  ASSUME IInv
  PROVE  /\ TypeOK /\ Types /\ Lists /\ Sorted /\ Calls /\ Armed /\ Counts /\ OnTime
         /\ next \in Links /\ list_head \in Heads /\ queue_head \in Heads
         /\ absolute_time \in [Nodes -> 0 .. ABS - 1] /\ last \in 0 .. ABS - 1
         /\ CNT \in 0 .. TOP /\ load \in 0 .. TOP
         /\ status \in [Timers -> {"off", "pending", "due"}]
         /\ \A t \in Timers : age[t] \in 0 .. MaxAge /\ asked[t] \in 0 .. ABS
<1>1. TypeOK /\ Types /\ Lists /\ Sorted /\ Calls /\ Armed /\ Counts /\ OnTime
  BY DEF IInv, Types
<1>2. /\ next \in Links /\ list_head \in Heads /\ queue_head \in Heads
      /\ absolute_time \in [Nodes -> 0 .. ABS - 1] /\ last \in 0 .. ABS - 1
      /\ CNT \in 0 .. TOP /\ load \in 0 .. TOP
      /\ status \in [Timers -> {"off", "pending", "due"}]
      /\ age \in [Timers -> 0 .. MaxAge]
  BY <1>1 DEF Types, TypeOK, Links, Heads, Nodes
<1>3. \A t \in Timers : age[t] \in 0 .. MaxAge /\ asked[t] \in 0 .. ABS
  BY <1>1, <1>2, AskedBound
<1>4. QED
  BY <1>1, <1>2, <1>3

(* In a quiet state a list that is not empty is timed.                      *)
LEMMA QuietMeansNoOverflow ==
  ASSUME IInv, served, list_head # NULL
  PROVE  ~ovf
BY Facts DEF Armed, served

(* The new timer waits outside the list.                                    *)
LEMMA BeginCreateHolds ==
  ASSUME IInv, NEW t \in Timers, NEW timeout \in Timeouts, beginCreate(t, timeout)
  PROVE  IInv'
<1> USE TimeoutAssumption
<1>0. /\ TypeOK /\ Types /\ Lists /\ Sorted /\ Calls /\ Armed /\ Counts /\ OnTime
      /\ status \in [Timers -> {"off", "pending", "due"}]
  BY Facts
<1>1. /\ served /\ pc = "idle" /\ ops < MaxOps /\ status[t] = "off"
      /\ pc' = "create" /\ arg' = t /\ ops' = ops + 1 /\ ovfEnabled' = FALSE
      /\ asked' = [asked EXCEPT ![t] = timeout] /\ age' = [age EXCEPT ![t] = 0]
      /\ status' = [status EXCEPT ![t] = "pending"]
      /\ next' = next /\ absolute_time' = absolute_time /\ list_head' = list_head
      /\ last' = last /\ queue_head' = queue_head /\ load' = load /\ CNT' = CNT
      /\ is_running' = is_running /\ ovf' = ovf
  BY DEF beginCreate, list
<1>2. Types'
  <2>1. ops' \in 0 .. MaxOps /\ 0 \in 0 .. MaxAge /\ ops' # 0
    BY <1>0, <1>1 DEF TypeOK, MaxAge
  <2>2. /\ asked' \in [Timers -> Timeouts \cup {0}] /\ age' \in [Timers -> 0 .. MaxAge]
        /\ status' \in [Timers -> {"off", "pending", "due"}]
    BY <1>0, <1>1, <2>1 DEF TypeOK
  <2>3. QED
    BY <1>0, <1>1, <2>1, <2>2 DEF Types, TypeOK
<1>3. \A x \in Timers : (waiting(x)' <=> waiting(x)) /\ (status'[x] = "due" <=> status[x] = "due")
  BY <1>0, <1>1 DEF waiting
<1>4. Lists'
  BY <1>0, <1>1, <1>3 DEF Lists, chain
<1>5. Sorted'
  BY <1>0, <1>1 DEF Sorted, chain
<1>6. Calls'
  <2>1. ops' # 0 /\ asked'[t] = timeout /\ age'[t] = 0 /\ status'[t] = "pending"
    BY <1>0, <1>1 DEF TypeOK
  <2>2. QED
    BY <1>1, <2>1 DEF Calls
<1>7. Armed'
  BY <1>0, <1>1, QuietMeansNoOverflow DEF Armed
<1>8. Counts'
  BY <1>0, <1>1 DEF Counts, left
<1>9. OnTime'
  <2>1. \A x \in Timers : x # t => age'[x] = age[x] /\ asked'[x] = asked[x]
    BY <1>0, <1>1 DEF TypeOK
  <2>2. \A x \in Timers : waiting(x)' => x # t
    BY <1>1 DEF waiting
  <2>3. status'[t] = "pending"
    BY <1>0, <1>1
  <2>4. \A x \in Timers : left(x)' = left(x)
    BY <1>1 DEF left
  <2>5. elapsed' = elapsed
    BY <1>1 DEF elapsed
  <2>6. \A x \in Timers : x # t => Ripe(x)' = Ripe(x)
    BY <2>1, <2>4, <2>5 DEF Ripe
  <2>7. ASSUME NEW x \in Timers, status'[x] = "due" PROVE age'[x] >= asked'[x]
    BY <1>0, <1>3, <2>1, <2>3, <2>7 DEF OnTime
  <2>8. ASSUME NEW x \in Timers, waiting(x)' PROVE Ripe(x)'
    BY <1>0, <1>3, <2>2, <2>6, <2>8 DEF OnTime
  <2>9. QED
    BY <2>7, <2>8 DEF OnTime
<1>10. QED
  BY <1>2, <1>4, <1>5, <1>6, <1>7, <1>8, <1>9 DEF IInv

(* Nothing moves before the interrupt is off.                               *)
LEMMA BeginDeleteHolds ==
  ASSUME IInv, NEW t \in Timers, beginDelete(t)
  PROVE  IInv'
<1> USE TimeoutAssumption
<1>0. TypeOK /\ Types /\ Lists /\ Sorted /\ Calls /\ Armed /\ Counts /\ OnTime
  BY Facts
<1>1. /\ served /\ pc = "idle" /\ ops < MaxOps /\ asked[t] # 0 /\ ops' = ops + 1
      /\ pc' = IF list_head = NULL THEN "idle" ELSE "delete"
      /\ arg' = IF list_head = NULL THEN NULL ELSE t
      /\ next' = next /\ absolute_time' = absolute_time /\ list_head' = list_head
      /\ last' = last /\ queue_head' = queue_head /\ load' = load /\ CNT' = CNT
      /\ is_running' = is_running /\ ovfEnabled' = ovfEnabled /\ ovf' = ovf
      /\ asked' = asked /\ age' = age /\ status' = status
  BY DEF beginDelete, list, rtc
<1>2. ops \in Nat /\ ops' \in 0 .. MaxOps /\ ops' # 0 /\ ops # 0
  BY <1>0, <1>1 DEF TypeOK, Calls
<1>3. Types'
  BY <1>0, <1>1, <1>2 DEF Types, TypeOK
<1>4. \A x \in Timers : waiting(x)' <=> waiting(x)
  BY <1>1 DEF waiting
<1>5. Lists'
  BY <1>0, <1>1, <1>4 DEF Lists, chain
<1>6. Sorted'
  BY <1>0, <1>1 DEF Sorted, chain
<1>7. Calls'
  BY <1>1, <1>2 DEF Calls
<1>8. Armed'
  BY <1>0, <1>1, <1>2, QuietMeansNoOverflow DEF Armed
<1>9. Counts'
  BY <1>0, <1>1 DEF Counts, left
<1>10. OnTime'
  BY <1>0, <1>1, <1>4 DEF OnTime, Ripe, left, elapsed
<1>11. QED
  BY <1>3, <1>5, <1>6, <1>7, <1>8, <1>9, <1>10 DEF IInv

(* Only the queue is left.                                                  *)
LEMMA FlushHolds ==
  ASSUME IInv, scheduler_timeout_flush_all
  PROVE  IInv'
<1> USE TimeoutAssumption
<1>0. /\ TypeOK /\ Types /\ Lists /\ Calls /\ Armed /\ OnTime /\ next \in Links
      /\ status \in [Timers -> {"off", "pending", "due"}]
  BY Facts
<1>1. /\ served /\ pc = "idle" /\ ops < MaxOps /\ ops' = ops + 1
      /\ list_head' = NULL /\ last' = 0 /\ ovfEnabled' = FALSE /\ is_running' = FALSE
      /\ status' = [t \in Timers |-> IF status[t] = "pending" THEN "off" ELSE status[t]]
      /\ age' = [t \in Timers |-> IF status'[t] = "off" THEN 0 ELSE age[t]]
      /\ next' = next /\ absolute_time' = absolute_time /\ queue_head' = queue_head
      /\ load' = load /\ CNT' = CNT /\ ovf' = ovf /\ pc' = pc /\ arg' = arg /\ asked' = asked
  BY DEF scheduler_timeout_flush_all, forget
<1>2. ops \in Nat /\ ops' \in 0 .. MaxOps /\ ops' # 0 /\ 0 \in 0 .. MaxAge /\ 0 \in 0 .. ABS - 1
  BY <1>0, <1>1 DEF TypeOK, MaxAge
<1>3. Types'
  <2>1. status' \in [Timers -> {"off", "pending", "due"}] /\ age' \in [Timers -> 0 .. MaxAge]
    BY <1>0, <1>1, <1>2 DEF TypeOK
  <2>2. QED
    BY <1>0, <1>1, <1>2, <2>1 DEF Types, TypeOK
<1>4. /\ \A x \in Timers : ~waiting(x)' /\ (status'[x] = "due" <=> status[x] = "due")
      /\ \A x \in Timers : status'[x] = "due" => age'[x] = age[x]
  BY <1>0, <1>1 DEF waiting
<1>5. chain(list_head)' = {} /\ chain(queue_head)' = chain(queue_head)
  BY <1>0, <1>1, ReachNothing DEF chain
<1>6. Lists'
  <2>1. IsList(list_head, next)'
    BY <1>1, <1>5 DEF IsList, chain
  <2>2. QED
    BY <1>0, <1>1, <1>4, <1>5, <2>1 DEF Lists
<1>7. Sorted' /\ Calls' /\ Armed' /\ Counts'
  BY <1>1, <1>2, <1>5 DEF Sorted, Calls, Armed, Counts
<1>8. OnTime'
  BY <1>0, <1>1, <1>4 DEF OnTime
<1>9. QED
  BY <1>3, <1>6, <1>7, <1>8 DEF IInv

(* The main loop takes the first timer off the queue.                       *)
LEMMA CallNextHolds ==
  ASSUME IInv, callNextCallback
  PROVE  IInv'
<1> USE TimeoutAssumption
<1> DEFINE h == queue_head
<1>0. /\ TypeOK /\ Types /\ Lists /\ Sorted /\ Calls /\ Armed /\ Counts /\ OnTime /\ next \in Links
      /\ status \in [Timers -> {"off", "pending", "due"}] /\ h \in Heads
  BY Facts
<1>1. /\ served /\ pc = "idle" /\ h # NULL
      /\ queue_head' = next[h] /\ status' = [status EXCEPT ![h] = "off"]
      /\ age' = [t \in Timers |-> IF status'[t] = "off" THEN 0 ELSE age[t]]
      /\ next' = next /\ absolute_time' = absolute_time /\ list_head' = list_head
      /\ last' = last /\ load' = load /\ CNT' = CNT /\ ovfEnabled' = ovfEnabled
      /\ is_running' = is_running /\ ovf' = ovf /\ pc' = pc /\ arg' = arg
      /\ asked' = asked /\ ops' = ops
  BY DEF callNextCallback, forget, list, rtc
<1>2. h \in chain(queue_head) /\ h \in Nodes
  BY <1>0, <1>1, ReachClosed DEF Heads, chain
<1>3. h \in Timers /\ status[h] = "due"
  BY <1>0, <1>2 DEF Lists
<1>4. /\ chain(queue_head)' = chain(queue_head) \ {h} /\ IsList(queue_head', next')
      /\ queue_head' \in Heads
  BY <1>0, <1>1, <1>2, ReachTail DEF Lists, chain
<1>5. Types'
  <2>1. queue_head' \in Timers \cup {NULL}
    <3>1. queue_head' # NULL => queue_head' \in chain(queue_head)'
      BY <1>0, <1>1, <1>4, ReachClosed DEF chain
    <3>2. QED
      BY <1>0, <1>4, <3>1 DEF Lists
  <2>2. 0 \in 0 .. MaxAge
    BY DEF MaxAge
  <2>3. status' \in [Timers -> {"off", "pending", "due"}] /\ age' \in [Timers -> 0 .. MaxAge]
    BY <1>0, <1>1, <2>2 DEF TypeOK
  <2>4. QED
    BY <1>0, <1>1, <2>1, <2>3 DEF Types, TypeOK
<1>6. /\ \A x \in Timers : waiting(x)' <=> waiting(x)
      /\ \A x \in Timers : status'[x] = "due" <=> status[x] = "due" /\ x # h
      /\ \A x \in Timers : x # h /\ status[x] # "off" => age'[x] = age[x]
  BY <1>0, <1>1, <1>3 DEF waiting
<1>7. Lists'
  BY <1>0, <1>1, <1>4, <1>6 DEF Lists, chain
<1>8. Sorted' /\ Calls' /\ Armed' /\ Counts'
  BY <1>0, <1>1 DEF Sorted, Calls, Armed, Counts, chain, left
<1>9. OnTime'
  <2>1. \A x \in Timers : left(x)' = left(x)
    BY <1>1 DEF left
  <2>2. elapsed' = elapsed
    BY <1>1 DEF elapsed
  <2>3. \A x \in Timers : waiting(x) => x # h /\ status[x] # "off"
    BY <1>3 DEF waiting
  <2>4. QED
    BY <1>0, <1>1, <1>6, <2>1, <2>2, <2>3 DEF OnTime, Ripe
<1>10. QED
  BY <1>5, <1>7, <1>8, <1>9 DEF IInv

(* Where the nodes are                                                      *)
LEMMA Disjoint ==
  ASSUME IInv
  PROVE  /\ chain(list_head) \cap chain(queue_head) = {}
         /\ chain(list_head) \subseteq Nodes /\ chain(queue_head) \subseteq Timers
         /\ scheduler_dummy \notin chain(queue_head) /\ scheduler_dummy \notin Timers
         /\ list_head # NULL => list_head \in chain(list_head)
         /\ \A n \in chain(list_head) : next[n] # NULL => next[n] \in chain(list_head)
<1>1. /\ Lists /\ next \in Links /\ list_head \in Heads
  BY Facts
<1>2. /\ chain(list_head) \subseteq Nodes
      /\ list_head # NULL => list_head \in chain(list_head)
      /\ \A n \in chain(list_head) : next[n] # NULL => next[n] \in chain(list_head)
  BY <1>1, ReachClosed DEF chain
<1>3. chain(queue_head) = {t \in Timers : status[t] = "due"}
  BY <1>1 DEF Lists
<1>4. \A t \in chain(list_head) \cap Timers : status[t] = "pending"
  BY <1>1 DEF Lists, waiting
<1>5. QED
  BY <1>2, <1>3, <1>4, TimeoutAssumption

(* The ticks since the last timeout                                         *)
LEMMA ElapsedRange ==
  ASSUME IInv, ~ovf
  PROVE  elapsed \in 0 .. TOP
<1>1. Counts /\ CNT \in 0 .. TOP /\ load \in 0 .. TOP /\ TOP \in Nat
  BY Facts, TimeoutAssumption
<1>2. CASE list_head = NULL
  BY <1>1, <1>2 DEF elapsed
<1>3. CASE list_head # NULL
  <2>1. CNT >= load
    BY <1>1, <1>3 DEF Counts
  <2>2. elapsed = CNT - load
    BY <1>1, <1>3 DEF elapsed
  <2>3. QED
    BY <1>1, <2>1, <2>2
<1>4. QED
  BY <1>2, <1>3

(* The head is deleted: the counter is started for the next timer, from the *)
(* time of the last timeout, and what had passed since is waited again.     *)
LEMMA FinishDeleteHead ==
  ASSUME IInv, finishDelete, arg = list_head
  PROVE  IInv'
<1> USE TimeoutAssumption
<1> DEFINE h == next[arg]
<1>0. /\ TypeOK /\ Types /\ Lists /\ Sorted /\ Calls /\ Armed /\ Counts /\ OnTime
      /\ next \in Links /\ list_head \in Heads /\ queue_head \in Heads
      /\ absolute_time \in [Nodes -> 0 .. ABS - 1] /\ last \in 0 .. ABS - 1
      /\ CNT \in 0 .. TOP /\ load \in 0 .. TOP
      /\ status \in [Timers -> {"off", "pending", "due"}]
  BY Facts
<1>1. /\ served /\ pc = "delete" /\ pc' = "idle" /\ arg' = NULL
      /\ status' = IF arg \in chain(list_head) THEN [status EXCEPT ![arg] = "off"] ELSE status
      /\ startAtHead(h, next, absolute_time, last)
      /\ age' = [t \in Timers |-> IF status'[t] = "off" THEN 0 ELSE age[t]]
      /\ queue_head' = queue_head /\ ovf' = ovf /\ asked' = asked /\ ops' = ops
  BY DEF finishDelete, forget
<1>2. arg \in Timers /\ list_head # NULL /\ arg \in Nodes
  BY <1>0, <1>1 DEF Calls, Nodes
<1>3. /\ chain(list_head) \cap chain(queue_head) = {} /\ arg \in chain(list_head)
      /\ scheduler_dummy \notin chain(queue_head) /\ scheduler_dummy \notin chain(list_head)
  BY <1>0, <1>2, Disjoint DEF Lists
<1>4. ~ovf
  BY <1>1, <1>2, QuietMeansNoOverflow
<1>5. /\ reach(h, next) = chain(list_head) \ {arg} /\ IsList(h, next) /\ h \in Heads
  BY <1>0, <1>2, ReachTail DEF Lists, chain
<1>6. SortedBy(h, next, absolute_time)
  BY <1>0, <1>5 DEF Sorted, SortedBy
<1>7. ASSUME h # NULL, absolute_time[h] < last PROVE ABS - last <= TOP
  <2>1. h \in Nodes /\ absolute_time[arg] <= absolute_time[h]
    BY <1>0, <1>3, <1>5, <1>7 DEF Sorted, Heads
  <2>2. absolute_time[arg] \in 0 .. ABS - 1 /\ absolute_time[h] \in 0 .. ABS - 1
    BY <1>0, <1>2, <2>1
  <2>3. absolute_time[arg] < last
    BY <1>0, <1>7, <2>1, <2>2
  <2>4. absolute_time[arg] - last \in Int /\ -ABS <= absolute_time[arg] - last
    BY <1>0, <2>2
  <2>5. left(arg) = absolute_time[arg] - last + ABS
    BY <1>0, <2>2, <2>3, <2>4, AbsSmall DEF left
  <2>6. left(arg) <= TOP
    BY <1>0, <1>2 DEF Counts
  <2>7. QED
    BY <1>0, <2>2, <2>5, <2>6
<1>8. /\ list_head' \in Heads /\ next' \in Links
      /\ absolute_time' \in [Nodes -> 0 .. ABS - 1]
      /\ last' = IF h = NULL THEN 0 ELSE last
      /\ load' \in 0 .. TOP /\ CNT' \in 0 .. TOP
      /\ ovfEnabled' = (h # NULL) /\ is_running' = (h # NULL)
      /\ list_head' = NULL <=> h = NULL
      /\ IsList(list_head', next') /\ IsList(queue_head, next')
      /\ reach(list_head', next') \cap Timers = reach(h, next) \cap Timers
      /\ reach(queue_head, next') = reach(queue_head, next)
      /\ scheduler_dummy \in reach(list_head', next') => list_head' = scheduler_dummy
      /\ SortedBy(list_head', next', absolute_time')
      /\ \A t \in Timers : absolute_time'[t] = absolute_time[t]
      /\ h # NULL => /\ (absolute_time'[list_head'] - last) % ABS = TOP - load'
                     /\ CNT' = load'
  <2>1. IsList(queue_head, next) /\ scheduler_dummy \notin reach(queue_head, next)
    BY <1>0, <1>3 DEF Lists, chain
  <2>2. scheduler_dummy \notin reach(h, next)
    BY <1>3, <1>5
  <2> HIDE DEF h
  <2>3. QED
    BY <1>0, <1>1, <1>5, <1>6, <1>7, <2>1, <2>2, StartAtHead
<1> HIDE DEF h
<1>9. /\ status' = [status EXCEPT ![arg] = "off"] /\ status[arg] = "pending"
      /\ \A x \in Timers : waiting(x)' <=> waiting(x) /\ x # arg
      /\ \A x \in Timers : status'[x] = "due" <=> status[x] = "due"
      /\ \A x \in Timers : x # arg /\ status[x] # "off" => age'[x] = age[x]
  <2>1. status' = [status EXCEPT ![arg] = "off"] /\ waiting(arg)
    BY <1>0, <1>1, <1>2, <1>3 DEF Lists
  <2>2. QED
    BY <1>0, <1>1, <1>2, <2>1 DEF waiting
<1>10. Types'
  <2>1. 0 \in 0 .. MaxAge /\ 0 \in 0 .. ABS - 1
    BY DEF MaxAge
  <2>2. /\ status' \in [Timers -> {"off", "pending", "due"}] /\ age' \in [Timers -> 0 .. MaxAge]
        /\ last' \in 0 .. ABS - 1 /\ absolute_time' \in [Nodes -> Int]
    BY <1>0, <1>1, <1>2, <1>8, <1>9, <2>1 DEF TypeOK
  <2>3. QED
    BY <1>0, <1>1, <1>8, <2>2 DEF Types, TypeOK, Links, Heads
<1>11. Lists'
  <2>1. chain(list_head)' \cap Timers = {t \in Timers : waiting(t)'}
    BY <1>0, <1>5, <1>8, <1>9 DEF Lists, chain
  <2>2. chain(queue_head)' = {t \in Timers : status'[t] = "due"}
    BY <1>0, <1>1, <1>8, <1>9 DEF Lists, chain
  <2>3. QED
    BY <1>1, <1>8, <2>1, <2>2 DEF Lists, chain
<1>12. Sorted'
  BY <1>8 DEF Sorted, SortedBy, chain
<1>13. Calls' /\ Armed'
  BY <1>0, <1>1, <1>4, <1>8 DEF Calls, Armed
<1>16. Counts'
  <2>1. SUFFICES ASSUME list_head' # NULL
                 PROVE  left(list_head)' = TOP - load' /\ CNT' = load' /\ ~ovf'
    BY <1>8 DEF Counts
  <2>2. QED
    BY <1>1, <1>4, <1>8, <2>1 DEF left
<1>14. OnTime'
  <2>1. ASSUME NEW x \in Timers, waiting(x)' PROVE Ripe(x)'
    <3>1. x # arg /\ status[x] # "off" /\ Ripe(x) /\ x \in chain(list_head) /\ x \in Nodes
      BY <1>0, <1>9, <2>1 DEF OnTime, Lists, waiting, Nodes
    <3>2. h # NULL
      BY <1>0, <1>5, <3>1, ReachNothing
    <3>3. left(x)' = left(x) /\ left(x) \in Int
      BY <1>0, <1>8, <3>1, <3>2 DEF left
    <3>4. elapsed' = 0
      BY <1>1, <1>4, <1>8, <3>2 DEF elapsed
    <3>5. elapsed \in 0 .. TOP
      BY <1>4, ElapsedRange
    <3>6. age'[x] = age[x] /\ asked' = asked /\ age[x] \in Int /\ asked[x] \in Int
      BY <1>1, <1>9, <3>1, Facts
    <3>7. QED
      BY <3>1, <3>3, <3>4, <3>5, <3>6 DEF Ripe
  <2>2. ASSUME NEW x \in Timers, status'[x] = "due" PROVE age'[x] >= asked'[x]
    BY <1>0, <1>1, <1>9, <2>2 DEF OnTime
  <2>3. QED
    BY <2>1, <2>2 DEF OnTime
<1>15. QED
  BY <1>10, <1>11, <1>12, <1>13, <1>14, <1>16 DEF IInv

(* Another timer is deleted, or one that has expired: the counter runs on.  *)
LEMMA FinishDeleteInner ==
  ASSUME IInv, finishDelete, arg # list_head
  PROVE  IInv'
<1> USE TimeoutAssumption
<1> DEFINE L == chain(list_head)
<1>0. /\ TypeOK /\ Types /\ Lists /\ Sorted /\ Calls /\ Armed /\ Counts /\ OnTime
      /\ next \in Links /\ list_head \in Heads /\ queue_head \in Heads
      /\ absolute_time \in [Nodes -> 0 .. ABS - 1]
      /\ status \in [Timers -> {"off", "pending", "due"}]
  BY Facts
<1>1. /\ served /\ pc = "delete" /\ pc' = "idle" /\ arg' = NULL
      /\ status' = IF arg \in L THEN [status EXCEPT ![arg] = "off"] ELSE status
      /\ next' = [n \in Nodes |-> IF n \in L /\ next[n] = arg THEN next[arg] ELSE next[n]]
      /\ ovfEnabled' = TRUE
      /\ absolute_time' = absolute_time /\ list_head' = list_head /\ last' = last
      /\ CNT' = CNT /\ load' = load /\ is_running' = is_running
      /\ age' = [t \in Timers |-> IF status'[t] = "off" THEN 0 ELSE age[t]]
      /\ queue_head' = queue_head /\ ovf' = ovf /\ asked' = asked /\ ops' = ops
  BY DEF finishDelete, forget
<1>2. arg \in Timers /\ list_head # NULL /\ arg \in Nodes /\ arg # NULL /\ list_head \in Nodes
  BY <1>0, <1>1 DEF Calls, Nodes, Heads
<1>3. /\ L \cap chain(queue_head) = {} /\ list_head \in L /\ L \subseteq Nodes
      /\ \A n \in L : next[n] # NULL => next[n] \in L
      /\ chain(queue_head) \subseteq Timers
  BY <1>0, <1>2, Disjoint
<1>4. ~ovf
  BY <1>1, <1>2, QuietMeansNoOverflow
<1>5. next' \in Links
  BY <1>0, <1>1, <1>2 DEF Links
<1>6. chain(list_head)' = L \ {arg} /\ IsList(list_head', next')
  <2>1. CASE arg \in L
    <3>1. \A n \in reach(list_head, next) :
            next'[n] = IF next[n] = arg THEN next[arg] ELSE next[n]
      BY <1>1, <1>3 DEF chain
    <3>2. arg \in reach(list_head, next) /\ IsList(list_head, next)
      BY <1>0, <2>1 DEF chain, Lists
    <3>3. /\ reach(list_head, next') = reach(list_head, next) \ {arg}
          /\ IsList(list_head, next')
      BY <1>0, <1>2, <1>5, <3>1, <3>2, ReachRemove
    <3>4. QED
      BY <1>1, <3>3 DEF chain
  <2>2. CASE arg \notin L
    <3>1. \A n \in L : next'[n] = next[n]
      BY <1>1, <1>2, <1>3, <2>2
    <3>2. reach(list_head, next') = reach(list_head, next) /\ IsList(list_head, next')
      BY <1>0, <1>5, <3>1, ReachFrame DEF chain, Lists
    <3>3. QED
      BY <1>1, <2>2, <3>2 DEF chain
  <2>3. QED
    BY <2>1, <2>2
<1>7. chain(queue_head)' = chain(queue_head) /\ IsList(queue_head', next')
  <2>1. \A n \in chain(queue_head) : next'[n] = next[n]
    BY <1>1, <1>3 DEF Nodes
  <2>2. QED
    BY <1>0, <1>1, <1>5, <2>1, ReachFrame DEF chain, Lists
<1>8. /\ arg \in L => waiting(arg)
      /\ status' = [status EXCEPT ![arg] = IF arg \in L THEN "off" ELSE status[arg]]
  BY <1>0, <1>1, <1>2 DEF Lists
<1>9. /\ \A x \in Timers : waiting(x)' <=> waiting(x) /\ ~(x = arg /\ arg \in L)
      /\ \A x \in Timers : status'[x] = "due" <=> status[x] = "due"
      /\ \A x \in Timers : waiting(x)' \/ status'[x] = "due" => age'[x] = age[x]
  BY <1>0, <1>1, <1>2, <1>8 DEF waiting
<1>10. Types'
  <2>1. 0 \in 0 .. MaxAge
    BY DEF MaxAge
  <2>2. /\ status' \in [Timers -> {"off", "pending", "due"}] /\ age' \in [Timers -> 0 .. MaxAge]
    BY <1>0, <1>1, <1>2, <1>8, <2>1 DEF TypeOK
  <2>3. QED
    BY <1>0, <1>1, <1>5, <2>2 DEF Types, TypeOK, Links
<1>11. Lists'
  <2>1. chain(list_head)' \cap Timers = {t \in Timers : waiting(t)'}
    BY <1>0, <1>2, <1>6, <1>9 DEF Lists
  <2>2. chain(queue_head)' = {t \in Timers : status'[t] = "due"}
    BY <1>0, <1>7, <1>9 DEF Lists
  <2>3. scheduler_dummy \in chain(list_head)' => list_head' = scheduler_dummy
    BY <1>0, <1>1, <1>6 DEF Lists
  <2>4. QED
    BY <1>6, <1>7, <2>1, <2>2, <2>3 DEF Lists
<1>12. Sorted'
  <2>1. ASSUME NEW n \in L \ {arg}, next'[n] \in Nodes
        PROVE  absolute_time[n] <= absolute_time[next'[n]]
    <3>1. n \in Nodes
      BY <1>3
    <3>2. CASE next[n] # arg
      BY <1>0, <1>1, <2>1, <3>1, <3>2 DEF Sorted
    <3>3. CASE next[n] = arg
      <4>1. next'[n] = next[arg] /\ arg \in L
        BY <1>1, <1>2, <1>3, <3>1, <3>3
      <4>2. absolute_time[n] <= absolute_time[arg] /\ absolute_time[arg] <= absolute_time[next[arg]]
        BY <1>0, <1>2, <2>1, <3>3, <4>1 DEF Sorted
      <4>3. absolute_time[n] \in Int /\ absolute_time[arg] \in Int /\ absolute_time[next[arg]] \in Int
        BY <1>0, <1>2, <2>1, <3>1, <4>1
      <4>4. QED
        BY <4>1, <4>2, <4>3
    <3>4. QED
      BY <3>2, <3>3
  <2>2. QED
    BY <1>1, <1>6, <2>1 DEF Sorted
<1>13. Calls' /\ Armed' /\ Counts'
  BY <1>0, <1>1, <1>2, <1>4 DEF Calls, Armed, Counts, left
<1>14. OnTime'
  <2>1. \A x \in Timers : left(x)' = left(x)
    BY <1>1 DEF left
  <2>2. elapsed' = elapsed
    BY <1>1 DEF elapsed
  <2>3. QED
    BY <1>0, <1>1, <1>9, <2>1, <2>2 DEF OnTime, Ripe
<1>15. QED
  BY <1>10, <1>11, <1>12, <1>13, <1>14 DEF IInv

-----------------------------------------------------------------------------
(* scheduler_enqueue_callback appends a timer to the queue.                 *)
LEMMA Enqueue ==
  ASSUME IInv, NEW t \in Timers, t \notin chain(queue_head),
         NEW q, q = IF queue_head = NULL THEN t ELSE queue_head
  PROVE  /\ enqueued(t) \in Links /\ q \in Timers
         /\ IsList(q, enqueued(t))
         /\ reach(q, enqueued(t)) = chain(queue_head) \cup {t}
         /\ \A n \in Nodes : n \notin chain(queue_head) \cup {t} => enqueued(t)[n] = next[n]
<1> USE TimeoutAssumption
<1> DEFINE nxt == enqueued(t)
<1>0. /\ TypeOK /\ Lists /\ next \in Links /\ queue_head \in Heads /\ queue_head \in Timers \cup {NULL}
      /\ t \in Nodes /\ t # NULL /\ NULL \in Heads
  BY Facts DEF TypeOK, Nodes, Heads
<1>1. CASE queue_head = NULL
  <2>1. nxt = [next EXCEPT ![t] = NULL]
    BY <1>1 DEF enqueued
  <2>2. nxt \in Links /\ nxt[t] = NULL /\ \A n \in Nodes : n # t => nxt[n] = next[n]
    BY <1>0, <2>1 DEF Links
  <2> HIDE DEF nxt
  <2>3. reach(NULL, nxt) = {} /\ reach(NULL, next) = {}
    BY <1>0, <2>2, ReachNothing
  <2>4. IsList(NULL, nxt)
    BY <2>3 DEF IsList
  <2>5. reach(t, nxt) = {t} /\ IsList(t, nxt)
    BY <1>0, <2>2, <2>3, <2>4, ReachPrepend
  <2>6. chain(queue_head) = {}
    BY <1>1, <2>3 DEF chain
  <2>7. QED
    BY <1>1, <2>2, <2>5, <2>6 DEF nxt
<1>2. CASE queue_head # NULL
  <2> DEFINE tail == CHOOSE n \in chain(queue_head) : next[n] = NULL
  <2>1. nxt = [next EXCEPT ![t] = NULL, ![tail] = t]
    BY <1>2 DEF enqueued
  <2>2. tail \in chain(queue_head) /\ next[tail] = NULL
    BY <1>0, <1>2 DEF Lists, IsList, chain
  <2> HIDE DEF tail
  <2>3. tail \in Nodes /\ queue_head \in Nodes /\ tail # t
    BY <1>0, <1>2, <2>2, ReachClosed DEF chain, Heads
  <2>4. nxt \in Links /\ \A n \in Nodes : n # t /\ n # tail => nxt[n] = next[n]
    BY <1>0, <2>1, <2>3 DEF Links
  <2>5. /\ nxt[tail] = t /\ nxt[t] = next[tail]
        /\ \A n \in reach(queue_head, next) : n # tail => nxt[n] = next[n]
    BY <1>0, <2>1, <2>2, <2>3, <2>4, ReachClosed DEF chain, Links
  <2>6. IsList(queue_head, next) /\ t \notin reach(queue_head, next) /\ tail \in reach(queue_head, next)
    BY <1>0, <2>2 DEF Lists, chain
  <2> HIDE DEF nxt
  <2>7. reach(queue_head, nxt) = reach(queue_head, next) \cup {t} /\ IsList(queue_head, nxt)
    BY <1>0, <2>3, <2>4, <2>5, <2>6, ReachInsert
  <2>8. q = queue_head /\ q \in Timers
    BY <1>0, <1>2
  <2>9. QED
    BY <2>2, <2>4, <2>7, <2>8 DEF nxt, chain
<1>3. QED
  BY <1>1, <1>2

(* The interrupt moves the head to the queue, or takes the dummy off, and   *)
(* starts the counter for the rest from the time of that head.              *)
LEMMA OverflowIsrHolds ==
  ASSUME IInv, overflowIsr
  PROVE  IInv'
<1> USE TimeoutAssumption
<1> DEFINE h == list_head
<1> DEFINE nxt == IF h = scheduler_dummy THEN next ELSE enqueued(h)
<1> DEFINE q == IF queue_head = NULL /\ h # scheduler_dummy THEN h ELSE queue_head
<1> DEFINE rest == next[h]
<1> DEFINE base == absolute_time[h]
<1>0. /\ TypeOK /\ Types /\ Lists /\ Sorted /\ Calls /\ Armed /\ Counts /\ OnTime
      /\ next \in Links /\ list_head \in Heads /\ queue_head \in Heads
      /\ absolute_time \in [Nodes -> 0 .. ABS - 1] /\ last \in 0 .. ABS - 1
      /\ CNT \in 0 .. TOP /\ load \in 0 .. TOP
      /\ status \in [Timers -> {"off", "pending", "due"}]
  BY Facts
<1>1. /\ ~served /\ list_head # NULL
      /\ queue_head' = q
      /\ status' = IF h = scheduler_dummy THEN status ELSE [status EXCEPT ![h] = "due"]
      /\ startAtHead(rest, nxt, absolute_time, base)
      /\ ovf' = FALSE
      /\ pc' = pc /\ arg' = arg /\ asked' = asked /\ age' = age /\ ops' = ops
  BY DEF overflowIsr
<1>2. /\ h \in Nodes /\ ovf /\ pc = "idle" /\ base \in 0 .. ABS - 1
      /\ h # scheduler_dummy => h \in Timers
  <2>1. ovf /\ ovfEnabled
    BY <1>1 DEF served
  <2>2. h \in Nodes /\ pc = "idle"
    BY <1>0, <1>1, <2>1 DEF Heads, Armed
  <2>3. QED
    BY <1>0, <2>1, <2>2 DEF Nodes
<1>3. /\ chain(list_head) \cap chain(queue_head) = {} /\ h \in chain(list_head)
      /\ chain(queue_head) \subseteq Timers /\ scheduler_dummy \notin Timers
      /\ chain(list_head) \subseteq Nodes
  BY <1>1, Disjoint
<1>4. /\ reach(rest, next) = chain(list_head) \ {h} /\ IsList(rest, next) /\ rest \in Heads
  BY <1>0, <1>2, ReachTail DEF Lists, chain
<1>5. /\ nxt \in Links /\ q \in Timers \cup {NULL} /\ q \in Heads /\ IsList(q, nxt)
      /\ reach(q, nxt) = chain(queue_head) \cup (IF h = scheduler_dummy THEN {} ELSE {h})
      /\ \A n \in chain(list_head) \ {h} : nxt[n] = next[n]
  <2>1. CASE h = scheduler_dummy
    BY <1>0, <2>1 DEF Lists, chain, TypeOK
  <2>2. CASE h # scheduler_dummy
    <3>1. h \in Timers /\ h \notin chain(queue_head) /\ q = IF queue_head = NULL THEN h ELSE queue_head
      BY <1>2, <1>3, <2>2
    <3>2. nxt = enqueued(h)
      BY <2>2
    <3> HIDE DEF nxt, q, h
    <3>3. /\ enqueued(h) \in Links /\ q \in Timers
          /\ IsList(q, enqueued(h))
          /\ reach(q, enqueued(h)) = chain(queue_head) \cup {h}
          /\ \A n \in Nodes : n \notin chain(queue_head) \cup {h} => enqueued(h)[n] = next[n]
      BY <3>1, Enqueue
    <3>4. q \in Heads
      BY <3>3 DEF Heads, Nodes
    <3>5. QED
      BY <1>3, <2>2, <3>2, <3>3, <3>4
  <2>3. QED
    BY <2>1, <2>2
<1>6. reach(rest, nxt) = chain(list_head) \ {h} /\ IsList(rest, nxt)
  <2> HIDE DEF nxt, rest, h
  <2>1. QED
    BY <1>0, <1>4, <1>5, ReachFrame
<1>7. SortedBy(rest, nxt, absolute_time)
  <2>1. \A n \in chain(list_head) \ {h} : nxt[n] = next[n]
    BY <1>5
  <2> HIDE DEF nxt
  <2>2. QED
    BY <1>0, <1>6, <2>1 DEF Sorted, SortedBy
<1>8. ~(rest # NULL /\ absolute_time[rest] < base)
  <2>1. rest # NULL => rest \in Nodes /\ absolute_time[rest] \in 0 .. ABS - 1
    BY <1>0, <1>4 DEF Heads
  <2>2. rest # NULL => base <= absolute_time[rest]
    BY <1>0, <1>3, <2>1 DEF Sorted
  <2>3. QED
    BY <1>2, <2>1, <2>2
<1>9. scheduler_dummy \notin reach(rest, nxt) /\ scheduler_dummy \notin reach(q, nxt)
  <2>1. scheduler_dummy \in chain(list_head) => h = scheduler_dummy
    BY <1>0 DEF Lists
  <2>2. QED
    BY <1>3, <1>5, <1>6, <2>1
<1> HIDE DEF nxt, q, rest, base
<1>10. /\ list_head' \in Heads /\ next' \in Links
       /\ absolute_time' \in [Nodes -> 0 .. ABS - 1]
       /\ last' = IF rest = NULL THEN 0 ELSE base
       /\ load' \in 0 .. TOP /\ CNT' \in 0 .. TOP
       /\ ovfEnabled' = (rest # NULL) /\ is_running' = (rest # NULL)
       /\ list_head' = NULL <=> rest = NULL
       /\ IsList(list_head', next') /\ IsList(q, next')
       /\ reach(list_head', next') \cap Timers = reach(rest, nxt) \cap Timers
       /\ reach(q, next') = reach(q, nxt)
       /\ scheduler_dummy \in reach(list_head', next') => list_head' = scheduler_dummy
       /\ SortedBy(list_head', next', absolute_time')
       /\ \A t \in Timers : absolute_time'[t] = absolute_time[t]
       /\ rest # NULL => /\ (absolute_time'[list_head'] - base) % ABS = TOP - load'
                         /\ CNT' = load'
  BY <1>0, <1>1, <1>2, <1>4, <1>5, <1>6, <1>7, <1>8, <1>9, StartAtHead
<1>11. /\ \A x \in Timers : waiting(x)' <=> waiting(x) /\ x # h
       /\ \A x \in Timers : status'[x] = "due" <=> status[x] = "due" \/ x = h
       /\ h # scheduler_dummy => waiting(h)
  BY <1>0, <1>1, <1>2, <1>3 DEF waiting, Lists
<1>12. Types'
  <2>1. 0 \in 0 .. ABS - 1
    OBVIOUS
  <2>2. /\ status' \in [Timers -> {"off", "pending", "due"}]
        /\ last' \in 0 .. ABS - 1 /\ absolute_time' \in [Nodes -> Int]
    BY <1>0, <1>1, <1>2, <1>10, <2>1 DEF TypeOK
  <2>3. queue_head' \in Timers \cup {NULL}
    BY <1>1, <1>5
  <2>4. pc' = "idle"
    BY <1>1, <1>2
  <2>5. QED
    BY <1>0, <1>1, <1>2, <1>10, <2>2, <2>3, <2>4 DEF Types, TypeOK, Links, Heads
<1>13. Lists'
  <2>1. chain(list_head)' \cap Timers = {t \in Timers : waiting(t)'}
    BY <1>0, <1>6, <1>10, <1>11 DEF Lists, chain
  <2>2. chain(queue_head)' = {t \in Timers : status'[t] = "due"}
    <3>1. chain(queue_head)' = chain(queue_head) \cup (IF h = scheduler_dummy THEN {} ELSE {h})
      BY <1>1, <1>5, <1>10 DEF chain
    <3>2. QED
      BY <1>0, <1>2, <1>3, <1>11, <3>1 DEF Lists
  <2>3. QED
    BY <1>1, <1>10, <2>1, <2>2 DEF Lists, chain
<1>14. Sorted'
  BY <1>10 DEF Sorted, SortedBy, chain
<1>15. Calls' /\ Armed'
  BY <1>0, <1>1, <1>2, <1>10 DEF Calls, Armed
<1>16. Counts'
  <2>1. SUFFICES ASSUME list_head' # NULL
                 PROVE  left(list_head)' = TOP - load' /\ CNT' = load' /\ ~ovf'
    BY <1>10 DEF Counts
  <2>2. QED
    BY <1>1, <1>10, <2>1 DEF left
<1>17. left(h) = TOP - load /\ elapsed = left(h) + 1 /\ left(h) \in 0 .. ABS - 1
  <2>1. left(h) = TOP - load /\ CNT = 0 /\ elapsed = CNT - load + (TOP + 1)
    BY <1>0, <1>1, <1>2 DEF Counts, elapsed
  <2>2. absolute_time[h] - last \in Int
    BY <1>0, <1>2
  <2>3. left(h) \in 0 .. ABS - 1
    BY <2>2 DEF left
  <2>4. QED
    BY <1>0, <2>1, <2>3
<1>18. OnTime'
  <2>1. ASSUME NEW x \in Timers, waiting(x)' PROVE Ripe(x)'
    <3>1. x # h /\ Ripe(x) /\ x \in chain(list_head) /\ x \in Nodes
      BY <1>0, <1>11, <2>1 DEF OnTime, Lists, Nodes
    <3>2. rest # NULL
      BY <1>0, <1>4, <3>1, ReachNothing
    <3>3. /\ absolute_time[x] \in Int /\ absolute_time[h] \in Int /\ last \in Int
      BY <1>0, <1>2, <3>1
    <3>4. /\ left(x)' = (absolute_time[x] - absolute_time[h]) % ABS
      BY <1>10, <3>2 DEF left, base
    <3>5. (left(x) - left(h)) % ABS = (absolute_time[x] - absolute_time[h]) % ABS
      <4>1. absolute_time[x] - last \in Int /\ absolute_time[h] - last \in Int
        BY <3>3
      <4>2. (absolute_time[x] - last) - (absolute_time[h] - last) = absolute_time[x] - absolute_time[h]
        BY <3>3
      <4>3. (((absolute_time[x] - last) % ABS) - ((absolute_time[h] - last) % ABS)) % ABS
              = ((absolute_time[x] - last) - (absolute_time[h] - last)) % ABS
        BY <4>1, AbsDifference
      <4>4. QED
        BY <4>2, <4>3 DEF left
    <3>6. left(x) \in 0 .. ABS - 1
      BY <3>3 DEF left
    <3>7. left(x)' \in Int /\ left(x)' >= left(x) - left(h)
      <4>1. left(x) - left(h) \in Int /\ -ABS <= left(x) - left(h) /\ left(x) - left(h) < ABS
        BY <1>17, <3>6
      <4>2. (left(x) - left(h)) % ABS = IF left(x) - left(h) < 0 THEN left(x) - left(h) + ABS
                                        ELSE left(x) - left(h)
        BY <4>1, AbsSmall
      <4>3. QED
        BY <3>4, <3>5, <4>1, <4>2
    <3>8. elapsed' = 0
      BY <1>1, <1>10, <3>2 DEF elapsed
    <3>9. age[x] \in Int /\ asked[x] \in Int
      BY Facts
    <3>10. QED
      BY <1>1, <1>17, <3>1, <3>6, <3>7, <3>8, <3>9 DEF Ripe
  <2>2. ASSUME NEW x \in Timers, status'[x] = "due" PROVE age'[x] >= asked'[x]
    <3>1. CASE status[x] = "due"
      BY <1>0, <1>1, <3>1 DEF OnTime
    <3>2. CASE x = h
      <4>1. waiting(h) /\ Ripe(h) /\ h \in Timers
        BY <1>0, <1>2, <1>11, <3>2 DEF OnTime
      <4>2. age[h] \in Int /\ asked[h] \in Int
        BY <4>1, Facts
      <4>3. QED
        BY <1>1, <1>17, <3>2, <4>1, <4>2 DEF Ripe
    <3>3. QED
      BY <1>11, <2>2, <3>1, <3>2
  <2>3. QED
    BY <2>1, <2>2 DEF OnTime
<1>19. QED
  BY <1>12, <1>13, <1>14, <1>15, <1>16, <1>18 DEF IInv

-----------------------------------------------------------------------------
(* The second step of scheduler_timeout_create.  Its local names, and the   *)
(* names of the two outcomes:                                               *)
time0 == makeAbsolute(asked[arg])
past == time0 < last
headTime == absolute_time[list_head]
newTime == IF past THEN (time0 + TOP - headTime + 1) % ABS ELSE time0
rebased == IF past
           THEN [n \in Nodes |-> IF n \in chain(list_head)
                                 THEN absolute_time[n] - headTime ELSE absolute_time[n]]
           ELSE absolute_time
since == IF past THEN (last - headTime) % ABS ELSE last
follower == IF list_head = scheduler_dummy THEN next[scheduler_dummy] ELSE list_head
goesFirst == list_head = NULL \/ rebased[list_head] > newTime

(* finishCreate in these names                                              *)
LEMMA CreateStep ==
  ASSUME finishCreate
  PROVE  /\ served /\ pc = "create" /\ pc' = "idle" /\ arg' = NULL
         /\ queue_head' = queue_head /\ asked' = asked /\ age' = age
         /\ status' = status /\ ops' = ops
         /\ goesFirst =>
              /\ startAtHead(arg, [next EXCEPT ![arg] = follower],
                             [rebased EXCEPT ![arg] = newTime], since)
              /\ ovf' = FALSE
         /\ ~goesFirst =>
              LET prev == insertAfter(newTime, rebased)
              IN /\ next' = [next EXCEPT ![arg] = next[prev], ![prev] = arg]
                 /\ absolute_time' = [rebased EXCEPT ![arg] = newTime]
                 /\ last' = since /\ ovfEnabled' = is_running
                 /\ list_head' = list_head /\ CNT' = CNT /\ load' = load
                 /\ is_running' = is_running /\ ovf' = ovf
<1> DEFINE prev == insertAfter(newTime, rebased)
<1>1. /\ served /\ pc = "create" /\ pc' = "idle" /\ arg' = NULL
      /\ queue_head' = queue_head /\ asked' = asked /\ age' = age
      /\ status' = status /\ ops' = ops
  BY DEF finishCreate, ghost
<1>2. IF goesFirst
      THEN /\ startAtHead(arg, [next EXCEPT ![arg] = follower],
                          [rebased EXCEPT ![arg] = newTime], since)
           /\ ovf' = FALSE
      ELSE /\ next' = [next EXCEPT ![arg] = next[prev], ![prev] = arg]
           /\ absolute_time' = [rebased EXCEPT ![arg] = newTime]
           /\ last' = since /\ ovfEnabled' = is_running
           /\ UNCHANGED <<list_head, CNT, load, is_running, ovf>>
  BY DEF finishCreate, goesFirst, follower, since, rebased, newTime, headTime, past, time0
<1>3. QED
  BY <1>1, <1>2

(* A new timer has a time at least the ticks asked for after the present,   *)
(* and a rebase leaves the distances from the last timeout as they are.     *)
LEMMA NewTime ==
  ASSUME IInv, served, pc = "create"
  PROVE  /\ newTime \in 0 .. ABS - 1 /\ since \in 0 .. ABS - 1
         /\ rebased \in [Nodes -> 0 .. ABS - 1]
         /\ ~past => newTime >= last /\ since = last /\ rebased = absolute_time
         /\ past => list_head # NULL /\ rebased[list_head] = 0
         /\ (newTime - since) % ABS >= asked[arg] + elapsed
         /\ \A n \in chain(list_head) : (rebased[n] - since) % ABS = left(n)
         /\ SortedBy(list_head, next, rebased)
<1> USE TimeoutAssumption
<1> DEFINE d == asked[arg]
<1> DEFINE e == elapsed
<1>0. /\ TypeOK /\ Types /\ Lists /\ Sorted /\ Calls /\ Armed /\ Counts /\ OnTime
      /\ next \in Links /\ list_head \in Heads
      /\ absolute_time \in [Nodes -> 0 .. ABS - 1] /\ last \in 0 .. ABS - 1
      /\ CNT \in 0 .. TOP /\ load \in 0 .. TOP
  BY Facts
<1>1. d \in 1 .. ABS - 2 * (TOP + 1)
  BY <1>0 DEF Calls
<1>2. e \in 0 .. TOP /\ e = (IF is_running THEN CNT - load ELSE 0)
  <2>1. list_head # NULL => ~ovf
    BY QuietMeansNoOverflow
  <2>2. is_running = (list_head # NULL)
    BY <1>0 DEF Armed
  <2>3. CASE list_head = NULL
    <3>1. ~is_running
      BY <2>2, <2>3
    <3>2. e = 0
      BY <2>3 DEF elapsed
    <3> HIDE DEF e
    <3>3. QED
      BY <3>1, <3>2
  <2>4. CASE list_head # NULL
    <3>1. e = CNT - load + 0 /\ CNT >= load
      BY <1>0, <2>1, <2>4 DEF elapsed, Counts
    <3>2. is_running
      BY <2>2, <2>4
    <3>3. CNT - load \in 0 .. TOP /\ e = CNT - load
      BY <1>0, <3>1
    <3> HIDE DEF e
    <3>4. QED
      BY <3>2, <3>3
  <2>5. QED
    BY <2>3, <2>4
<1> HIDE DEF e
<1>3. time0 = (d + last + e) % ABS
  <2> DEFINE k == IF is_running THEN CNT - load ELSE 0
  <2>1. time0 = (d + last + k) % ABS
    BY DEF time0, makeAbsolute
  <2>2. k = e
    BY <1>2
  <2> HIDE DEF d, k
  <2>3. QED
    BY <2>1, <2>2
<1> HIDE DEF d
<1>4. time0 = IF d + last + e < ABS THEN d + last + e ELSE d + last + e - ABS
  <2> DEFINE s == d + last + e
  <2>1. s \in Int /\ 0 <= s /\ s < 2 * ABS /\ -ABS <= s
    BY <1>0, <1>1, <1>2
  <2>2. time0 = s % ABS
    BY <1>3
  <2> HIDE DEF s
  <2>3. time0 = IF s < ABS THEN s ELSE s - ABS
    BY <2>1, <2>2, AbsSmall
  <2>4. QED
    BY <1>0, <1>1, <1>2, <2>3 DEF s
<1>5. time0 \in 0 .. ABS - 1
  BY <1>0, <1>1, <1>2, <1>4
<1>6. CASE ~past
  <2>1. newTime = time0 /\ since = last /\ rebased = absolute_time /\ time0 >= last
    BY <1>0, <1>5, <1>6 DEF newTime, since, rebased, past
  <2>2. time0 - last = d + e /\ d + e \in 0 .. ABS - 1
    BY <1>0, <1>1, <1>2, <1>4, <2>1
  <2>3. (newTime - since) % ABS = d + e
    BY <2>1, <2>2, AbsSmall
  <2>4. \A n \in chain(list_head) : (rebased[n] - since) % ABS = left(n)
    BY <2>1 DEF left
  <2>5. SortedBy(list_head, next, rebased)
    BY <1>0, <2>1 DEF Sorted, SortedBy, chain
  <2>6. d + e >= d + e
    BY <2>2
  <2>7. QED
    BY <1>0, <1>5, <1>6, <2>1, <2>3, <2>4, <2>5, <2>6 DEF d, e
<1>7. CASE past
  <2>1. /\ newTime = (time0 + TOP - headTime + 1) % ABS
        /\ since = (last - headTime) % ABS
        /\ rebased = [n \in Nodes |-> IF n \in chain(list_head)
                                      THEN absolute_time[n] - headTime ELSE absolute_time[n]]
    BY <1>7 DEF newTime, since, rebased
  <2>2. list_head # NULL /\ list_head \in Nodes
    <3>1. last # 0
      BY <1>0, <1>5, <1>7 DEF past
    <3>2. QED
      BY <1>0, <3>1 DEF Armed, Heads
  <2>3. headTime \in 0 .. ABS - 1
    BY <1>0, <2>2 DEF headTime
  <2>4. list_head \in chain(list_head) /\ chain(list_head) \subseteq Nodes
    BY <2>2, Disjoint
  <2>5. \A n \in chain(list_head) : headTime <= absolute_time[n]
    <3>1. SortedBy(list_head, next, absolute_time)
      BY <1>0 DEF Sorted, SortedBy, chain
    <3>2. absolute_time \in [Nodes -> Int]
      BY <1>0
    <3>3. QED
      BY <1>0, <2>2, <3>1, <3>2, HeadIsLeast DEF headTime, chain
  <2>6. rebased \in [Nodes -> 0 .. ABS - 1]
    <3>1. ASSUME NEW n \in chain(list_head) PROVE absolute_time[n] - headTime \in 0 .. ABS - 1
      <4>1. absolute_time[n] \in 0 .. ABS - 1 /\ headTime <= absolute_time[n]
        BY <1>0, <2>4, <2>5
      <4>2. QED
        BY <2>3, <4>1
    <3>2. QED
      BY <1>0, <2>1, <3>1
  <2>7. rebased[list_head] = 0
    <3>1. rebased[list_head] = headTime - headTime
      BY <2>1, <2>2, <2>4 DEF headTime
    <3>2. QED
      BY <2>3, <3>1
  <2>8. newTime \in 0 .. ABS - 1 /\ since \in 0 .. ABS - 1
    <3>1. time0 + TOP - headTime + 1 \in Int /\ last - headTime \in Int
      BY <1>0, <1>5, <2>3
    <3>2. QED
      BY <2>1, <3>1
  <2>9. (newTime - since) % ABS >= d + e
    <3>1. time0 + TOP - headTime + 1 \in Int /\ last - headTime \in Int
      BY <1>0, <1>5, <2>3
    <3>2. (newTime - since) % ABS = ((time0 + TOP - headTime + 1) - (last - headTime)) % ABS
      BY <2>1, <3>1, AbsDifference
    <3>3. time0 = d + last + e - ABS
      BY <1>0, <1>1, <1>2, <1>4, <1>5, <1>7 DEF past
    <3>4. (time0 + TOP - headTime + 1) - (last - headTime) = d + e + TOP + 1 - ABS
      BY <1>0, <1>1, <1>2, <2>3, <3>3
    <3>5. /\ d + e + TOP + 1 - ABS \in Int /\ -ABS <= d + e + TOP + 1 - ABS
          /\ d + e + TOP + 1 - ABS < 0
      BY <1>1, <1>2
    <3>6. (d + e + TOP + 1 - ABS) % ABS = d + e + TOP + 1 - ABS + ABS
      BY <3>5, AbsSmall
    <3>7. (newTime - since) % ABS = d + e + TOP + 1 - ABS + ABS
      BY <3>2, <3>4, <3>6
    <3>8. QED
      BY <1>1, <1>2, <3>7
  <2>10. ASSUME NEW n \in chain(list_head) PROVE (rebased[n] - since) % ABS = left(n)
    <3>1. n \in Nodes /\ absolute_time[n] \in 0 .. ABS - 1
      BY <1>0, <2>4
    <3>2. rebased[n] = absolute_time[n] - headTime /\ rebased[n] \in 0 .. ABS - 1
      BY <2>1, <2>6, <3>1
    <3>3. rebased[n] % ABS = rebased[n]
      BY <3>2, AbsSmall
    <3>4. ((rebased[n] % ABS) - ((last - headTime) % ABS)) % ABS = (rebased[n] - (last - headTime)) % ABS
      <4>1. rebased[n] \in Int /\ last - headTime \in Int
        BY <1>0, <2>3, <3>2
      <4>2. QED
        BY <4>1, AbsDifference
    <3>5. rebased[n] - (last - headTime) = absolute_time[n] - last
      BY <1>0, <2>3, <3>1, <3>2
    <3>6. QED
      BY <2>1, <3>3, <3>4, <3>5 DEF left
  <2>11. SortedBy(list_head, next, rebased)
    <3>1. ASSUME NEW n \in chain(list_head), next[n] \in Nodes
          PROVE  rebased[n] <= rebased[next[n]]
      <4>1. n \in Nodes /\ next[n] \in chain(list_head)
        BY <2>4, <3>1, Disjoint
      <4>2. absolute_time[n] <= absolute_time[next[n]]
        BY <1>0, <3>1 DEF Sorted
      <4>3. absolute_time[n] \in Int /\ absolute_time[next[n]] \in Int
        BY <1>0, <3>1, <4>1
      <4>4. /\ rebased[n] = absolute_time[n] - headTime
            /\ rebased[next[n]] = absolute_time[next[n]] - headTime
        BY <2>1, <3>1, <4>1
      <4>5. QED
        BY <2>3, <4>2, <4>3, <4>4
    <3>2. QED
      BY <3>1 DEF SortedBy, chain
  <2>12. QED
    BY <1>7, <2>2, <2>6, <2>7, <2>8, <2>9, <2>10, <2>11 DEF d, e
<1>8. QED
  BY <1>6, <1>7

(* The new timer expires first.                                             *)
LEMMA FinishCreateHead ==
  ASSUME IInv, finishCreate, goesFirst
  PROVE  IInv'
<1> USE TimeoutAssumption
<1> DEFINE nxt == [next EXCEPT ![arg] = follower]
<1> DEFINE abs == [rebased EXCEPT ![arg] = newTime]
<1>0. /\ TypeOK /\ Types /\ Lists /\ Sorted /\ Calls /\ Armed /\ Counts /\ OnTime
      /\ next \in Links /\ list_head \in Heads /\ queue_head \in Heads
      /\ absolute_time \in [Nodes -> 0 .. ABS - 1] /\ last \in 0 .. ABS - 1
      /\ CNT \in 0 .. TOP /\ load \in 0 .. TOP
      /\ status \in [Timers -> {"off", "pending", "due"}]
  BY Facts
<1>1. /\ served /\ pc = "create" /\ pc' = "idle" /\ arg' = NULL
      /\ queue_head' = queue_head /\ asked' = asked /\ age' = age
      /\ status' = status /\ ops' = ops
      /\ startAtHead(arg, nxt, abs, since) /\ ovf' = FALSE
  BY CreateStep
<1>2. /\ arg \in Timers /\ arg \in Nodes /\ arg \in Heads /\ arg # NULL /\ arg # scheduler_dummy
      /\ status[arg] = "pending"
  BY <1>0, <1>1 DEF Calls, Nodes, Heads
<1>3. /\ chain(list_head) \cap chain(queue_head) = {} /\ chain(list_head) \subseteq Nodes
      /\ chain(queue_head) \subseteq Timers
      /\ scheduler_dummy \notin Timers /\ scheduler_dummy \notin chain(queue_head)
      /\ list_head # NULL => list_head \in chain(list_head)
  BY Disjoint
<1>4. arg \notin chain(list_head) /\ arg \notin chain(queue_head)
  BY <1>0, <1>1, <1>2 DEF Lists, waiting
<1>5. newTime \in 0 .. ABS - 1 /\ newTime >= last /\ since = last /\ rebased = absolute_time
  <2>1. /\ newTime \in 0 .. ABS - 1
        /\ ~past => newTime >= last /\ since = last /\ rebased = absolute_time
        /\ past => list_head # NULL /\ rebased[list_head] = 0
    BY <1>1, NewTime
  <2>2. ~(past /\ list_head # NULL /\ rebased[list_head] = 0)
    BY <2>1 DEF goesFirst
  <2>3. QED
    BY <2>1, <2>2
<1>6. (newTime - last) % ABS >= asked[arg] + elapsed
  BY <1>1, <1>5, NewTime
<1>7. /\ reach(follower, next) = chain(list_head) \ {scheduler_dummy}
      /\ IsList(follower, next) /\ follower \in Heads
  <2>1. CASE list_head = scheduler_dummy
    BY <1>0, <2>1, ReachTail DEF follower, Lists, chain, Nodes
  <2>2. CASE list_head # scheduler_dummy
    <3>1. scheduler_dummy \notin chain(list_head)
      BY <1>0, <2>2 DEF Lists
    <3>2. QED
      BY <1>0, <2>2, <3>1 DEF follower, Lists, chain
  <2>3. QED
    BY <2>1, <2>2
<1>8. nxt \in Links /\ nxt[arg] = follower /\ \A n \in Nodes : n # arg => nxt[n] = next[n]
  BY <1>0, <1>2, <1>7 DEF Links, Heads
<1>9. abs \in [Nodes -> 0 .. ABS - 1] /\ abs[arg] = newTime /\ \A n \in Nodes : n # arg => abs[n] = absolute_time[n]
  BY <1>0, <1>2, <1>5
<1> HIDE DEF nxt, abs
<1>10. reach(follower, nxt) = chain(list_head) \ {scheduler_dummy} /\ IsList(follower, nxt)
  <2>1. \A n \in reach(follower, next) : nxt[n] = next[n]
    BY <1>3, <1>4, <1>7, <1>8
  <2>2. QED
    BY <1>0, <1>7, <1>8, <2>1, ReachFrame
<1>11. reach(queue_head, nxt) = chain(queue_head) /\ IsList(queue_head, nxt)
  <2>1. \A n \in reach(queue_head, next) : nxt[n] = next[n]
    BY <1>3, <1>4, <1>8 DEF Nodes, chain
  <2>2. QED
    BY <1>0, <1>8, <2>1, ReachFrame DEF Lists, chain
<1>12. /\ reach(arg, nxt) = (chain(list_head) \ {scheduler_dummy}) \cup {arg}
       /\ IsList(arg, nxt)
  BY <1>2, <1>4, <1>7, <1>8, <1>10, ReachPrepend
<1>13. SortedBy(arg, nxt, abs)
  <2>1. ASSUME NEW n \in chain(list_head) \ {scheduler_dummy}, nxt[n] \in Nodes
        PROVE  abs[n] <= abs[nxt[n]]
    <3>1. n \in Nodes /\ n # arg /\ nxt[n] = next[n]
      BY <1>3, <1>4, <1>8
    <3>2. nxt[n] \in chain(list_head)
      BY <2>1, <3>1, Disjoint, <1>2
    <3>3. absolute_time[n] <= absolute_time[next[n]]
      BY <1>0, <2>1, <3>1 DEF Sorted
    <3>4. QED
      BY <1>4, <1>9, <2>1, <3>1, <3>2, <3>3
  <2>2. ASSUME follower \in Nodes PROVE abs[arg] <= abs[follower]
    <3>1. list_head \in Nodes /\ follower \in chain(list_head)
      <4>1. list_head # NULL
        BY <1>8, <2>2 DEF follower, Nodes
      <4>2. follower # NULL
        BY <2>2
      <4>3. QED
        BY <1>0, <1>3, <4>1, <4>2, Disjoint DEF follower, Heads
    <3>2. absolute_time[list_head] <= absolute_time[follower]
      <4>1. SortedBy(list_head, next, absolute_time)
        BY <1>0 DEF Sorted, SortedBy, chain
      <4>2. absolute_time \in [Nodes -> Int]
        BY <1>0
      <4>3. QED
        BY <1>0, <3>1, <4>1, <4>2, HeadIsLeast DEF chain
    <3>3. newTime < absolute_time[list_head]
      <4>1. absolute_time[list_head] \in Int
        BY <1>0, <3>1
      <4>2. QED
        BY <1>5, <3>1, <4>1 DEF goesFirst
    <3>4. absolute_time[list_head] \in Int /\ absolute_time[follower] \in Int
      BY <1>0, <2>2, <3>1
    <3>5. abs[arg] = newTime /\ abs[follower] = absolute_time[follower]
      BY <1>4, <1>9, <2>2, <3>1
    <3>6. QED
      BY <1>5, <3>2, <3>3, <3>4, <3>5
  <2>3. QED
    BY <1>8, <1>12, <2>1, <2>2 DEF SortedBy
<1>14. ~(arg # NULL /\ abs[arg] < last)
  BY <1>0, <1>5, <1>9
<1>15. /\ list_head' \in Heads /\ next' \in Links
       /\ absolute_time' \in [Nodes -> 0 .. ABS - 1]
       /\ last' = last
       /\ load' \in 0 .. TOP /\ CNT' \in 0 .. TOP
       /\ ovfEnabled' = TRUE /\ is_running' = TRUE
       /\ list_head' # NULL
       /\ IsList(list_head', next') /\ IsList(queue_head, next')
       /\ reach(list_head', next') \cap Timers = reach(arg, nxt) \cap Timers
       /\ reach(queue_head, next') = reach(queue_head, nxt)
       /\ scheduler_dummy \in reach(list_head', next') => list_head' = scheduler_dummy
       /\ SortedBy(list_head', next', absolute_time')
       /\ \A t \in Timers : absolute_time'[t] = abs[t]
       /\ (absolute_time'[list_head'] - last) % ABS = TOP - load'
       /\ CNT' = load'
  <2>1. startAtHead(arg, nxt, abs, last)
    BY <1>1, <1>5 DEF nxt, abs
  <2>2. scheduler_dummy \notin reach(arg, nxt) /\ scheduler_dummy \notin reach(queue_head, nxt)
    BY <1>2, <1>3, <1>11, <1>12
  <2>3. /\ list_head' \in Heads /\ next' \in Links
        /\ absolute_time' \in [Nodes -> 0 .. ABS - 1]
        /\ last' = IF arg = NULL THEN 0 ELSE last
        /\ load' \in 0 .. TOP /\ CNT' \in 0 .. TOP
        /\ ovfEnabled' = (arg # NULL) /\ is_running' = (arg # NULL)
        /\ list_head' = NULL <=> arg = NULL
        /\ IsList(list_head', next') /\ IsList(queue_head, next')
        /\ reach(list_head', next') \cap Timers = reach(arg, nxt) \cap Timers
        /\ reach(queue_head, next') = reach(queue_head, nxt)
        /\ scheduler_dummy \in reach(list_head', next') => list_head' = scheduler_dummy
        /\ SortedBy(list_head', next', absolute_time')
        /\ \A t \in Timers : absolute_time'[t] = abs[t]
        /\ arg # NULL => /\ (absolute_time'[list_head'] - last) % ABS = TOP - load'
                         /\ CNT' = load'
    BY <1>0, <1>2, <1>8, <1>9, <1>11, <1>12, <1>13, <1>14, <2>1, <2>2, StartAtHead
  <2>4. QED
    BY <1>2, <2>3
<1>16. \A x \in Timers : waiting(x)' <=> waiting(x) \/ x = arg
  BY <1>1, <1>2 DEF waiting
<1>17. Types'
  <2>1. absolute_time' \in [Nodes -> Int]
    BY <1>15
  <2>2. QED
    BY <1>0, <1>1, <1>15, <2>1 DEF Types, TypeOK, Links, Heads
<1>18. Lists'
  <2>1. chain(list_head)' \cap Timers = {t \in Timers : waiting(t)'}
    BY <1>0, <1>2, <1>3, <1>12, <1>15, <1>16 DEF Lists, chain
  <2>2. chain(queue_head)' = {t \in Timers : status'[t] = "due"}
    BY <1>0, <1>1, <1>11, <1>15 DEF Lists, chain
  <2>3. QED
    BY <1>1, <1>15, <2>1, <2>2 DEF Lists, chain
<1>19. Sorted'
  BY <1>15 DEF Sorted, SortedBy, chain
<1>20. Calls' /\ Armed'
  BY <1>0, <1>1, <1>15 DEF Calls, Armed
<1>21. Counts'
  <2>1. left(list_head)' = TOP - load' /\ CNT' = load' /\ ~ovf'
    BY <1>1, <1>15 DEF left
  <2>2. QED
    BY <1>15, <2>1 DEF Counts
<1>22. OnTime'
  <2>1. elapsed' = 0 /\ elapsed \in 0 .. TOP
    <3>1. elapsed' = 0
      <4>1. ~ovf' /\ list_head' # NULL
        BY <1>1, <1>15
      <4>2. elapsed' = CNT' - load' + 0
        BY <4>1 DEF elapsed
      <4>3. PICK k \in Int : CNT' = k /\ load' = k
        BY <1>15
      <4>4. elapsed' = k - k + 0
        BY <4>2, <4>3, Zenon
      <4>5. QED
        BY <4>4
    <3>2. CASE list_head = NULL
      BY <3>1, <3>2 DEF elapsed
    <3>3. CASE list_head # NULL
      BY <1>1, <3>1, <3>3, QuietMeansNoOverflow, ElapsedRange
    <3>4. QED
      BY <3>2, <3>3
  <2>2. ASSUME NEW x \in Timers, waiting(x)' PROVE Ripe(x)'
    <3>1. age[x] \in Int /\ asked[x] \in Int /\ x \in Nodes
      BY Facts DEF Nodes
    <3>2. left(x)' = (abs[x] - last) % ABS
      BY <1>15 DEF left
    <3>3. CASE x = arg
      <4>1. left(x)' >= asked[arg] + elapsed
        BY <1>6, <1>9, <3>2, <3>3
      <4>2. left(x)' \in Int
        BY <1>0, <1>9, <3>1, <3>2
      <4>3. age[x] \in Nat
        BY Facts DEF MaxAge
      <4>4. QED
        BY <1>1, <2>1, <3>1, <3>3, <4>1, <4>2, <4>3 DEF Ripe
    <3>4. CASE x # arg
      <4>1. Ripe(x)
        BY <1>0, <1>16, <2>2, <3>4 DEF OnTime
      <4>2. left(x)' = left(x)
        BY <1>9, <3>1, <3>2, <3>4 DEF left
      <4>3. left(x) \in Int
        BY <1>0, <3>1 DEF left
      <4>4. QED
        BY <1>1, <2>1, <3>1, <4>1, <4>2, <4>3 DEF Ripe
    <3>5. QED
      BY <3>3, <3>4
  <2>3. ASSUME NEW x \in Timers, status'[x] = "due" PROVE age'[x] >= asked'[x]
    BY <1>0, <1>1, <2>3 DEF OnTime
  <2>4. QED
    BY <2>2, <2>3 DEF OnTime
<1>23. QED
  BY <1>17, <1>18, <1>19, <1>20, <1>21, <1>22 DEF IInv

(* It does not: it is put where the walk ends.                              *)
LEMMA FinishCreateInner ==
  ASSUME IInv, finishCreate, ~goesFirst
  PROVE  IInv'
<1> USE TimeoutAssumption
<1> DEFINE prev == insertAfter(newTime, rebased)
<1> DEFINE L == chain(list_head)
<1>0. /\ TypeOK /\ Types /\ Lists /\ Sorted /\ Calls /\ Armed /\ Counts /\ OnTime
      /\ next \in Links /\ list_head \in Heads /\ queue_head \in Heads
      /\ absolute_time \in [Nodes -> 0 .. ABS - 1] /\ last \in 0 .. ABS - 1
      /\ CNT \in 0 .. TOP /\ load \in 0 .. TOP
      /\ status \in [Timers -> {"off", "pending", "due"}]
  BY Facts
<1>1. /\ served /\ pc = "create" /\ pc' = "idle" /\ arg' = NULL
      /\ queue_head' = queue_head /\ asked' = asked /\ age' = age
      /\ status' = status /\ ops' = ops
      /\ next' = [next EXCEPT ![arg] = next[prev], ![prev] = arg]
      /\ absolute_time' = [rebased EXCEPT ![arg] = newTime]
      /\ last' = since /\ ovfEnabled' = is_running
      /\ list_head' = list_head /\ CNT' = CNT /\ load' = load
      /\ is_running' = is_running /\ ovf' = ovf
  BY CreateStep
<1>2. /\ arg \in Timers /\ arg \in Nodes /\ arg # NULL /\ arg # scheduler_dummy
      /\ list_head # NULL /\ list_head \in Nodes
  BY <1>0, <1>1 DEF Calls, Nodes, Heads, goesFirst
<1>3. /\ L \cap chain(queue_head) = {} /\ L \subseteq Nodes
      /\ chain(queue_head) \subseteq Timers
      /\ list_head \in L
      /\ \A n \in L : next[n] # NULL => next[n] \in L
  BY <1>2, Disjoint
<1>4. arg \notin L /\ arg \notin chain(queue_head)
  BY <1>0, <1>1, <1>2 DEF Lists, waiting, Calls
<1>5. /\ newTime \in 0 .. ABS - 1 /\ since \in 0 .. ABS - 1
      /\ rebased \in [Nodes -> 0 .. ABS - 1]
      /\ (newTime - since) % ABS >= asked[arg] + elapsed
      /\ \A n \in L : (rebased[n] - since) % ABS = left(n)
      /\ SortedBy(list_head, next, rebased)
  BY <1>1, NewTime
<1>6. ~ovf /\ is_running /\ elapsed \in 0 .. TOP
  BY <1>0, <1>1, <1>2, QuietMeansNoOverflow, ElapsedRange DEF Armed
<1>7. /\ prev \in L /\ rebased[prev] <= newTime
      /\ next[prev] # NULL => rebased[next[prev]] > newTime
  <2>1. rebased[list_head] <= newTime
    <3>1. rebased[list_head] \in Int
      BY <1>2, <1>5
    <3>2. QED
      BY <1>2, <1>5, <3>1 DEF goesFirst
  <2>2. IsList(list_head, next) /\ rebased \in [Nodes -> Int] /\ newTime \in Int
    BY <1>0, <1>5 DEF Lists
  <2>3. QED
    BY <1>0, <1>2, <2>1, <2>2, InsertPoint
<1> HIDE DEF prev
<1>8. prev \in Nodes /\ prev # arg
  BY <1>3, <1>4, <1>7
<1>9. /\ next' \in Links /\ next'[prev] = arg /\ next'[arg] = next[prev]
      /\ \A n \in Nodes : n # arg /\ n # prev => next'[n] = next[n]
  BY <1>0, <1>1, <1>2, <1>8 DEF Links
<1>10. /\ absolute_time' \in [Nodes -> 0 .. ABS - 1] /\ absolute_time'[arg] = newTime
       /\ \A n \in L : absolute_time'[n] = rebased[n]
  BY <1>1, <1>2, <1>3, <1>4, <1>5
<1>11. chain(list_head)' = L \cup {arg} /\ IsList(list_head', next')
  <2>1. \A n \in reach(list_head, next) : n # prev => next'[n] = next[n]
    BY <1>3, <1>4, <1>9 DEF chain
  <2>2. IsList(list_head, next) /\ arg \notin reach(list_head, next) /\ prev \in reach(list_head, next)
    BY <1>0, <1>4, <1>7 DEF Lists, chain
  <2>3. reach(list_head, next') = reach(list_head, next) \cup {arg} /\ IsList(list_head, next')
    BY <1>0, <1>2, <1>9, <2>1, <2>2, ReachInsert
  <2>4. QED
    BY <1>1, <2>3 DEF chain
<1>12. chain(queue_head)' = chain(queue_head) /\ IsList(queue_head', next')
  <2>1. \A n \in reach(queue_head, next) : next'[n] = next[n]
    BY <1>3, <1>4, <1>7, <1>9 DEF Nodes, chain
  <2>2. IsList(queue_head, next)
    BY <1>0 DEF Lists
  <2>3. reach(queue_head, next') = reach(queue_head, next) /\ IsList(queue_head, next')
    BY <1>0, <1>9, <2>1, <2>2, ReachFrame
  <2>4. QED
    BY <1>1, <2>3 DEF chain
<1>13. \A x \in Timers : waiting(x)' <=> waiting(x) \/ x = arg
  BY <1>0, <1>1, <1>2 DEF waiting, Calls
<1>14. Types'
  BY <1>0, <1>1, <1>5, <1>6, <1>9, <1>10 DEF Types, TypeOK, Links
<1>15. Lists'
  <2>1. chain(list_head)' \cap Timers = {t \in Timers : waiting(t)'}
    BY <1>0, <1>2, <1>11, <1>13 DEF Lists
  <2>2. chain(queue_head)' = {t \in Timers : status'[t] = "due"}
    BY <1>0, <1>1, <1>12 DEF Lists
  <2>3. scheduler_dummy \in chain(list_head)' => list_head' = scheduler_dummy
    BY <1>0, <1>1, <1>2, <1>11 DEF Lists
  <2>4. QED
    BY <1>11, <1>12, <2>1, <2>2, <2>3 DEF Lists
<1>16. Sorted'
  <2>1. ASSUME NEW n \in L \cup {arg}, next'[n] \in Nodes
        PROVE  absolute_time'[n] <= absolute_time'[next'[n]]
    <3>1. CASE n = prev
      BY <1>7, <1>9, <1>10, <3>1
    <3>2. CASE n = arg
      <4>1. next'[n] = next[prev] /\ next[prev] \in L
        BY <1>3, <1>7, <1>9, <2>1, <3>2, TimeoutAssumption
      <4>2. rebased[next[prev]] > newTime /\ rebased[next[prev]] \in Int
        BY <1>3, <1>5, <1>7, <4>1
      <4>3. QED
        BY <1>5, <1>10, <3>2, <4>1, <4>2
    <3>3. CASE n # prev /\ n # arg
      <4>1. n \in L /\ next'[n] = next[n] /\ next[n] \in L
        BY <1>3, <1>9, <2>1, <3>3
      <4>2. rebased[n] <= rebased[next[n]]
        BY <1>3, <1>5, <4>1 DEF SortedBy, chain
      <4>3. QED
        BY <1>10, <4>1, <4>2
    <3>4. QED
      BY <3>1, <3>2, <3>3
  <2>2. QED
    BY <1>11, <2>1 DEF Sorted
<1>17. Calls' /\ Armed'
  BY <1>0, <1>1, <1>2, <1>6 DEF Calls, Armed
<1>18. \A n \in L : left(n)' = left(n)
  BY <1>1, <1>5, <1>10 DEF left
<1>19. Counts'
  <2>1. left(list_head)' = left(list_head)
    BY <1>1, <1>3, <1>18
  <2>2. QED
    BY <1>0, <1>1, <2>1 DEF Counts
<1>20. OnTime'
  <2>1. elapsed' = elapsed
    BY <1>1 DEF elapsed
  <2>2. ASSUME NEW x \in Timers, waiting(x)' PROVE Ripe(x)'
    <3>1. CASE x = arg
      <4>1. left(x)' = (newTime - since) % ABS
        BY <1>1, <1>10, <3>1 DEF left
      <4>2. left(x)' >= asked[arg] + elapsed /\ left(x)' \in Int
        BY <1>5, <4>1
      <4>3. age[x] \in Nat /\ asked[x] \in Int
        BY Facts
      <4>4. QED
        BY <1>1, <1>6, <2>1, <3>1, <4>2, <4>3 DEF Ripe
    <3>2. CASE x # arg
      <4>1. Ripe(x) /\ x \in L
        BY <1>0, <1>13, <2>2, <3>2 DEF OnTime, Lists
      <4>2. QED
        BY <1>1, <1>18, <2>1, <4>1 DEF Ripe
    <3>3. QED
      BY <3>1, <3>2
  <2>3. ASSUME NEW x \in Timers, status'[x] = "due" PROVE age'[x] >= asked'[x]
    BY <1>0, <1>1, <2>3 DEF OnTime
  <2>4. QED
    BY <2>2, <2>3 DEF OnTime
<1>21. QED
  BY <1>14, <1>15, <1>16, <1>17, <1>19, <1>20 DEF IInv

-----------------------------------------------------------------------------
(* Nothing happens.                                                         *)
LEMMA StutterHolds ==
  ASSUME IInv, UNCHANGED vars
  PROVE  IInv'
BY DEF IInv, Types, TypeOK, Lists, Sorted, Calls, Armed, Counts, OnTime, Ripe, left, elapsed,
       waiting, chain, IsList, vars, list, rtc, ghost

(* The invariant is inductive, as long as no period ends inside a call.     *)
LEMMA Inductive == Spec => [](raced \/ IInv)
<1>1. Init => raced \/ IInv
  BY InitHolds
<1>2. (raced \/ IInv) /\ [Next]_vars => (raced \/ IInv)'
  <2> SUFFICES ASSUME raced \/ IInv, [Next]_vars, ~raced' PROVE IInv'
    OBVIOUS
  <2>1. IInv
    <3>1. raced => raced'
      BY DEF Next, tick, overflowIsr, beginCreate, finishCreate, beginDelete, finishDelete,
             scheduler_timeout_flush_all, callNextCallback, vars
    <3>2. QED
      BY <3>1
  <2>2. CASE tick
    BY <2>1, <2>2, TickHolds
  <2>3. CASE overflowIsr
    BY <2>1, <2>3, OverflowIsrHolds
  <2>4. CASE \E t \in Timers, d \in Timeouts : beginCreate(t, d)
    BY <2>1, <2>4, BeginCreateHolds
  <2>5. CASE finishCreate
    BY <2>1, <2>5, FinishCreateHead, FinishCreateInner
  <2>6. CASE \E t \in Timers : beginDelete(t)
    BY <2>1, <2>6, BeginDeleteHolds
  <2>7. CASE finishDelete
    BY <2>1, <2>7, FinishDeleteHead, FinishDeleteInner
  <2>8. CASE scheduler_timeout_flush_all
    BY <2>1, <2>8, FlushHolds
  <2>9. CASE callNextCallback
    BY <2>1, <2>9, CallNextHolds
  <2>10. CASE UNCHANGED vars
    BY <2>1, <2>10, StutterHolds
  <2>11. QED
    BY <2>2, <2>3, <2>4, <2>5, <2>6, <2>7, <2>8, <2>9, <2>10 DEF Next
<1>3. QED
  BY <1>1, <1>2, PTL DEF Spec

(* Until a period ends inside a call, the list and the queue hold the       *)
(* timers that wait and those that have expired, each once, the list sorted *)
(* by expiry, for any number of timers and calls and any width of the       *)
(* counters.                                                                *)
THEOREM ListsAreWellFormed == Spec => []ListsWellFormed
<1>1. raced \/ IInv => ListsWellFormed
  BY DEF IInv, Types, Lists, ListsWellFormed, EveryTimerHasItsPlace, waiting
<1>2. QED
  BY <1>1, Inductive, PTL

(* Until a period ends inside a call, no timer expires before the ticks it  *)
(* was created for have passed, across wrap-around of the absolute time and *)
(* rebasing of the list.                                                    *)
THEOREM NoTimerEarly == Spec => []NeverEarly
<1>1. raced \/ IInv => NeverEarly
  BY DEF IInv, OnTime, NeverEarly
<1>2. QED
  BY <1>1, Inductive, PTL

(* The overflow interrupt meets an empty list only before the first call,   *)
(* or after a period has ended inside a call.                               *)
THEOREM IsrEmptyInTwoCases == Spec => []IsrFindsTimer
<1>1. raced \/ IInv => IsrFindsTimer
  BY DEF IInv, Armed, IsrFindsTimer, served
<1>2. QED
  BY <1>1, Inductive, PTL
=============================================================================
