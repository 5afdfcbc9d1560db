---------------------------- MODULE DropzoneProofs ----------------------------
(***************************************************************************)
(* The upload zones, for any number of zones, files and picks and for any  *)
(* options: the books of a zone, its uploads, what is stopped and what is  *)
(* final.                                                                  *)
(*                                                                         *)
(* A handler is a function from a State to a State, so most lemmas are     *)
(* about such functions: what is Sound stays so, and a handler that only   *)
(* starts, cancels or removes is Calm.  A loop over the files of a zone    *)
(* is a recursive function; LoopExists says that it has one value for      *)
(* each number of rounds, and UpTo goes along them.                        *)
(***************************************************************************)
EXTENDS Dropzone, WellFoundedInduction, FiniteSetTheorems, TLAPS

\* A set of numbers has a least one.
LEMMA Least ==
  ASSUME NEW T, T \subseteq Nat, T # {}
  PROVE  \E m \in T : \A n \in T : m <= n
<1> DEFINE R == OpToRel(<, Nat)
<1>1. IsWellFoundedOn(R, Nat)
  BY NatLessThanWellFounded
<1>2. \A m, n \in Nat : m < n => <<m, n>> \in R
  BY DEF OpToRel
<1> HIDE DEF R
<1>3. PICK m \in T : \A n \in T : ~ (<<n, m>> \in R)
  BY <1>1, WFMin
<1>4. ASSUME NEW n \in T PROVE m <= n
  <2>1. m \in Nat /\ n \in Nat /\ ~(n < m)
    BY <1>2, <1>3
  <2> QED
    BY <2>1
<1> QED
  BY <1>4

\* Induction up to N.
LEMMA UpTo ==
  ASSUME NEW N \in Nat, NEW T, 0 \in T, \A n \in 1..N : n - 1 \in T => n \in T
  PROVE  \A n \in 0..N : n \in T
<1> DEFINE U == (0..N) \ T
<1> SUFFICES ASSUME U # {} PROVE FALSE
  OBVIOUS
<1>1. U \subseteq Nat
  OBVIOUS
<1>2. PICK m \in U : \A n \in U : m <= n
  <2> HIDE DEF U
  <2> QED
    BY <1>1, Least
<1>3. m \in 1..N /\ m - 1 \in 0..N /\ ~(m <= m - 1)
  BY <1>2
<1> QED
  BY <1>2, <1>3

\* The values g of a loop from base, in N steps.
Steps(step, N, S) == step \in [(1..N) \X S -> S]

Values(g, N, S, base, step) ==
  /\ g \in [0..N -> S] /\ g[0] = base
  /\ \A n \in 1..N : g[n] = step[<<n, g[n - 1]>>]

\* A loop has values, whatever a step does.
LEMMA LoopExists ==
  ASSUME NEW N \in Nat, NEW S, NEW base \in S, NEW step, Steps(step, N, S)
  PROVE  \E g : Values(g, N, S, base, step)
<1> USE DEF Steps
<1> DEFINE Good(n, g) == /\ g \in [0..n -> S] /\ g[0] = base
                         /\ \A k \in 1..n : g[k] = step[<<k, g[k - 1]>>]
           T == {n \in 0..N : \E g : Good(n, g)}
<1>1. 0 \in T
  <2> DEFINE h == [k \in 0..0 |-> base]
  <2>1. h \in [0..0 -> S] /\ h[0] = base /\ 1..0 = {}
    OBVIOUS
  <2>2. Good(0, h)
    BY <2>1
  <2> HIDE DEF h, Good
  <2> QED
    BY <2>2
<1>2. ASSUME NEW n \in 1..N, n - 1 \in T PROVE n \in T
  <2>1. PICK g : Good(n - 1, g)
    BY <1>2
  <2> DEFINE h == [k \in 0..n |-> IF k = n THEN step[<<n, g[n - 1]>>] ELSE g[k]]
  <2>a. /\ n \in Nat \ {0} /\ n - 1 \in 0..(n - 1) /\ n \in 1..N
        /\ \A k \in 1..n : k = n \/ k \in 1..(n - 1)
        /\ \A k \in 0..n : k = n \/ k \in 0..(n - 1)
        /\ \A k \in 1..n : k - 1 \in 0..(n - 1)
        /\ \A k \in 0..(n - 1) : k # n /\ k \in 0..n
    OBVIOUS
  <2>2. step[<<n, g[n - 1]>>] \in S
    BY <2>1, <2>a
  <2>3. h[n] = step[<<n, g[n - 1]>>] /\ \A k \in 0..(n - 1) : h[k] = g[k]
    BY <2>a
  <2>4. h \in [0..n -> S]
    BY <2>1, <2>2, <2>a
  <2> HIDE DEF h
  <2>5. h[0] = base
    BY <2>1, <2>3, <2>a
  <2>6. ASSUME NEW k \in 1..n PROVE h[k] = step[<<k, h[k - 1]>>]
    <3>1. h[k - 1] = g[k - 1]
      BY <2>3, <2>a
    <3>2. CASE k = n
      BY <3>1, <3>2, <2>3
    <3>3. CASE k \in 1..(n - 1)
      BY <3>1, <3>3, <2>1, <2>3, <2>a
    <3> QED
      BY <3>2, <3>3, <2>a
  <2>7. Good(n, h)
    BY <2>4, <2>5, <2>6
  <2> HIDE DEF Good
  <2> QED
    BY <2>7
<1>3. N \in T
  <2> HIDE DEF T
  <2> QED
    BY <1>1, <1>2, UpTo
<1>4. PICK g : Good(N, g)
  BY <1>3
<1> QED
  BY <1>4 DEF Values

-----------------------------------------------------------------------------
(* What the handlers work on                                               *)

States ==
  [files : [Zones -> SUBSET Files],
   status : [Files -> {"none"} \cup Waiting \cup Final],
   xhr : [Files -> SUBSET Files], sent : SUBSET SUBSET Files,
   completes : [Files -> Nat], due : [Zones -> BOOLEAN],
   told : [Zones -> BOOLEAN]]

\* What is in a list was added to it.
Listed(s, h) ==
  \A z \in Zones : \A f \in s.files[z] : h[f] = z /\ s.status[f] # "none"

\* A file is sent once, when done was called for it.
Unsent(s, p) ==
  /\ \A f \in Files : s.status[f] \in {"none", "added", "queued"} =>
       s.xhr[f] = {}
  /\ \A f \in Files : s.xhr[f] # {} => f \in s.xhr[f]
  /\ \A f \in p : s.xhr[f] = {} /\ s.status[f] \in {"added", "canceled"}

\* The files of a request are uploaded or canceled together.
Together(s) ==
  \A r \in s.sent :
    /\ r # {} /\ \A f \in r : s.xhr[f] = r
    /\ \/ \A f \in r : s.status[f] = "uploading"
       \/ \A f \in r : s.status[f] = "canceled"

\* An upload has its request, and all files of it are in the list.
Carried(s, h) ==
  \A f \in Files : s.status[f] = "uploading" =>
    s.xhr[f] \in s.sent /\ f \in s.xhr[f] /\ s.xhr[f] \subseteq s.files[h[f]]

\* complete came once, but for a group that failed and for what was rejected
\* after it was canceled; what is queued was accepted.
Noted(s, a) ==
  \A f \in Files :
    /\ s.completes[f] > 0 <=> s.status[f] \in Final
    /\ s.completes[f] > 1 => s.status[f] = "error"
    /\ s.status[f] = "error" =>
         s.completes[f] <= IF a[f] = "no" THEN 2 ELSE Cardinality(s.xhr[f])
    /\ s.status[f] = "queued" \/ s.xhr[f] # {} => a[f] = "yes"

Fit(s, h, p, a) ==
  /\ s \in States /\ h \in [Files -> Zones \cup {"none"}] /\ p \subseteq Files
  /\ Listed(s, h) /\ Unsent(s, p) /\ Together(s) /\ Carried(s, h)
  /\ Noted(s, a)

Up(s, z)     == FilesWithStatus(s, z, {"uploading"})
Queued(s, z) == FilesWithStatus(s, z, {"queued"})

\* No zone uploads more than it may; a busy one has no room for what is queued.
Bounded(s) ==
  \A z \in Zones : Cardinality(Up(s, z)) <= options[z].parallelUploads

Busy(s, z) ==
  Queued(s, z) = {} \/ Cardinality(Up(s, z)) >= options[z].parallelUploads

Sound(s, h, p, a) == options \in Layouts /\ Fit(s, h, p, a) /\ Bounded(s)

\* What a handler of zone z does: what was not waiting stays what it was,
\* nothing is added, and files of other zones are left alone.
Calm(s, t, z, h) ==
  /\ \A f \in Files : s.status[f] \notin Waiting \/ h[f] # z =>
       t.status[f] = s.status[f]
  /\ t.files[z] \subseteq s.files[z]
  /\ \A y \in Zones \ {z} : t.files[y] = s.files[y]
  /\ options[z].autoProcessQueue /\ Busy(s, z) => Busy(t, z)

\* One calm handler after another
LEMMA CalmTwice ==
  ASSUME NEW s, NEW t, NEW u, NEW z \in Zones, NEW h,
         Calm(s, t, z, h), Calm(t, u, z, h)
  PROVE  Calm(s, u, z, h)
  BY DEF Calm

LEMMA CalmSame ==
  ASSUME NEW s, NEW z, NEW h
  PROVE  Calm(s, s, z, h)
  BY DEF Calm

\* The types of a State
LEMMA StateIs ==
  ASSUME NEW s \in States
  PROVE  /\ s.files \in [Zones -> SUBSET Files]
         /\ s.status \in [Files -> {"none"} \cup Waiting \cup Final]
         /\ s.xhr \in [Files -> SUBSET Files] /\ s.sent \subseteq SUBSET Files
         /\ s.completes \in [Files -> Nat] /\ s.due \in [Zones -> BOOLEAN]
         /\ s.told \in [Zones -> BOOLEAN]
  BY DEF States

\* Nothing but the status of fs changes.
LEMMA SetStatusIs ==
  ASSUME NEW s \in States, NEW fs, NEW st \in {"none"} \cup Waiting \cup Final
  PROVE  LET t == SetStatus(s, fs, st)
         IN  /\ t \in States
             /\ \A f \in Files :
                  t.status[f] = IF f \in fs THEN st ELSE s.status[f]
             /\ t.files = s.files /\ t.xhr = s.xhr /\ t.sent = s.sent
             /\ t.completes = s.completes /\ t.due = s.due /\ t.told = s.told
  BY DEF SetStatus, States

\* Nothing but the events of fs and of the zone change.
LEMMA CompleteIs ==
  ASSUME NEW s \in States, NEW z \in Zones, NEW fs, NEW n \in Nat
  PROVE  LET t == Complete(s, z, fs, n)
         IN  /\ t \in States
             /\ \A f \in Files : t.completes[f] =
                  s.completes[f] + IF f \in fs THEN n ELSE 0
             /\ t.files = s.files /\ t.xhr = s.xhr /\ t.sent = s.sent
             /\ t.status = s.status
<1> DEFINE c == [f \in Files |-> s.completes[f] + IF f \in fs THEN n ELSE 0]
           d == [s.due EXCEPT ![z] = @ \/ FilesWithStatus(s, z, Waiting) = {}]
           o == [s.told EXCEPT ![z] = FALSE]
           t == Complete(s, z, fs, n)
<1>1. c \in [Files -> Nat] /\ d \in [Zones -> BOOLEAN] /\ o \in [Zones -> BOOLEAN]
  <2>1. \A f \in Files : s.completes[f] \in Nat
    BY StateIs
  <2>2. c \in [Files -> Nat]
    BY <2>1
  <2>3. s.due \in [Zones -> BOOLEAN] /\ s.told \in [Zones -> BOOLEAN]
    BY StateIs
  <2> QED
    BY <2>2, <2>3
<1>2. t = [s EXCEPT !.completes = c, !.due = d, !.told = o]
  BY DEF Complete, States
<1>3. \A f \in Files : c[f] = s.completes[f] + IF f \in fs THEN n ELSE 0
  OBVIOUS
<1> HIDE DEF c, d, o, t
<1>4. t \in States /\ t.completes = c /\ t.files = s.files /\ t.xhr = s.xhr
      /\ t.sent = s.sent /\ t.status = s.status
  BY <1>1, <1>2 DEF States
<1> QED
  BY <1>3, <1>4 DEF t

\* Each file of a request carries it, and uploads.
LEMMA ProcessFilesIs ==
  ASSUME NEW s \in States, NEW requests \in SUBSET SUBSET Files,
         \A q, r \in requests : q \cap r # {} => q = r
  PROVE  LET t == ProcessFiles(s, requests)
         IN  /\ t \in States
             /\ t.files = s.files /\ t.completes = s.completes
             /\ t.sent = s.sent \cup requests
             /\ \A r \in requests : \A f \in r :
                  t.status[f] = "uploading" /\ t.xhr[f] = r
             /\ \A f \in Files \ UNION requests :
                  t.status[f] = s.status[f] /\ t.xhr[f] = s.xhr[f]
<1> DEFINE u == SetStatus(s, UNION requests, "uploading")
           pick(f) == CHOOSE r \in requests : f \in r
           x == [f \in Files |-> IF f \in UNION requests
                                 THEN pick(f) ELSE u.xhr[f]]
           t == ProcessFiles(s, requests)
<1>1. /\ u \in States /\ u.files = s.files /\ u.xhr = s.xhr
      /\ u.sent = s.sent /\ u.completes = s.completes
      /\ \A f \in Files : u.status[f] = IF f \in UNION requests
                                        THEN "uploading" ELSE s.status[f]
  BY SetStatusIs DEF Waiting
<1>2. \A f \in UNION requests : pick(f) \in requests /\ f \in pick(f)
  OBVIOUS
<1>3. \A r \in requests : \A f \in r : pick(f) = r
  BY <1>2
<1>4. t = [u EXCEPT !.xhr = x, !.sent = @ \cup requests]
  BY DEF ProcessFiles, UploadFiles
<1>5. x \in [Files -> SUBSET Files]
  BY <1>1, <1>2 DEF States
<1> HIDE DEF u, t, x
<1>6. /\ t.files = u.files /\ t.completes = u.completes /\ t.status = u.status
      /\ t.xhr = x /\ t.sent = u.sent \cup requests /\ t \in States
  BY <1>1, <1>4, <1>5 DEF States
<1>7. \A r \in requests : \A f \in r : x[f] = r
  BY <1>2, <1>3 DEF x
<1>8. \A f \in Files \ UNION requests : x[f] = s.xhr[f]
  BY <1>1 DEF x
<1>9. \A r \in requests : \A f \in r : t.status[f] = "uploading"
  BY <1>1, <1>6
<1> QED
  BY <1>1, <1>6, <1>7, <1>8, <1>9 DEF t

LEMMA FirstIs ==
  ASSUME NEW fs, NEW n
  PROVE  First(fs, n) \subseteq fs
  BY DEF First

\* Requests share no file, and carry all of fs.
LEMMA RequestsIs ==
  ASSUME NEW z \in Zones, NEW fs \in SUBSET Files
  PROVE  /\ Requests(z, fs) \subseteq SUBSET Files
         /\ {} \notin Requests(z, fs) /\ UNION Requests(z, fs) = fs
         /\ \A q, r \in Requests(z, fs) : q \cap r # {} => q = r
<1>1. CASE fs = {}
  BY <1>1 DEF Requests
<1>2. CASE fs # {} /\ options[z].uploadMultiple
  <2>1. Requests(z, fs) = {fs}
    BY <1>2 DEF Requests
  <2> QED
    BY <1>2, <2>1
<1>3. CASE fs # {} /\ ~options[z].uploadMultiple
  <2>1. Requests(z, fs) = {{f} : f \in fs}
    BY <1>3 DEF Requests
  <2>2. \A f \in fs : {f} \in SUBSET Files
    OBVIOUS
  <2>3. Requests(z, fs) \subseteq SUBSET Files /\ {} \notin Requests(z, fs)
    BY <2>1, <2>2
  <2>4. UNION Requests(z, fs) = fs
    BY <2>1, SMTT(30)
  <2>5. ASSUME NEW q \in Requests(z, fs), NEW r \in Requests(z, fs),
               q \cap r # {}
        PROVE  q = r
    <3>1. PICK f \in fs, g \in fs : q = {f} /\ r = {g}
      BY <2>1
    <3>2. f = g
      BY <2>5, <3>1
    <3> QED
      BY <3>1, <3>2
  <2> QED
    BY <2>3, <2>4, <2>5
<1> QED
  BY <1>1, <1>2, <1>3

LEMMA FilesAre == IsFiniteSet(Files) /\ Files \subseteq Nat
<1>1. MaxPicked \in Nat /\ Files = 1..MaxPicked
  BY DropzoneAssumption DEF Files
<1>2. IsFiniteSet(1..MaxPicked)
  BY <1>1, FS_Interval
<1> QED
  BY <1>1, <1>2

\* Files are finite; so are sets of them, and smaller.
LEMMA SubsetIs ==
  ASSUME NEW fs \in SUBSET Files
  PROVE  /\ IsFiniteSet(fs) /\ Cardinality(fs) \in Nat
         /\ Cardinality(fs) = 0 <=> fs = {}
         /\ \A gs \in SUBSET fs : Cardinality(gs) <= Cardinality(fs)
<1>1. IsFiniteSet(fs)
  BY FilesAre, FS_Subset
<1> QED
  BY <1>1, FS_Subset, FS_CardinalityType, FS_EmptySet

\* First(fs, n) has n files, or all if there are fewer.
LEMMA FirstCount ==
  ASSUME NEW fs \in SUBSET Files, NEW n \in Nat
  PROVE  /\ Cardinality(First(fs, n)) <= n
         /\ First(fs, n) = fs \/ Cardinality(First(fs, n)) >= n
<1> DEFINE K == First(fs, n)
           before(f) == {g \in fs : g < f}
<1>1. K \subseteq fs /\ \A f \in fs : f \in K <=> Cardinality(before(f)) < n
  BY DEF First
<1> HIDE DEF K
<1>2. /\ Cardinality(K) \in Nat /\ IsFiniteSet(K) /\ K \subseteq Files
      /\ Cardinality(K) = 0 <=> K = {}
  BY <1>1, SubsetIs
<1>3. MaxPicked \in Nat /\ Files = 1..MaxPicked
  BY DropzoneAssumption DEF Files
<1>4. ASSUME Cardinality(K) > n PROVE FALSE
  <2> DEFINE U == {MaxPicked - k : k \in K}
  <2>1. U \subseteq Nat /\ U # {}
    BY <1>2, <1>3, <1>4
  <2>2. PICK u \in U : \A v \in U : u <= v
    <3> HIDE DEF U
    <3> QED
      BY <2>1, Least
  <2>3. PICK m \in K : u = MaxPicked - m
    OBVIOUS
  <2>4. ASSUME NEW k \in K PROVE k <= m
    <3>1. MaxPicked - k \in U
      OBVIOUS
    <3>2. MaxPicked - m <= MaxPicked - k
      BY <2>2, <2>3, <3>1
    <3>3. k \in Nat /\ m \in Nat
      BY <1>2, <1>3
    <3> QED
      BY <1>3, <3>2, <3>3
  <2>5. K \ {m} \subseteq before(m)
    BY <1>1, <1>2, <1>3, <2>4
  <2>6. before(m) \subseteq Files
    BY <1>1
  <2>7. Cardinality(K \ {m}) = Cardinality(K) - 1
    BY <1>2, FS_RemoveElement
  <2>8. Cardinality(K \ {m}) <= Cardinality(before(m))
    <3> HIDE DEF before
    <3> QED
      BY <2>5, <2>6, SubsetIs
  <2>9. Cardinality(before(m)) < n /\ Cardinality(before(m)) \in Nat
    <3>1. Cardinality(before(m)) < n
      BY <1>1
    <3> HIDE DEF before
    <3> QED
      BY <3>1, <2>6, SubsetIs
  <2> QED
    BY <1>2, <1>4, <2>7, <2>8, <2>9
<1>5. ASSUME K # fs PROVE Cardinality(K) >= n
  <2> DEFINE U == fs \ K
  <2>1. U \subseteq Nat /\ U # {}
    BY <1>1, <1>5, FilesAre
  <2>2. PICK f \in U : \A g \in U : f <= g
    <3> HIDE DEF U
    <3> QED
      BY <2>1, Least
  <2>3. before(f) \subseteq K
    <3>1. \A g \in fs : g < f => g \notin U
      <4>1. \A g \in U : g \in Nat /\ f \in Nat /\ f <= g
        BY <2>1, <2>2
      <4> HIDE DEF U
      <4> QED
        BY <4>1
    <3> QED
      BY <3>1
  <2>4. ~(Cardinality(before(f)) < n)
    BY <1>1
  <2> HIDE DEF before
  <2>5. Cardinality(before(f)) <= Cardinality(K)
    BY <1>2, <2>3, SubsetIs
  <2>6. Cardinality(before(f)) \in Nat
    BY <1>2, <2>3, SubsetIs
  <2> QED
    BY <1>2, <2>4, <2>5, <2>6
<1> QED
  BY <1>2, <1>4, <1>5 DEF K

\* Queued files of a zone are given requests.
LEMMA StartSound ==
  ASSUME NEW s, NEW h, NEW p, NEW a, Fit(s, h, p, a),
         NEW z \in Zones,
         NEW fs \in SUBSET Queued(s, z)
  PROVE  LET t == ProcessFiles(s, Requests(z, fs))
         IN  /\ Fit(t, h, p, a) /\ t.files = s.files
             /\ t.completes = s.completes
             /\ \A f \in Files :
                  t.status[f] = IF f \in fs THEN "uploading" ELSE s.status[f]
<1> DEFINE Q == Requests(z, fs)
           t == ProcessFiles(s, Q)
<1>0. /\ s \in States /\ Noted(s, a) /\ Listed(s, h) /\ Unsent(s, p)
      /\ Together(s) /\ Carried(s, h)
      /\ h \in [Files -> Zones \cup {"none"}] /\ p \subseteq Files
  BY DEF Fit
<1>1. /\ fs \subseteq Files /\ fs \subseteq s.files[z]
      /\ \A f \in fs : s.status[f] = "queued" /\ h[f] = z /\ s.xhr[f] = {}
  BY <1>0, StateIs DEF Queued, FilesWithStatus, Listed, Unsent
<1>2. /\ Q \subseteq SUBSET Files /\ {} \notin Q /\ UNION Q = fs
      /\ \A q, r \in Q : q \cap r # {} => q = r
  BY <1>1, RequestsIs
<1> HIDE DEF Q
<1>3. /\ t \in States /\ t.files = s.files /\ t.completes = s.completes
      /\ t.sent = s.sent \cup Q
      /\ \A r \in Q : \A f \in r : t.status[f] = "uploading" /\ t.xhr[f] = r
      /\ \A f \in Files \ fs : t.status[f] = s.status[f] /\ t.xhr[f] = s.xhr[f]
  BY <1>0, <1>2, ProcessFilesIs
<1> HIDE DEF t
<1>4. \A f \in fs : /\ t.status[f] = "uploading" /\ t.xhr[f] \in Q
                    /\ f \in t.xhr[f] /\ t.xhr[f] \subseteq fs
  <2> SUFFICES ASSUME NEW f \in fs
               PROVE  /\ t.status[f] = "uploading" /\ t.xhr[f] \in Q
                      /\ f \in t.xhr[f] /\ t.xhr[f] \subseteq fs
    OBVIOUS
  <2>1. PICK r \in Q : f \in r
    BY <1>2
  <2> QED
    BY <2>1, <1>2, <1>3
<1>5. \A r \in s.sent : r \cap fs = {}
  BY <1>0, <1>1 DEF Together
<1>6. Listed(t, h)
  BY <1>0, <1>3, <1>4, StateIs DEF Listed
<1>7. Unsent(t, p)
  <2>1. p \cap fs = {}
    BY <1>0, <1>1 DEF Unsent
  <2> QED
    BY <1>0, <1>3, <1>4, <2>1 DEF Unsent
<1>8. Together(t)
  <2>1. ASSUME NEW r \in s.sent
        PROVE  \A f \in r : t.status[f] = s.status[f] /\ t.xhr[f] = s.xhr[f]
    BY <1>0, <1>3, <1>5, StateIs
  <2>2. ASSUME NEW r \in Q
        PROVE  r # {} /\ \A f \in r : t.status[f] = "uploading" /\ t.xhr[f] = r
    BY <1>2, <1>3
  <2> QED
    BY <1>0, <1>3, <2>1, <2>2 DEF Together
<1>9. Carried(t, h)
  <2>1. ASSUME NEW f \in Files \ fs, t.status[f] = "uploading"
        PROVE  /\ t.xhr[f] \in t.sent /\ f \in t.xhr[f]
               /\ t.xhr[f] \subseteq t.files[h[f]]
    BY <1>0, <1>3, <2>1 DEF Carried
  <2>2. ASSUME NEW f \in fs
        PROVE  /\ t.xhr[f] \in t.sent /\ f \in t.xhr[f]
               /\ t.xhr[f] \subseteq t.files[h[f]]
    BY <1>1, <1>3, <1>4
  <2> QED
    BY <2>1, <2>2 DEF Carried
<1>10. Noted(t, a)
  <2>1. ASSUME NEW f \in fs PROVE a[f] = "yes" /\ s.completes[f] = 0
    BY <1>0, <1>1, StateIs DEF Noted, Final
  <2>2. ASSUME NEW f \in fs
        PROVE  /\ t.completes[f] = 0 /\ t.status[f] = "uploading" /\ a[f] = "yes"
    BY <1>3, <1>4, <2>1
  <2>3. ASSUME NEW f \in Files \ fs
        PROVE  /\ t.completes[f] = s.completes[f] /\ t.status[f] = s.status[f]
               /\ t.xhr[f] = s.xhr[f]
    BY <1>3
  <2> QED
    BY <1>0, <2>2, <2>3 DEF Noted, Final
<1>11. \A f \in Files :
         t.status[f] = IF f \in fs THEN "uploading" ELSE s.status[f]
  BY <1>3, <1>4
<1> QED
  BY <1>0, <1>3, <1>6, <1>7, <1>8, <1>9, <1>10, <1>11 DEF Fit, t, Q

LEMMA ParallelUploadsIs ==
  ASSUME options \in Layouts, NEW z \in Zones
  PROVE  options[z].parallelUploads \in Nat \ {0}
  BY DropzoneAssumption

LEMMA UpIs ==
  ASSUME NEW s \in States, NEW z \in Zones
  PROVE  /\ Up(s, z) \in SUBSET Files /\ Queued(s, z) \in SUBSET Files
         /\ IsFiniteSet(Up(s, z)) /\ Cardinality(Up(s, z)) \in Nat
<1>1. s.files[z] \subseteq Files
  BY StateIs
<1>2. Up(s, z) \in SUBSET Files /\ Queued(s, z) \in SUBSET Files
  BY <1>1 DEF Up, Queued, FilesWithStatus
<1> QED
  BY <1>2, SubsetIs

\* processQueue takes as many as there is room for.
LEMMA QueueFits ==
  ASSUME NEW s, NEW h, NEW p, NEW a, Sound(s, h, p, a), NEW z \in Zones
  PROVE  LET t == ProcessQueue(s, z)
         IN  /\ Sound(t, h, p, a) /\ Calm(s, t, z, h) /\ t.files = s.files
             /\ t.completes = s.completes /\ Busy(t, z)
             /\ \A f \in Files :
                  \/ t.status[f] = s.status[f]
                  \/ /\ s.status[f] = "queued" /\ t.status[f] = "uploading"
                     /\ h[f] = z
<1> DEFINE t == ProcessQueue(s, z)
           par == options[z].parallelUploads
           busy == Cardinality(Up(s, z))
           room == IF busy < par THEN par - busy ELSE 0
           K == First(Queued(s, z), room)
<1>0. s \in States /\ Fit(s, h, p, a) /\ Bounded(s) /\ options \in Layouts
  BY DEF Sound, Fit
<1>1. t = ProcessFiles(s, Requests(z, K))
  BY DEF ProcessQueue, Up, Queued
<1>2. /\ par \in Nat /\ busy \in Nat /\ busy <= par /\ room = par - busy
      /\ room \in Nat
  <2>1. par \in Nat /\ busy \in Nat /\ busy <= par
    BY <1>0, ParallelUploadsIs, UpIs DEF Bounded
  <2> HIDE DEF par, busy
  <2> QED
    BY <2>1
<1> HIDE DEF room, par, busy, t
<1>3. /\ K \subseteq Queued(s, z) /\ Queued(s, z) \in SUBSET Files
      /\ Cardinality(K) <= room
      /\ K = Queued(s, z) \/ Cardinality(K) >= room
  BY <1>0, <1>2, UpIs, FirstIs, FirstCount
<1> HIDE DEF K
<1>4. /\ IsFiniteSet(K) /\ Cardinality(K) \in Nat
  BY <1>3, SubsetIs
<1>5. /\ Fit(t, h, p, a) /\ t.files = s.files /\ t.completes = s.completes
      /\ \A f \in Files :
           t.status[f] = IF f \in K THEN "uploading" ELSE s.status[f]
  BY <1>0, <1>1, <1>3, StartSound
<1>6. \A f \in K : s.status[f] = "queued" /\ f \in s.files[z] /\ h[f] = z
  BY <1>0, <1>3 DEF Queued, FilesWithStatus, Fit, Listed
<1>7. Up(t, z) = Up(s, z) \cup K /\ Up(s, z) \cap K = {}
      /\ Queued(t, z) = Queued(s, z) \ K
  <2>1. s.files[z] \subseteq Files
    BY <1>0, StateIs
  <2> QED
    BY <1>3, <1>5, <1>6, <2>1 DEF Up, Queued, FilesWithStatus
<1>8. Cardinality(Up(t, z)) = busy + Cardinality(K)
  <2>1. IsFiniteSet(Up(s, z)) /\ busy = Cardinality(Up(s, z))
    BY <1>0, UpIs DEF busy
  <2>2. Cardinality(Up(s, z) \cup K) =
          Cardinality(Up(s, z)) + Cardinality(K) - Cardinality(Up(s, z) \cap K)
    BY <2>1, <1>4, FS_Union
  <2>3. Cardinality(Up(s, z) \cap K) = 0
    BY <1>7, FS_EmptySet
  <2>4. Cardinality(Up(t, z)) = Cardinality(Up(s, z) \cup K)
    BY <1>7
  <2> QED
    BY <1>2, <1>4, <2>1, <2>2, <2>3, <2>4
<1>9. Cardinality(Up(t, z)) <= par /\ Busy(t, z)
  <2>1. CASE K = Queued(s, z)
    <3>1. Queued(t, z) = {}
      BY <1>7, <2>1
    <3> QED
      BY <1>2, <1>3, <1>4, <1>8, <3>1 DEF Busy
  <2>2. CASE Cardinality(K) >= room
    BY <1>2, <1>3, <1>4, <1>8, <2>2 DEF Busy, par
  <2> QED
    BY <1>3, <2>1, <2>2
<1>10. ASSUME NEW y \in Zones \ {z} PROVE Up(t, y) = Up(s, y)
  <2>1. s.files[y] \subseteq Files /\ \A f \in s.files[y] : h[f] = y
    BY <1>0, StateIs DEF Fit, Listed
  <2>2. \A f \in s.files[y] : t.status[f] = s.status[f]
    BY <1>5, <1>6, <2>1
  <2> QED
    BY <1>5, <2>2 DEF Up, FilesWithStatus
<1>11. Bounded(t)
  BY <1>0, <1>9, <1>10 DEF Bounded, par
<1>12. Calm(s, t, z, h)
  BY <1>5, <1>6, <1>9 DEF Calm, Waiting
<1> QED
  BY <1>0, <1>5, <1>6, <1>9, <1>11, <1>12 DEF Sound, t

\* Where autoProcessQueue has it called
LEMMA ThenSound ==
  ASSUME NEW s, NEW h, NEW p, NEW a, Sound(s, h, p, a), NEW z \in Zones
  PROVE  LET t == ThenProcessQueue(s, z)
         IN  /\ Sound(t, h, p, a) /\ Calm(s, t, z, h) /\ t.files = s.files
             /\ t.completes = s.completes
             /\ options[z].autoProcessQueue => Busy(t, z)
             /\ \A f \in Files :
                  \/ t.status[f] = s.status[f]
                  \/ /\ s.status[f] = "queued" /\ t.status[f] = "uploading"
                     /\ h[f] = z
<1>1. CASE options[z].autoProcessQueue
  BY <1>1, QueueFits DEF ThenProcessQueue
<1>2. CASE ~options[z].autoProcessQueue
  BY <1>2, CalmSame DEF ThenProcessQueue
<1> QED
  BY <1>1, <1>2

\* Files of zone z may come to their end, a request all at once.
Ends(s, h, p, a, fs, st, n) ==
  /\ s \in States /\ h \in [Files -> Zones \cup {"none"}] /\ p \subseteq Files
  /\ options \in Layouts /\ Bounded(s)
  /\ Listed(s, h) /\ Unsent(s, p) /\ Together(s) /\ Noted(s, a)
  /\ \A f \in Files \ fs : s.status[f] = "uploading" =>
       /\ s.xhr[f] \in s.sent /\ f \in s.xhr[f]
       /\ s.xhr[f] \subseteq s.files[h[f]]
  /\ \A r \in s.sent : r \cap fs = {} \/ (r \subseteq fs /\ st = "canceled")
  /\ fs \cap p = {} \/ st = "canceled"
  /\ fs \subseteq Files /\ st \in Final /\ n \in Nat \ {0}
  /\ st # "error" => n = 1 /\ \A f \in fs : s.status[f] \in Waiting
  /\ st = "error" => \A f \in fs : s.completes[f] + n <=
       IF a[f] = "no" THEN 2 ELSE Cardinality(s.xhr[f])

Ended(s, t, h, p, a, fs, st) ==
  /\ Sound(t, h, p, a) /\ t.files = s.files
  /\ \A f \in Files : t.status[f] = IF f \in fs THEN st ELSE s.status[f]

\* Files end as a whole: everything a State keeps is still right.
LEMMA EndSound ==
  ASSUME NEW s, NEW h, NEW p, NEW a, NEW z \in Zones, NEW fs, NEW st, NEW n,
         Ends(s, h, p, a, fs, st, n)
  PROVE  Ended(s, Complete(SetStatus(s, fs, st), z, fs, n), h, p, a, fs, st)
<1> USE DEF Ends
<1> DEFINE t == Complete(SetStatus(s, fs, st), z, fs, n)
<1>1. /\ t \in States /\ t.files = s.files /\ t.xhr = s.xhr /\ t.sent = s.sent
      /\ \A f \in Files : t.status[f] = IF f \in fs THEN st ELSE s.status[f]
      /\ \A f \in Files :
           t.completes[f] = s.completes[f] + IF f \in fs THEN n ELSE 0
  <2> DEFINE u == SetStatus(s, fs, st)
  <2>1. /\ u \in States /\ u.files = s.files /\ u.xhr = s.xhr
        /\ u.sent = s.sent /\ u.completes = s.completes
        /\ \A f \in Files : u.status[f] = IF f \in fs THEN st ELSE s.status[f]
    <3>1. st \in {"none"} \cup Waiting \cup Final
      OBVIOUS
    <3> QED
      BY <3>1, SetStatusIs
  <2>2. n \in Nat
    OBVIOUS
  <2> HIDE DEF u
  <2>3. LET v == Complete(u, z, fs, n)
        IN  /\ v \in States
            /\ \A f \in Files : v.completes[f] =
                 u.completes[f] + IF f \in fs THEN n ELSE 0
            /\ v.files = u.files /\ v.xhr = u.xhr /\ v.sent = u.sent
            /\ v.status = u.status
    BY <2>1, <2>2, CompleteIs
  <2> QED
    BY <2>1, <2>3 DEF u
<1> HIDE DEF t
<1>s. st \notin {"none", "added", "queued", "uploading"}
  BY DEF Final
<1>2. Listed(t, h)
  BY <1>1, <1>s, StateIs DEF Listed
<1>3. Unsent(t, p)
  BY <1>1, <1>s DEF Unsent
<1>4. Together(t)
  <2> SUFFICES ASSUME NEW r \in s.sent
               PROVE  /\ r # {} /\ \A f \in r : s.xhr[f] = r
                      /\ \/ \A f \in r : t.status[f] = "uploading"
                         \/ \A f \in r : t.status[f] = "canceled"
    BY <1>1 DEF Together
  <2>1. r # {} /\ r \subseteq Files /\ \A f \in r : s.xhr[f] = r
    BY StateIs DEF Together
  <2>2. CASE r \subseteq fs /\ st = "canceled"
    BY <1>1, <2>1, <2>2
  <2>3. CASE r \cap fs = {}
    <3>1. \A f \in r : t.status[f] = s.status[f]
      BY <1>1, <2>1, <2>3
    <3> QED
      BY <2>1, <3>1 DEF Together
  <2> QED
    BY <2>2, <2>3
<1>5. Carried(t, h)
  BY <1>1, <1>s DEF Carried
<1>6. Noted(t, a)
  <2>1. ASSUME NEW f \in Files \ fs
        PROVE  /\ t.completes[f] = s.completes[f] /\ t.status[f] = s.status[f]
               /\ t.xhr[f] = s.xhr[f]
    BY <1>1, StateIs
  <2>2. ASSUME NEW f \in fs
        PROVE  /\ t.completes[f] = s.completes[f] + n /\ t.status[f] = st
               /\ t.xhr[f] = s.xhr[f] /\ s.completes[f] \in Nat
    BY <1>1, StateIs
  <2>3. ASSUME NEW f \in fs, st # "error" PROVE t.completes[f] = 1
    <3>1. s.status[f] \notin Final /\ n = 1
      BY <2>3 DEF Final, Waiting
    <3>2. s.completes[f] = 0
      BY <2>2, <3>1 DEF Noted
    <3> QED
      BY <2>2, <3>1, <3>2
  <2>4. ASSUME NEW f \in fs
        PROVE  /\ t.completes[f] > 0 <=> t.status[f] \in Final
               /\ t.completes[f] > 1 => t.status[f] = "error"
               /\ t.status[f] = "error" =>
                    t.completes[f] <= IF a[f] = "no" THEN 2
                                      ELSE Cardinality(t.xhr[f])
               /\ t.status[f] = "queued" \/ t.xhr[f] # {} => a[f] = "yes"
    <3>1. s.xhr[f] # {} => a[f] = "yes"
      BY DEF Noted
    <3>2. t.status[f] \in Final /\ t.completes[f] > 0
      BY <2>2
    <3> QED
      BY <2>2, <2>3, <3>1, <3>2, <1>s
  <2> QED
    BY <2>1, <2>4 DEF Noted
<1>7. Bounded(t)
  <2> SUFFICES ASSUME NEW y \in Zones
               PROVE  Cardinality(Up(t, y)) <= options[y].parallelUploads
    BY DEF Bounded
  <2>1. Up(t, y) \subseteq Up(s, y)
    <3>1. s.files[y] \subseteq Files
      BY StateIs
    <3> QED
      BY <1>1, <1>s, <3>1 DEF Up, FilesWithStatus
  <2>2. /\ Cardinality(Up(t, y)) <= Cardinality(Up(s, y))
        /\ Cardinality(Up(t, y)) \in Nat /\ Cardinality(Up(s, y)) \in Nat
    BY <1>1, <2>1, UpIs, SubsetIs
  <2> QED
    BY <2>2, ParallelUploadsIs DEF Bounded
<1> QED
  BY <1>1, <1>2, <1>3, <1>4, <1>5, <1>6, <1>7 DEF Sound, Fit, Ended, t

\* cancelUpload, of a file or of the request that carries it
LEMMA CancelSound ==
  ASSUME NEW s, NEW h, NEW p, NEW a, Sound(s, h, p, a),
         NEW z \in Zones, NEW f \in Files, h[f] = z
  PROVE  LET t == CancelUpload(s, z, f)
         IN  /\ Sound(t, h, p, a) /\ Calm(s, t, z, h) /\ t.files = s.files
             /\ t.status[f] \notin Waiting
<1> DEFINE fs == CASE s.status[f] = "uploading" ->
                        {g \in s.files[z] : s.xhr[g] = s.xhr[f]}
                   [] s.status[f] \in {"added", "queued"} -> {f}
                   [] OTHER -> {}
           u == IF fs = {} THEN s
                ELSE Complete(SetStatus(s, fs, "canceled"), z, fs, 1)
           t == CancelUpload(s, z, f)
<1>0. /\ s \in States /\ Listed(s, h) /\ Unsent(s, p) /\ Together(s)
      /\ Carried(s, h) /\ h \in [Files -> Zones \cup {"none"}] /\ p \subseteq Files
      /\ Noted(s, a) /\ Bounded(s) /\ options \in Layouts
  BY DEF Sound, Fit
<1>1. t = ThenProcessQueue(u, z)
  BY DEF CancelUpload
<1>2. /\ s.status[f] = "uploading" => fs = s.xhr[f] /\ f \in fs
      /\ s.status[f] \in {"added", "queued"} => fs = {f}
      /\ s.status[f] \notin Waiting => fs = {}
  <2>1. ASSUME s.status[f] = "uploading" PROVE fs = s.xhr[f] /\ f \in fs
    <3>1. s.xhr[f] \in s.sent /\ f \in s.xhr[f] /\ s.xhr[f] \subseteq s.files[z]
      BY <1>0, <2>1 DEF Carried
    <3>2. \A g \in s.xhr[f] : s.xhr[g] = s.xhr[f]
      BY <1>0, <3>1 DEF Together
    <3>3. \A g \in Files : s.xhr[g] = s.xhr[f] => g \in s.xhr[f]
      BY <1>0, <3>1 DEF Unsent
    <3>4. fs = {g \in s.files[z] : s.xhr[g] = s.xhr[f]}
      BY <2>1
    <3>5. s.files[z] \subseteq Files
      BY <1>0, StateIs
    <3> HIDE DEF fs
    <3> QED
      BY <3>1, <3>2, <3>3, <3>4, <3>5
  <2>2. s.status[f] \in {"added", "queued"} => fs = {f}
    OBVIOUS
  <2>3. s.status[f] \notin Waiting => fs = {}
    BY DEF Waiting
  <2> QED
    BY <2>1, <2>2, <2>3
<1> HIDE DEF fs
<1>3. /\ fs \subseteq Files
      /\ \A g \in fs : s.status[g] \in Waiting /\ h[g] = z
      /\ \A r \in s.sent : r \cap fs = {} \/ r = fs
      /\ s.status[f] \in Waiting <=> f \in fs
  <2>1. CASE s.status[f] = "uploading"
    <3>1. fs \in s.sent /\ f \in fs
      BY <1>0, <1>2, <2>1 DEF Carried
    <3>2. \A g \in fs : s.status[g] = "uploading" /\ s.xhr[g] = fs
      BY <1>0, <1>2, <2>1, <3>1 DEF Together
    <3>3. \A r \in s.sent : \A g \in r : s.xhr[g] = r
      BY <1>0 DEF Together
    <3>4. fs \subseteq Files
      BY <1>0, <3>1, StateIs
    <3>5. \A g \in fs : h[g] = z
      <4>1. fs \subseteq s.files[z]
        BY <1>0, <1>2, <2>1 DEF Carried
      <4> QED
        BY <1>0, <4>1 DEF Listed
    <3> QED
      BY <2>1, <3>1, <3>2, <3>3, <3>4, <3>5 DEF Waiting
  <2>2. CASE s.status[f] \in {"added", "queued"}
    <3>1. fs = {f} /\ s.xhr[f] = {}
      BY <1>0, <1>2, <2>2 DEF Unsent
    <3>2. \A r \in s.sent : f \notin r
      BY <1>0, <3>1 DEF Together
    <3> QED
      BY <2>2, <3>1, <3>2 DEF Waiting
  <2>3. CASE s.status[f] \notin Waiting
    BY <1>2, <2>3
  <2> QED
    BY <2>1, <2>2, <2>3 DEF Waiting
<1>4. /\ Sound(u, h, p, a) /\ u.files = s.files
      /\ \A g \in Files :
           u.status[g] = IF g \in fs THEN "canceled" ELSE s.status[g]
  <2>1. CASE fs = {}
    BY <2>1
  <2>2. CASE fs # {}
    <3>1. u = Complete(SetStatus(s, fs, "canceled"), z, fs, 1)
      BY <2>2
    <3>2. \A g \in Files \ fs : s.status[g] = "uploading" =>
            /\ s.xhr[g] \in s.sent /\ g \in s.xhr[g]
            /\ s.xhr[g] \subseteq s.files[h[g]]
      BY <1>0 DEF Carried
    <3>3. "canceled" \in Final /\ "canceled" # "error" /\ 1 \in Nat \ {0}
      BY DEF Final
    <3>4. /\ \A g \in fs : s.status[g] \in Waiting
          /\ \A r \in s.sent :
               r \cap fs = {} \/ (r \subseteq fs /\ "canceled" = "canceled")
      BY <1>3
    <3>5. Ends(s, h, p, a, fs, "canceled", 1)
      BY <1>0, <1>3, <3>2, <3>3, <3>4 DEF Ends
    <3> HIDE DEF u
    <3>6. Ended(s, u, h, p, a, fs, "canceled")
      <4>1. Ended(s, Complete(SetStatus(s, fs, "canceled"), z, fs, 1),
                  h, p, a, fs, "canceled")
        BY <3>5, EndSound
      <4> QED
        BY <3>1, <4>1
    <3> QED
      BY <3>6 DEF Ended
  <2> QED
    BY <2>1, <2>2
<1> HIDE DEF u
<1>5. /\ Sound(t, h, p, a) /\ t.files = u.files
      /\ options[z].autoProcessQueue => Busy(t, z)
      /\ options[z].autoProcessQueue \/ t = u
      /\ \A g \in Files :
           t.status[g] = u.status[g] \/ (u.status[g] = "queued" /\ h[g] = z)
  BY <1>1, <1>4, ThenSound DEF ThenProcessQueue
<1>6. Calm(s, t, z, h)
  <2>1. \A g \in Files : s.status[g] \notin Waiting \/ h[g] # z =>
                           t.status[g] = s.status[g]
    BY <1>3, <1>4, <1>5 DEF Waiting
  <2> QED
    BY <1>4, <1>5, <2>1 DEF Calm
<1>7. t.status[f] \notin Waiting
  <2>1. u.status[f] \notin Waiting
    BY <1>3, <1>4 DEF Waiting
  <2> QED
    BY <1>5, <2>1 DEF Waiting
<1> QED
  BY <1>4, <1>5, <1>6, <1>7 DEF t

\* removeFile: what it cancels leaves no file of its request behind.
LEMMA RemoveSound ==
  ASSUME NEW s, NEW h, NEW p, NEW a, Sound(s, h, p, a),
         NEW z \in Zones, NEW f \in Files, h[f] = z
  PROVE  LET t == RemoveFile(s, z, f)
         IN  Sound(t, h, p, a) /\ Calm(s, t, z, h) /\ f \notin t.files[z]
<1> DEFINE u == IF s.status[f] = "uploading" THEN CancelUpload(s, z, f) ELSE s
           t == RemoveFile(s, z, f)
<1>1. /\ Sound(u, h, p, a) /\ Calm(s, u, z, h) /\ u.status[f] # "uploading"
  <2>1. CASE s.status[f] = "uploading"
    BY <2>1, CancelSound DEF Waiting
  <2>2. CASE s.status[f] # "uploading"
    BY <2>2, CalmSame
  <2> QED
    BY <2>1, <2>2
<1>2. t = [u EXCEPT !.files[z] = @ \ {f}]
  BY DEF RemoveFile
<1> HIDE DEF u, t
<1>3. u \in States
  BY <1>1 DEF Sound, Fit
<1>4. /\ t \in States /\ t.status = u.status /\ t.xhr = u.xhr /\ t.sent = u.sent
      /\ t.completes = u.completes
      /\ t.files = [u.files EXCEPT ![z] = @ \ {f}]
  BY <1>2, <1>3 DEF States
<1>5. /\ t.files[z] = u.files[z] \ {f}
      /\ \A y \in Zones : t.files[y] \subseteq u.files[y]
  BY <1>3, <1>4, StateIs
<1>6. Listed(t, h) /\ Unsent(t, p) /\ Together(t)
  BY <1>1, <1>4, <1>5 DEF Sound, Fit, Listed, Unsent, Together
<1>7. Carried(t, h)
  <2> SUFFICES ASSUME NEW g \in Files, u.status[g] = "uploading"
               PROVE  /\ u.xhr[g] \in u.sent /\ g \in u.xhr[g]
                      /\ u.xhr[g] \subseteq t.files[h[g]]
    BY <1>4 DEF Carried
  <2>1. /\ u.xhr[g] \in u.sent /\ g \in u.xhr[g]
        /\ u.xhr[g] \subseteq u.files[h[g]]
    BY <1>1 DEF Sound, Fit, Carried
  <2>2. f \notin u.xhr[g]
    BY <1>1, <2>1 DEF Sound, Fit, Together
  <2>3. \A y : u.files[y] \ {f} \subseteq t.files[y]
    BY <1>3, <1>4, StateIs
  <2> QED
    BY <2>1, <2>2, <2>3
<1>8. \A y \in Zones : Up(t, y) = Up(u, y) /\ Queued(t, y) \subseteq Queued(u, y)
  <2>1. u.status[f] # "uploading"
    BY <1>1
  <2>2. \A y \in Zones : \A g \in u.files[y] : g # f => g \in t.files[y]
    BY <1>3, <1>4, StateIs
  <2> QED
    BY <1>4, <1>5, <2>1, <2>2 DEF Up, Queued, FilesWithStatus
<1>9. Bounded(t) /\ Noted(t, a)
  BY <1>1, <1>4, <1>8 DEF Sound, Fit, Bounded, Noted
<1>10. Calm(s, t, z, h)
  <2>1. t.files[z] \subseteq s.files[z]
    BY <1>1, <1>5 DEF Calm
  <2>2. \A y \in Zones \ {z} : t.files[y] = s.files[y]
    BY <1>1, <1>3, <1>4, StateIs DEF Calm
  <2>3. Busy(u, z) => Busy(t, z)
    BY <1>8 DEF Busy
  <2> QED
    BY <1>1, <1>4, <2>1, <2>2, <2>3 DEF Calm
<1> QED
  BY <1>1, <1>4, <1>5, <1>6, <1>7, <1>9, <1>10 DEF Sound, Fit, t

-----------------------------------------------------------------------------
(* The loops over the files of a zone                                      *)

\* The loop of disable leaves nothing that waits.
LEMMA CancelAllSound ==
  ASSUME NEW s, NEW h, NEW p, NEW a, Sound(s, h, p, a), NEW z \in Zones
  PROVE  LET t == CancelAll(s, z)
         IN  /\ Sound(t, h, p, a) /\ Calm(s, t, z, h) /\ t.files = s.files
             /\ FilesWithStatus(t, z, Waiting) = {}
<1> DEFINE fs == s.files[z]
           S == {t \in States : /\ Sound(t, h, p, a) /\ Calm(s, t, z, h)
                                /\ t.files = s.files}
           body(t, n) == IF n \in fs THEN CancelUpload(t, z, n) ELSE t
           step == [x \in (1..MaxPicked) \X S |-> body(x[2], x[1])]
           Loop(g) == g = [n \in 0..MaxPicked |->
                             IF n = 0 THEN s ELSE body(g[n - 1], n)]
           after == CHOOSE g : Loop(g)
<1>0. /\ s \in States /\ s \in S /\ fs \subseteq Files
      /\ \A f \in fs : h[f] = z
  BY StateIs, CalmSame DEF Sound, Fit, Listed
<1>m. MaxPicked \in Nat /\ Files = 1..MaxPicked
  BY DropzoneAssumption DEF Files
<1>1. ASSUME NEW t \in S, NEW n \in 1..MaxPicked
      PROVE  /\ body(t, n) \in S /\ Calm(t, body(t, n), z, h)
             /\ n \in fs => body(t, n).status[n] \notin Waiting
  <2> DEFINE u == body(t, n)
  <2>1. Sound(t, h, p, a) /\ Calm(s, t, z, h) /\ t.files = s.files
    OBVIOUS
  <2>2. CASE n \notin fs
    BY <2>1, <2>2, CalmSame
  <2>3. CASE n \in fs
    <3>1. u = CancelUpload(t, z, n) /\ n \in Files /\ h[n] = z
      BY <2>3, <1>0, <1>m
    <3> HIDE DEF u
    <3>2. /\ Sound(u, h, p, a) /\ Calm(t, u, z, h) /\ u.files = t.files
          /\ u.status[n] \notin Waiting
      BY <2>1, <3>1, CancelSound
    <3>3. u \in States /\ Calm(s, u, z, h)
      BY <1>0, <2>1, <3>2, CalmTwice DEF Sound, Fit
    <3> QED
      BY <2>1, <3>2, <3>3 DEF u
  <2> QED
    BY <2>2, <2>3
<1> HIDE DEF S, body
<1>2. step \in [(1..MaxPicked) \X S -> S]
  BY <1>1
<1>3. \A n \in 1..MaxPicked, t \in S : step[<<n, t>>] = body(t, n)
  OBVIOUS
<1> HIDE DEF step
<1>p. PICK g : Values(g, MaxPicked, S, s, step)
  <2>1. Steps(step, MaxPicked, S)
    BY <1>2 DEF Steps
  <2> QED
    BY <1>0, <1>m, <2>1, LoopExists
<1>4. /\ g \in [0..MaxPicked -> S] /\ g[0] = s
      /\ \A n \in 1..MaxPicked : g[n] = step[<<n, g[n - 1]>>]
  BY <1>p DEF Values
<1>5. ASSUME NEW n \in 1..MaxPicked PROVE g[n] = body(g[n - 1], n)
  <2>1. n - 1 \in 0..MaxPicked
    BY <1>m
  <2>2. g[n - 1] \in S
    BY <1>4, <2>1
  <2> QED
    BY <2>2, <1>3, <1>4
<1>6. Loop(g)
  BY <1>4, <1>5, <1>m
<1>7. Loop(after)
  <2> HIDE DEF Loop
  <2> QED
    BY <1>6
<1>8. CancelAll(s, z) = after[MaxPicked]
  BY DEF CancelAll, ForEach, body
<1> HIDE DEF after
<1>9. after[0] = s /\ \A n \in 1..MaxPicked : after[n] = body(after[n - 1], n)
  BY <1>7, <1>m
<1> DEFINE T == {n \in 0..MaxPicked :
                   /\ after[n] \in S
                   /\ \A f \in fs : f <= n => after[n].status[f] \notin Waiting}
<1>10. 0 \in T
  BY <1>0, <1>9, <1>m
<1>11. ASSUME NEW n \in 1..MaxPicked, n - 1 \in T PROVE n \in T
  <2>1. /\ after[n] \in S /\ Calm(after[n - 1], after[n], z, h)
        /\ n \in fs => after[n].status[n] \notin Waiting
    BY <1>1, <1>9, <1>11
  <2>2. ASSUME NEW f \in fs, f <= n PROVE after[n].status[f] \notin Waiting
    <3>1. CASE f = n
      BY <2>1, <3>1
    <3>2. CASE f # n
      <4>1. f \in Files /\ f <= n - 1
        BY <1>0, <1>m, <2>2, <3>2
      <4>2. after[n - 1].status[f] \notin Waiting
        BY <4>1, <1>11
      <4> QED
        BY <2>1, <4>1, <4>2 DEF Calm
    <3> QED
      BY <3>1, <3>2
  <2> QED
    BY <2>1, <2>2, <1>m
<1>12. MaxPicked \in T
  <2> HIDE DEF T
  <2> QED
    BY <1>10, <1>11, <1>m, UpTo
<1>13. /\ after[MaxPicked] \in S
       /\ \A f \in fs : after[MaxPicked].status[f] \notin Waiting
  BY <1>0, <1>12, <1>m
<1> QED
  BY <1>8, <1>13 DEF S, FilesWithStatus

\* What waits for nothing is final.
LEMMA NothingWaits ==
  ASSUME NEW t, NEW h, NEW p, NEW a, Sound(t, h, p, a), NEW z \in Zones,
         FilesWithStatus(t, z, Waiting) = {}
  PROVE  \A f \in t.files[z] : t.status[f] \in Final
<1> SUFFICES ASSUME NEW f \in t.files[z] PROVE t.status[f] \in Final
  OBVIOUS
<1>1. f \in Files /\ t.status[f] # "none" /\ t.status[f] \notin Waiting
  BY StateIs DEF Sound, Fit, Listed, FilesWithStatus
<1>2. t.status[f] \in {"none"} \cup Waiting \cup Final
  BY <1>1, StateIs DEF Sound, Fit
<1> QED
  BY <1>1, <1>2

\* removeAllFiles
LEMMA RemoveAllSound ==
  ASSUME NEW s, NEW h, NEW p, NEW a, Sound(s, h, p, a), NEW z \in Zones,
         NEW c \in BOOLEAN
  PROVE  LET t == RemoveAllFiles(s, z, c)
         IN  Sound(t, h, p, a) /\ Calm(s, t, z, h)
<1> DEFINE fs == s.files[z]
           S == {t \in States : Sound(t, h, p, a) /\ Calm(s, t, z, h)}
           body(t, n) == IF n \in fs
                         THEN IF t.status[n] # "uploading" \/ c
                              THEN RemoveFile(t, z, n) ELSE t
                         ELSE t
           step == [x \in (1..MaxPicked) \X S |-> body(x[2], x[1])]
           Loop(g) == g = [n \in 0..MaxPicked |->
                             IF n = 0 THEN s ELSE body(g[n - 1], n)]
           after == CHOOSE g : Loop(g)
<1>0. /\ s \in States /\ s \in S /\ fs \subseteq Files
      /\ \A f \in fs : h[f] = z
  BY StateIs, CalmSame DEF Sound, Fit, Listed
<1>m. MaxPicked \in Nat /\ Files = 1..MaxPicked
  BY DropzoneAssumption DEF Files
<1>1. ASSUME NEW t \in S, NEW n \in 1..MaxPicked PROVE body(t, n) \in S
  <2> DEFINE u == body(t, n)
  <2>1. Sound(t, h, p, a) /\ Calm(s, t, z, h)
    OBVIOUS
  <2>2. CASE u = t
    BY <2>2
  <2>3. CASE u # t
    <3>1. u = RemoveFile(t, z, n) /\ n \in Files /\ h[n] = z
      BY <2>3, <1>0, <1>m
    <3> HIDE DEF u
    <3>2. Sound(u, h, p, a) /\ Calm(t, u, z, h)
      BY <2>1, <3>1, RemoveSound
    <3>3. u \in States /\ Calm(s, u, z, h)
      BY <1>0, <2>1, <3>2, CalmTwice DEF Sound, Fit
    <3> QED
      BY <3>2, <3>3 DEF u
  <2> QED
    BY <2>2, <2>3
<1> HIDE DEF S, body
<1>2. step \in [(1..MaxPicked) \X S -> S]
  BY <1>1
<1>3. \A n \in 1..MaxPicked, t \in S : step[<<n, t>>] = body(t, n)
  OBVIOUS
<1> HIDE DEF step
<1>p. PICK g : Values(g, MaxPicked, S, s, step)
  <2>1. Steps(step, MaxPicked, S)
    BY <1>2 DEF Steps
  <2> QED
    BY <1>0, <1>m, <2>1, LoopExists
<1>4. /\ g \in [0..MaxPicked -> S] /\ g[0] = s
      /\ \A n \in 1..MaxPicked : g[n] = step[<<n, g[n - 1]>>]
  BY <1>p DEF Values
<1>5. ASSUME NEW n \in 1..MaxPicked PROVE g[n] = body(g[n - 1], n)
  <2>1. n - 1 \in 0..MaxPicked
    BY <1>m
  <2>2. g[n - 1] \in S
    BY <1>4, <2>1
  <2> QED
    BY <2>2, <1>3, <1>4
<1>6. Loop(g)
  BY <1>4, <1>5, <1>m
<1>7. Loop(after)
  <2> HIDE DEF Loop
  <2> QED
    BY <1>6
<1>8. RemoveAllFiles(s, z, c) = after[MaxPicked]
  BY DEF RemoveAllFiles, ForEach, body
<1> HIDE DEF after
<1>9. after[0] = s /\ \A n \in 1..MaxPicked : after[n] = body(after[n - 1], n)
  BY <1>7, <1>m
<1> DEFINE T == {n \in 0..MaxPicked : after[n] \in S}
<1>10. 0 \in T
  BY <1>0, <1>9, <1>m
<1>11. ASSUME NEW n \in 1..MaxPicked, n - 1 \in T PROVE n \in T
  BY <1>1, <1>9, <1>11, <1>m
<1>12. MaxPicked \in T
  <2> HIDE DEF T
  <2> QED
    BY <1>10, <1>11, <1>m, UpTo
<1> QED
  BY <1>8, <1>12 DEF S

-----------------------------------------------------------------------------
(* Handlers that end files, and the done of accept                         *)

\* Whether a zone has room is seen from its own files.
LEMMA BusyKept ==
  ASSUME NEW s \in States, NEW t, NEW z \in Zones, t.files[z] = s.files[z],
         \A f \in s.files[z] : t.status[f] = s.status[f]
  PROVE  Busy(t, z) <=> Busy(s, z)
<1>1. Up(t, z) = Up(s, z) /\ Queued(t, z) = Queued(s, z)
  BY DEF Up, Queued, FilesWithStatus
<1> QED
  BY <1>1 DEF Busy

\* _finished, _errorProcessing
Finishes(s, t, h, p, a, z, fs, st) ==
  /\ Sound(t, h, p, a) /\ t.files = s.files
  /\ \A f \in fs : t.status[f] = st
  /\ \A f \in Files : s.status[f] \notin Waiting /\ f \notin fs =>
       t.status[f] = s.status[f]
  /\ \A f \in Files : h[f] # z => t.status[f] = s.status[f]
  /\ options[z].autoProcessQueue => Busy(t, z)

LEMMA FinishSound ==
  ASSUME NEW s, NEW h, NEW p, NEW a, NEW z \in Zones, NEW fs, NEW st, NEW n,
         Ends(s, h, p, a, fs, st, n), fs \subseteq {f \in Files : h[f] = z}
  PROVE  Finishes(s, ThenProcessQueue(
                       Complete(SetStatus(s, fs, st), z, fs, n), z),
                  h, p, a, z, fs, st)
<1> DEFINE u == Complete(SetStatus(s, fs, st), z, fs, n)
           t == ThenProcessQueue(u, z)
<1>0. Ends(s, h, p, a, fs, st, n)
  OBVIOUS
<1>1. /\ Sound(u, h, p, a) /\ u.files = s.files
      /\ \A f \in Files : u.status[f] = IF f \in fs THEN st ELSE s.status[f]
  <2>1. Ended(s, u, h, p, a, fs, st)
    BY <1>0, EndSound
  <2> HIDE DEF u
  <2> QED
    BY <2>1 DEF Ended
<1>2. fs \subseteq Files /\ st \notin Waiting /\ \A f \in fs : h[f] = z
  BY DEF Ends, Final, Waiting
<1> HIDE DEF u
<1>3. /\ Sound(t, h, p, a) /\ t.files = u.files
      /\ options[z].autoProcessQueue => Busy(t, z)
      /\ options[z].autoProcessQueue \/ t = u
      /\ \A f \in Files :
           \/ t.status[f] = u.status[f]
           \/ u.status[f] = "queued" /\ t.status[f] = "uploading" /\ h[f] = z
  BY <1>1, ThenSound DEF ThenProcessQueue
<1> HIDE DEF t
<1>4. \A f \in fs : t.status[f] = st
  BY <1>1, <1>2, <1>3 DEF Waiting
<1>5. \A f \in Files : s.status[f] \notin Waiting /\ f \notin fs =>
        t.status[f] = s.status[f]
  BY <1>1, <1>3 DEF Waiting
<1>6. \A f \in Files : h[f] # z => t.status[f] = s.status[f]
  BY <1>1, <1>2, <1>3
<1> QED
  BY <1>1, <1>3, <1>4, <1>5, <1>6 DEF Finishes, t, u

\* A file whose done is called
Hearing(s, h, p, a, z, f) ==
  /\ Sound(s, h, p, a) /\ f \in Files /\ h[f] = z
  /\ s.status[f] \in {"added", "canceled"} /\ s.xhr[f] = {} /\ a[f] = "unset"
  /\ a \in [Files -> {"unset", "yes", "no"}]

\* done with an error, also after a cancellation
LEMMA RejectedSound ==
  ASSUME NEW s, NEW h, NEW p, NEW a, NEW z \in Zones, NEW f,
         Hearing(s, h, p, a, z, f)
  PROVE  Ends(s, h, p \ {f}, [a EXCEPT ![f] = "no"], {f}, "error", 1)
<1> DEFINE b == [a EXCEPT ![f] = "no"]
           q == p \ {f}
<1>0. /\ s \in States /\ h \in [Files -> Zones \cup {"none"}] /\ p \subseteq Files
      /\ options \in Layouts /\ Bounded(s) /\ Listed(s, h) /\ Unsent(s, p)
      /\ Together(s) /\ Carried(s, h) /\ Noted(s, a)
      /\ f \in Files /\ s.status[f] \in {"added", "canceled"} /\ s.xhr[f] = {}
      /\ a[f] = "unset"
      /\ b[f] = "no" /\ \A g \in Files \ {f} : b[g] = a[g]
  BY DEF Hearing, Sound, Fit
<1> HIDE DEF b
<1>1. Unsent(s, q) /\ q \subseteq Files /\ {f} \cap q = {}
  BY <1>0 DEF Unsent
<1>2. Noted(s, b)
  BY <1>0, StateIs DEF Noted, Final
<1>3. \A r \in s.sent : r \cap {f} = {}
  BY <1>0 DEF Together
<1>4. s.completes[f] + 1 <= 2
  <2>1. ~(s.completes[f] > 1) /\ s.completes[f] \in Nat
    BY <1>0, StateIs DEF Noted
  <2> QED
    BY <2>1
<1>5. \A g \in Files \ {f} : s.status[g] = "uploading" =>
           /\ s.xhr[g] \in s.sent /\ g \in s.xhr[g]
           /\ s.xhr[g] \subseteq s.files[h[g]]
  BY <1>0 DEF Carried
<1>6. "error" \in Final /\ 1 \in Nat \ {0} /\ {f} \subseteq Files
  BY <1>0 DEF Final
<1> HIDE DEF q
<1>7. Ends(s, h, q, b, {f}, "error", 1)
  BY <1>0, <1>1, <1>2, <1>3, <1>4, <1>5, <1>6 DEF Ends
<1> QED
  BY <1>7 DEF q, b

\* done without one
LEMMA AcceptedSound ==
  ASSUME NEW s, NEW h, NEW p, NEW a, NEW z \in Zones, NEW f,
         Hearing(s, h, p, a, z, f)
  PROVE  Sound(s, h, p \ {f}, [a EXCEPT ![f] = "yes"])
<1> DEFINE b == [a EXCEPT ![f] = "yes"]
           q == p \ {f}
<1>0. /\ s \in States /\ Sound(s, h, p, a) /\ Unsent(s, p) /\ Noted(s, a)
      /\ f \in Files /\ s.status[f] \in {"added", "canceled"} /\ s.xhr[f] = {}
      /\ p \subseteq Files
      /\ b[f] = "yes" /\ \A g \in Files \ {f} : b[g] = a[g]
  BY DEF Hearing, Sound, Fit
<1> HIDE DEF b
<1>1. Unsent(s, q) /\ q \subseteq Files
  BY <1>0 DEF Unsent
<1>2. Noted(s, b)
  BY <1>0, StateIs DEF Noted, Final
<1> HIDE DEF q
<1>3. Sound(s, h, q, b)
  BY <1>0, <1>1, <1>2 DEF Sound, Fit
<1> QED
  BY <1>3 DEF q, b

\* enqueueFile
Enqueues(s, t, h, p, a, f) ==
  /\ Sound(t, h, p, a) /\ t.files = s.files
  /\ \A g \in Files : t.status[g] = IF g = f THEN "queued" ELSE s.status[g]

LEMMA EnqueuedSound ==
  ASSUME NEW s, NEW h, NEW p, NEW a, Sound(s, h, p, a), NEW f \in Files,
         s.status[f] = "added", a[f] = "yes", f \notin p
  PROVE  Enqueues(s, SetStatus(s, {f}, "queued"), h, p, a, f)
<1> DEFINE t == SetStatus(s, {f}, "queued")
<1>0. /\ s \in States /\ Listed(s, h) /\ Unsent(s, p) /\ Together(s)
      /\ Carried(s, h) /\ Noted(s, a) /\ Bounded(s)
  BY DEF Sound, Fit
<1>1. /\ t \in States /\ t.files = s.files /\ t.xhr = s.xhr /\ t.sent = s.sent
      /\ t.completes = s.completes
      /\ \A g \in Files : t.status[g] = IF g = f THEN "queued" ELSE s.status[g]
  <2>1. "queued" \in {"none"} \cup Waiting \cup Final
    BY DEF Waiting
  <2> QED
    BY <1>0, <2>1, SetStatusIs
<1> HIDE DEF t
<1>2. s.xhr[f] = {}
  BY <1>0 DEF Unsent
<1>3. Listed(t, h)
  BY <1>0, <1>1, StateIs DEF Listed
<1>4. Unsent(t, p)
  BY <1>0, <1>1, <1>2, StateIs DEF Unsent, Sound, Fit
<1>5. Together(t)
  <2>1. \A r \in s.sent : f \notin r /\ r \subseteq Files
    BY <1>0, <1>2, StateIs DEF Together
  <2>2. \A r \in s.sent : \A g \in r : t.status[g] = s.status[g]
    BY <1>1, <2>1
  <2> QED
    BY <1>0, <1>1, <2>2 DEF Together
<1>6. Carried(t, h)
  BY <1>0, <1>1 DEF Carried
<1>7. Noted(t, a)
  BY <1>0, <1>1, <1>2 DEF Noted, Final
<1>8. Bounded(t)
  <2>1. \A y \in Zones : Up(t, y) = Up(s, y)
    BY <1>0, <1>1, StateIs DEF Up, FilesWithStatus
  <2> QED
    BY <1>0, <2>1 DEF Bounded
<1> QED
  BY <1>1, <1>3, <1>4, <1>5, <1>6, <1>7, <1>8 DEF Sound, Fit, Enqueues, t

-----------------------------------------------------------------------------
(* The inductive invariant                                                 *)

\* A file that was not added yet
Untouched ==
  \A f \in Files : home[f] = "none" =>
    status[f] = "none" /\ f \notin pending /\ accepted[f] = "unset"

\* done is called once, and only an asynchronous accept calls it late.
Unheard ==
  \A f \in pending : accepted[f] = "unset" /\ options[home[f]].asynchronous

\* What disable and destroy stopped stays stopped.
Quiet == \A f \in stopped : status[f] \in Final

Filled ==
  \A z \in Zones : options[z].autoProcessQueue /\ timers[z] = 0 => Busy(State, z)

\* The limit of a zone with those files
Kept(z, fs, acc, st, fl) ==
  options[z].maxFiles # 0 =>
    /\ ~options[z].asynchronous =>
         Cardinality(AcceptedIn(fs, acc)) <= options[z].maxFiles
    /\ fl => MaxReached(z, fs, acc)
    /\ MaxReached(z, fs, acc) =>
         fl \/ \E f \in Files : acc[f] = "yes" /\ st[f] = "canceled"

Limited == \A z \in Zones : Kept(z, files[z], accepted, status, full[z])

DInv ==
  /\ TypeOK /\ Sound(State, home, pending, accepted) /\ Untouched /\ Unheard
  /\ Quiet /\ Filled /\ Limited

LEMMA StateInStates ==
  ASSUME TypeOK
  PROVE  /\ State \in States /\ State.files = files /\ State.status = status
         /\ State.xhr = xhr /\ State.sent = sent /\ State.completes = completes
         /\ State.due = due /\ State.told = told
  BY DEF TypeOK, State, States

\* After Become(t) the state is t.
LEMMA BecomeIs ==
  ASSUME NEW t \in States, Become(t)
  PROVE  /\ State' = t /\ files' = t.files /\ status' = t.status /\ xhr' = t.xhr
         /\ sent' = t.sent
         /\ files' \in [Zones -> SUBSET Files]
         /\ status' \in [Files -> {"none"} \cup Waiting \cup Final]
         /\ xhr' \in [Files -> SUBSET Files] /\ sent' \subseteq SUBSET Files
         /\ completes' \in [Files -> Nat] /\ due' \in [Zones -> BOOLEAN]
         /\ told' \in [Zones -> BOOLEAN]
<1>1. t = [files |-> t.files, status |-> t.status, xhr |-> t.xhr,
           sent |-> t.sent, completes |-> t.completes, due |-> t.due,
           told |-> t.told]
  BY DEF States
<1> QED
  BY <1>1, StateIs DEF Become, State

\* The options stay what they are.
LEMMA SoundNext ==
  ASSUME options' = options, Sound(State', home', pending', accepted')
  PROVE  Sound(State, home, pending, accepted)'
  BY DEF Sound, Fit, Bounded, Up

LEMMA BusyNext ==
  ASSUME options' = options, NEW z, Busy(State', z)
  PROVE  Busy(State, z)'
  BY DEF Busy, Queued, Up

-----------------------------------------------------------------------------
(* The limit                                                               *)

LEMMA LimitIs ==
  ASSUME NEW fs \in SUBSET Files, NEW acc
  PROVE  /\ AcceptedIn(fs, acc) \in SUBSET Files
         /\ Cardinality(AcceptedIn(fs, acc)) \in Nat
         /\ \A gs \in SUBSET AcceptedIn(fs, acc) :
              Cardinality(gs) <= Cardinality(AcceptedIn(fs, acc))
              /\ Cardinality(gs) \in Nat
<1>1. AcceptedIn(fs, acc) \in SUBSET Files
  BY DEF AcceptedIn
<1> QED
  BY <1>1, SubsetIs

\* What is accepted in the list, the class and the canceled files stay.
LEMMA KeptSame ==
  ASSUME NEW z \in Zones, NEW fs, NEW gs, NEW acc, NEW bcc, NEW st, NEW tt,
         NEW fl, Kept(z, fs, acc, st, fl), AcceptedIn(fs, acc) = AcceptedIn(gs, bcc),
         \A f \in Files : acc[f] = "yes" /\ st[f] = "canceled" =>
                          bcc[f] = "yes" /\ tt[f] = "canceled"
  PROVE  Kept(z, gs, bcc, tt, fl)
  BY DEF Kept, MaxReached

\* The class is looked at.
LEMMA KeptLooked ==
  ASSUME NEW z \in Zones, NEW gs, NEW acc, NEW tt,
         options[z].maxFiles # 0 /\ ~options[z].asynchronous =>
           Cardinality(AcceptedIn(gs, acc)) <= options[z].maxFiles
  PROVE  Kept(z, gs, acc, tt, MaxReached(z, gs, acc))
  BY DEF Kept

LEMMA KeptNext ==
  ASSUME options' = options, NEW z \in Zones,
         Kept(z, files'[z], accepted', status', full'[z])
  PROVE  Kept(z, files[z], accepted, status, full[z])'
  BY DEF Kept, MaxReached

LEMMA MaxFilesIs ==
  ASSUME options \in Layouts, NEW z \in Zones
  PROVE  options[z].maxFiles \in Nat
  BY DropzoneAssumption

LEMMA LimitedIs == Limited <=> MaxFilesKept
  BY DEF Limited, MaxFilesKept, Kept

-----------------------------------------------------------------------------
(* The steps                                                               *)

\* Handlers that start, cancel or remove
CalmStepOf(z, t) ==
  /\ z \in Zones /\ Become(t) /\ Calm(State, t, z, home)
  /\ Sound(t, home, pending, accepted)
  /\ UNCHANGED <<options, home, accepted, pending, thumbs>>
  /\ \/ UNCHANGED timers
     \/ timers' = [timers EXCEPT ![z] = @ - 1] /\ timers[z] > 0 /\ Busy(t, z)
  /\ \/ full' = full /\ t.files = files
     \/ full' = [full EXCEPT ![z] = MaxReached(z, t.files[z], accepted)]
  /\ \/ UNCHANGED mode
     \/ \E m \in {"enabled", "disabled", "destroyed"} :
          mode' = [mode EXCEPT ![z] = m]
  /\ \/ UNCHANGED stopped
     \/ /\ stopped' = stopped \cup files[z]
        /\ \A f \in files[z] : t.status[f] \in Final

\* What DInv says of what a state has
LEMMA Facts ==
  ASSUME DInv
  PROVE  /\ State \in States /\ State.files = files /\ State.status = status
         /\ State.xhr = xhr /\ State.sent = sent /\ State.completes = completes
         /\ State.due = due /\ State.told = told
         /\ Listed(State, home) /\ Unsent(State, pending) /\ Together(State)
         /\ Carried(State, home) /\ Noted(State, accepted) /\ Bounded(State)
         /\ options \in Layouts
  BY StateInStates DEF DInv, Sound, Fit

\* What a calm step keeps
LEMMA CalmStep ==
  ASSUME DInv, NEW z, NEW t, CalmStepOf(z, t)
  PROVE  DInv' /\ \A f \in Files : status[f] \in Final => status'[f] = status[f]
<1>0. /\ z \in Zones /\ Become(t) /\ Calm(State, t, z, home)
      /\ Sound(t, home, pending, accepted)
      /\ options' = options /\ home' = home /\ accepted' = accepted
      /\ pending' = pending /\ thumbs' = thumbs /\ t \in States
  BY DEF CalmStepOf, Sound, Fit
<1>1. /\ State' = t /\ files' = t.files /\ status' = t.status
      /\ files' \in [Zones -> SUBSET Files]
      /\ status' \in [Files -> {"none"} \cup Waiting \cup Final]
      /\ xhr' \in [Files -> SUBSET Files] /\ sent' \subseteq SUBSET Files
      /\ completes' \in [Files -> Nat] /\ due' \in [Zones -> BOOLEAN]
      /\ told' \in [Zones -> BOOLEAN]
  BY <1>0, BecomeIs
<1>2. TypeOK /\ State \in States /\ State.files = files /\ State.status = status
      /\ Listed(State, home)
  BY Facts DEF DInv
<1>3. /\ \A f \in Files : status[f] \notin Waiting \/ home[f] # z =>
           t.status[f] = status[f]
      /\ t.files[z] \subseteq files[z]
      /\ \A y \in Zones \ {z} : t.files[y] = files[y]
      /\ options[z].autoProcessQueue /\ Busy(State, z) => Busy(t, z)
  BY <1>0, <1>2 DEF Calm
<1>4. ASSUME NEW y \in Zones \ {z} PROVE \A f \in files[y] : t.status[f] = status[f]
  BY <1>2, <1>3, StateIs DEF Listed
<1>5. TypeOK'
  <2>1. timers' \in [Zones -> Nat]
    <3>1. \/ timers' = timers
          \/ timers' = [timers EXCEPT ![z] = @ - 1] /\ timers[z] > 0
      BY DEF CalmStepOf
    <3>2. timers \in [Zones -> Nat]
      BY <1>2 DEF TypeOK
    <3> QED
      BY <1>0, <3>1, <3>2
  <2>2. full' \in [Zones -> BOOLEAN]
    <3>1. MaxReached(z, t.files[z], accepted) \in BOOLEAN
      BY DEF MaxReached
    <3>2. \/ full' = full
          \/ full' = [full EXCEPT ![z] = MaxReached(z, t.files[z], accepted)]
      BY DEF CalmStepOf
    <3> QED
      BY <1>2, <3>1, <3>2 DEF TypeOK
  <2>3. mode' \in [Zones -> {"enabled", "disabled", "destroyed", "fallback"}]
    <3>1. \/ mode' = mode
          \/ \E m \in {"enabled", "disabled", "destroyed"} :
               mode' = [mode EXCEPT ![z] = m]
      BY DEF CalmStepOf
    <3> QED
      BY <1>2, <3>1 DEF TypeOK
  <2>4. stopped' \subseteq Files
    <3>1. stopped \subseteq Files /\ files[z] \subseteq Files
      BY <1>0, <1>2, StateIs DEF TypeOK
    <3> QED
      BY <3>1 DEF CalmStepOf
  <2> QED
    BY <1>0, <1>1, <1>2, <2>1, <2>2, <2>3, <2>4 DEF TypeOK, thumbs
<1>6. Sound(State, home, pending, accepted)'
  <2>1. Sound(State', home', pending', accepted')
    BY <1>0, <1>1
  <2> QED
    BY <1>0, <2>1, SoundNext
<1>7. Untouched'
  <2>1. \A f \in Files : home[f] = "none" => home[f] # z
    BY <1>0, DropzoneAssumption
  <2> QED
    BY <1>0, <1>1, <1>3, <2>1 DEF DInv, Untouched
<1>8. Unheard'
  BY <1>0 DEF DInv, Unheard
<1>9. Quiet'
  <2> SUFFICES ASSUME NEW f \in stopped' PROVE t.status[f] \in Final
    BY <1>1 DEF Quiet
  <2>1. CASE f \in stopped
    <3>1. f \in Files /\ status[f] \in Final
      BY <1>2, <2>1 DEF DInv, Quiet, TypeOK
    <3> QED
      BY <1>3, <3>1 DEF Waiting, Final
  <2>2. CASE f \notin stopped
    BY <2>2 DEF CalmStepOf
  <2> QED
    BY <2>1, <2>2
<1>10. Filled'
  <2> SUFFICES ASSUME NEW y \in Zones, options[y].autoProcessQueue, timers'[y] = 0
               PROVE  Busy(State', y)
    BY <1>0, BusyNext DEF Filled
  <2>1. timers[y] = 0 => Busy(State, y)
    BY DEF DInv, Filled
  <2>2. timers \in [Zones -> Nat]
    BY <1>2 DEF TypeOK
  <2>3. CASE y = z
    BY <1>0, <1>1, <1>3, <2>1, <2>2, <2>3 DEF CalmStepOf
  <2>4. CASE y # z
    <3>1. timers'[y] = timers[y]
      BY <1>0, <2>2, <2>4 DEF CalmStepOf
    <3>2. /\ t.files[y] = State.files[y]
          /\ \A f \in State.files[y] : t.status[f] = State.status[f]
      BY <1>2, <1>3, <1>4, <2>4
    <3> QED
      BY <1>1, <1>2, <2>1, <3>1, <3>2, BusyKept
  <2> QED
    BY <2>3, <2>4
<1>11. Limited'
  <2> SUFFICES ASSUME NEW y \in Zones
               PROVE  Kept(y, t.files[y], accepted, t.status, full'[y])
    BY <1>0, <1>1, KeptNext DEF Limited
  <2>1. Kept(y, files[y], accepted, status, full[y])
    BY DEF DInv, Limited
  <2>2. \A f \in Files : accepted[f] = "yes" /\ status[f] = "canceled" =>
          accepted[f] = "yes" /\ t.status[f] = "canceled"
    BY <1>3 DEF Waiting
  <2>3. full \in [Zones -> BOOLEAN]
    BY <1>2 DEF TypeOK
  <2>4. CASE full' = full /\ t.files = files
    BY <2>1, <2>2, <2>4, KeptSame
  <2>5. CASE full' = [full EXCEPT ![z] = MaxReached(z, t.files[z], accepted)]
    <3>1. CASE y # z
      <4>1. full'[y] = full[y] /\ t.files[y] = files[y]
        BY <1>3, <2>3, <2>5, <3>1
      <4> QED
        BY <2>1, <2>2, <4>1, KeptSame
    <3>2. CASE y = z
      <4>1. full'[z] = MaxReached(z, t.files[z], accepted)
        BY <1>0, <2>3, <2>5
      <4>2. /\ files[z] \in SUBSET Files /\ t.files[z] \in SUBSET Files
            /\ AcceptedIn(t.files[z], accepted)
                 \subseteq AcceptedIn(files[z], accepted)
        BY <1>0, <1>1, <1>2, <1>3, StateIs DEF AcceptedIn
      <4>3. /\ Cardinality(AcceptedIn(t.files[z], accepted))
                 <= Cardinality(AcceptedIn(files[z], accepted))
            /\ Cardinality(AcceptedIn(t.files[z], accepted)) \in Nat
            /\ Cardinality(AcceptedIn(files[z], accepted)) \in Nat
        BY <4>2, LimitIs
      <4>4. options[z].maxFiles \in Nat
        BY <1>0, Facts, MaxFilesIs
      <4>5. options[z].maxFiles # 0 /\ ~options[z].asynchronous =>
              Cardinality(AcceptedIn(t.files[z], accepted)) <= options[z].maxFiles
        BY <2>1, <3>2, <4>3, <4>4 DEF Kept
      <4> QED
        BY <1>0, <3>2, <4>1, <4>5, KeptLooked
    <3> QED
      BY <3>1, <3>2
  <2> QED
    BY <2>4, <2>5 DEF CalmStepOf
<1>12. \A f \in Files : status[f] \in Final => status'[f] = status[f]
  BY <1>1, <1>3 DEF Waiting, Final
<1> QED
  BY <1>5, <1>6, <1>7, <1>8, <1>9, <1>10, <1>11, <1>12 DEF DInv

\* The steps that only start, cancel or remove: no file that is final changes.
CalmActions(z) ==
  \/ ProcessTimer(z) \/ CallProcessQueue(z)
  \/ \E c \in BOOLEAN : RemoveAll(z, c)
  \/ Disable(z) \/ Destroy(z)
  \/ \E f \in Files : home[f] = z /\ (RemoveLink(f) \/ Cancel(f))

\* The actions that are calm
LEMMA CalmActionsAre ==
  ASSUME DInv, NEW z \in Zones, CalmActions(z)
  PROVE  \E t : CalmStepOf(z, t)
<1>0. Sound(State, home, pending, accepted) /\ State.files = files /\ TypeOK
  BY Facts DEF DInv
<1>1. CASE ProcessTimer(z)
  <2> DEFINE t == ProcessQueue(State, z)
  <2>1. /\ Sound(t, home, pending, accepted) /\ Calm(State, t, z, home)
        /\ t.files = files /\ Busy(t, z)
    BY <1>0, QueueFits
  <2> HIDE DEF t
  <2>2. CalmStepOf(z, t)
    BY <1>1, <2>1 DEF ProcessTimer, CalmStepOf, rest, thumbs, t
  <2> QED
    BY <2>2
<1>2. CASE CallProcessQueue(z)
  <2> DEFINE t == ProcessQueue(State, z)
  <2>1. /\ Sound(t, home, pending, accepted) /\ Calm(State, t, z, home)
        /\ t.files = files
    BY <1>0, QueueFits
  <2> HIDE DEF t
  <2>2. CalmStepOf(z, t)
    BY <1>2, <2>1 DEF CallProcessQueue, CalmStepOf, rest, thumbs, t
  <2> QED
    BY <2>2
<1>3. ASSUME NEW c \in BOOLEAN, RemoveAll(z, c) PROVE \E t : CalmStepOf(z, t)
  <2> DEFINE t == RemoveAllFiles(State, z, c)
  <2>1. Sound(t, home, pending, accepted) /\ Calm(State, t, z, home)
    BY <1>0, RemoveAllSound
  <2> HIDE DEF t
  <2>2. CalmStepOf(z, t)
    BY <1>3, <2>1 DEF RemoveAll, Removed, CalmStepOf, rest, thumbs, t
  <2> QED
    BY <2>2
<1>4. ASSUME NEW f \in Files, home[f] = z, RemoveLink(f)
      PROVE  \E t : CalmStepOf(z, t)
  <2> DEFINE t == RemoveFile(State, z, f)
  <2>1. Sound(t, home, pending, accepted) /\ Calm(State, t, z, home)
    BY <1>0, <1>4, RemoveSound
  <2> HIDE DEF t
  <2>2. CalmStepOf(z, t)
    BY <1>4, <2>1 DEF RemoveLink, Removed, CalmStepOf, rest, thumbs, t
  <2> QED
    BY <2>2
<1>5. ASSUME NEW f \in Files, home[f] = z, Cancel(f)
      PROVE  \E t : CalmStepOf(z, t)
  <2> DEFINE t == CancelUpload(State, z, f)
  <2>1. Sound(t, home, pending, accepted) /\ Calm(State, t, z, home)
        /\ t.files = files
    BY <1>0, <1>5, CancelSound
  <2> HIDE DEF t
  <2>2. CalmStepOf(z, t)
    BY <1>5, <2>1 DEF Cancel, CalmStepOf, rest, thumbs, t
  <2> QED
    BY <2>2
<1>6. CASE Disable(z)
  <2> DEFINE t == CancelAll(State, z)
  <2>1. /\ Sound(t, home, pending, accepted) /\ Calm(State, t, z, home)
        /\ t.files = files /\ FilesWithStatus(t, z, Waiting) = {}
    BY <1>0, CancelAllSound
  <2> HIDE DEF t
  <2>2. \A f \in files[z] : t.status[f] \in Final
    BY <2>1, NothingWaits
  <2>3. CalmStepOf(z, t)
    BY <1>6, <2>1, <2>2 DEF Disable, CalmStepOf, rest, thumbs, t
  <2> QED
    BY <2>3
<1>7. CASE Destroy(z)
  <2> DEFINE u == CancelAll(State, z)
             t == RemoveAllFiles(u, z, TRUE)
  <2>1. /\ Sound(u, home, pending, accepted) /\ Calm(State, u, z, home)
        /\ u.files = files /\ FilesWithStatus(u, z, Waiting) = {}
    BY <1>0, CancelAllSound
  <2> HIDE DEF u
  <2>2. Sound(t, home, pending, accepted) /\ Calm(u, t, z, home)
    BY <2>1, RemoveAllSound
  <2> HIDE DEF t
  <2>3. Calm(State, t, z, home)
    BY <2>1, <2>2, CalmTwice
  <2>4. \A f \in files[z] : t.status[f] \in Final
    <3>1. \A f \in files[z] : f \in Files /\ u.status[f] \in Final
      BY <2>1, StateIs, NothingWaits DEF Sound, Fit
    <3> QED
      BY <2>2, <3>1 DEF Calm, Waiting, Final
  <2>5. CalmStepOf(z, t)
    BY <1>7, <2>2, <2>3, <2>4 DEF Destroy, Removed, CalmStepOf, rest, thumbs, t, u
  <2> QED
    BY <2>5
<1> QED
  BY <1>1, <1>2, <1>3, <1>4, <1>5, <1>6, <1>7 DEF CalmActions

\* The timeout of queuecomplete changes no file.
LEMMA QueueCompleteCalm ==
  ASSUME DInv, NEW z \in Zones, QueueComplete(z)
  PROVE  \E t : CalmStepOf(z, t)
<1> DEFINE t == [State EXCEPT !.due = [due EXCEPT ![z] = FALSE],
                              !.told = [told EXCEPT ![z] = TRUE]]
<1>1. /\ State \in States /\ State.files = files /\ State.status = status
      /\ State.xhr = xhr /\ State.sent = sent /\ State.completes = completes
      /\ due \in [Zones -> BOOLEAN] /\ told \in [Zones -> BOOLEAN]
      /\ Sound(State, home, pending, accepted)
  BY Facts, StateIs DEF DInv
<1>2. /\ t \in States /\ t.files = files /\ t.status = status /\ t.xhr = xhr
      /\ t.sent = sent /\ t.completes = completes
      /\ t.due = [due EXCEPT ![z] = FALSE] /\ t.told = [told EXCEPT ![z] = TRUE]
  BY <1>1 DEF States
<1> HIDE DEF t
<1>3. \A y \in Zones : Up(t, y) = Up(State, y) /\ Queued(t, y) = Queued(State, y)
  BY <1>1, <1>2 DEF Up, Queued, FilesWithStatus
<1>4. Sound(t, home, pending, accepted)
  BY <1>1, <1>2, <1>3 DEF Sound, Fit, Listed, Unsent, Together, Carried, Noted,
     Bounded
<1>5. Calm(State, t, z, home)
  BY <1>1, <1>2, <1>3 DEF Calm, Busy
<1>6. CalmStepOf(z, t)
  BY <1>2, <1>4, <1>5 DEF CalmStepOf, QueueComplete, Become, rest, thumbs
<1> QED
  BY <1>6

\* enable changes no file.
LEMMA EnableCalm ==
  ASSUME DInv, NEW z \in Zones, Enable(z)
  PROVE  \E t : CalmStepOf(z, t)
<1>1. Become(State)
  BY Facts DEF Become, Enable, lists
<1>2. CalmStepOf(z, State)
  BY <1>1, Facts, CalmSame DEF CalmStepOf, Enable, DInv, thumbs
<1> QED
  BY <1>2

\* What reports is uploaded, or canceled, as a whole.
LEMMA ReportCalm ==
  ASSUME DInv, NEW r \in sent, NEW ok \in BOOLEAN, Report(r, ok)
  PROVE  \E z, t : CalmStepOf(z, t)
<1> DEFINE z == home[Leader(r)]
           s == [State EXCEPT !.sent = @ \ {r}]
<1>0. /\ State \in States /\ State.files = files /\ State.status = status
      /\ State.xhr = xhr /\ State.sent = sent /\ State.completes = completes
      /\ Listed(State, home) /\ Unsent(State, pending) /\ Together(State)
      /\ Carried(State, home) /\ Noted(State, accepted) /\ Bounded(State)
      /\ options \in Layouts
  BY Facts
<1>1. /\ s \in States /\ s.files = files /\ s.status = status /\ s.xhr = xhr
      /\ s.sent = sent \ {r} /\ s.completes = completes
  BY <1>0 DEF States
<1>t. /\ home \in [Files -> Zones \cup {"none"}] /\ pending \subseteq Files
      /\ sent \subseteq SUBSET Files
  BY DEF DInv, TypeOK
<1> HIDE DEF s
<1>2. r # {} /\ r \subseteq Files /\ \A f \in r : xhr[f] = r
  BY <1>0, StateIs DEF Together
<1>3. Leader(r) \in r
  <2>1. \E m \in r : \A n \in r : m <= n
    BY <1>2, FilesAre, Least
  <2> QED
    BY <2>1 DEF Leader
<1>4. z \in Zones
  <2>1. status[Leader(r)] # "none"
    BY <1>0, <1>3 DEF Together
  <2> QED
    BY <1>2, <1>3, <1>t, <2>1 DEF DInv, Untouched
<1>5. /\ Listed(s, home) /\ Unsent(s, pending) /\ Together(s)
      /\ Noted(s, accepted)
  BY <1>0, <1>1 DEF Listed, Unsent, Together, Noted
<1>6. \A y \in Zones : Up(s, y) = Up(State, y) /\ Queued(s, y) = Queued(State, y)
  BY <1>0, <1>1 DEF Up, Queued, FilesWithStatus
<1>7. Bounded(s)
  BY <1>0, <1>6 DEF Bounded
<1>8. \A f \in Files \ r : status[f] = "uploading" =>
        xhr[f] \in sent \ {r} /\ f \in xhr[f] /\ xhr[f] \subseteq files[home[f]]
  BY <1>0 DEF Carried
<1>9. CASE status[Leader(r)] = "canceled"
  <2>1. Carried(s, home)
    <3>1. \A f \in r : status[f] = "canceled"
      BY <1>0, <1>3, <1>9 DEF Together
    <3> QED
      BY <1>1, <1>8, <3>1 DEF Carried
  <2>2. Sound(s, home, pending, accepted)
    BY <1>0, <1>1, <1>5, <1>7, <1>t, <2>1 DEF Sound, Fit
  <2>3. Calm(State, s, z, home)
    BY <1>0, <1>1, <1>4, <1>6 DEF Calm, Busy
  <2>4. CalmStepOf(z, s)
    BY <1>1, <1>4, <1>9, <2>2, <2>3 DEF CalmStepOf, Report, rest, thumbs, s
  <2> QED
    BY <2>4
<1>10. CASE status[Leader(r)] # "canceled"
  <2>1. \A f \in r : status[f] = "uploading" /\ home[f] = z /\ completes[f] = 0
                     /\ accepted[f] = "yes"
    <3>1. \A f \in r : status[f] = "uploading"
      BY <1>0, <1>3, <1>10 DEF Together
    <3>2. r \subseteq files[z]
      BY <1>0, <1>2, <1>3, <3>1 DEF Carried
    <3>3. \A f \in r : home[f] = z
      BY <1>0, <1>4, <3>2 DEF Listed
    <3>4. \A f \in r : accepted[f] = "yes"
      BY <1>0, <1>2 DEF Noted
    <3>5. \A f \in r : completes[f] = 0
      BY <1>0, <1>2, <3>1, StateIs DEF Noted, Final
    <3> QED
      BY <3>1, <3>3, <3>4, <3>5
  <2>2. \A q \in sent \ {r} : q \cap r = {}
    BY <1>0, <1>2 DEF Together
  <2>3. r \cap pending = {}
    BY <1>0, <1>2 DEF Unsent
  <2>4. Cardinality(r) \in Nat \ {0}
    BY <1>2, SubsetIs
  <2> DEFINE Says(st, n) == \/ st = "success" /\ n = 1
                            \/ st = "error" /\ n = Cardinality(r)
  <2>5. ASSUME NEW st, NEW n, Says(st, n)
        PROVE  Ends(s, home, pending, accepted, r, st, n)
    <3>1. st \in Final /\ n \in Nat \ {0} /\ (st # "error" => n = 1)
      BY <2>4, <2>5 DEF Final
    <3>2. \A f \in r : s.status[f] \in Waiting
      BY <1>1, <2>1 DEF Waiting
    <3>3. st = "error" => \A f \in r : s.completes[f] + n <=
            IF accepted[f] = "no" THEN 2 ELSE Cardinality(s.xhr[f])
      BY <1>1, <1>2, <2>1, <2>4, <2>5
    <3>4. \A q \in s.sent : q \cap r = {} \/ (q \subseteq r /\ st = "canceled")
      BY <1>1, <2>2
    <3> QED
      BY <1>0, <1>1, <1>2, <1>5, <1>7, <1>8, <1>t, <2>3, <3>1, <3>2, <3>3, <3>4
         DEF Ends
  <2> DEFINE Gets(st, n) == Become(ThenProcessQueue(
                              Complete(SetStatus(s, r, st), z, r, n), z))
  <2>6. PICK st, n : Says(st, n) /\ Gets(st, n)
    <3>1. \/ Become(Finished(s, z, r))
          \/ Become(ErrorProcessing(s, z, r, Cardinality(r)))
      BY <1>10 DEF Report, s
    <3> HIDE DEF z
    <3>2. \/ Gets("success", 1) \/ Gets("error", Cardinality(r))
      BY <3>1, Zenon DEF Finished, ErrorProcessing
    <3>3. Says("success", 1) /\ Says("error", Cardinality(r))
      OBVIOUS
    <3> HIDE DEF Says, Gets
    <3> QED
      BY <3>2, <3>3
  <2> DEFINE t == ThenProcessQueue(Complete(SetStatus(s, r, st), z, r, n), z)
  <2>7. /\ Ends(s, home, pending, accepted, r, st, n)
        /\ r \subseteq {f \in Files : home[f] = z}
    BY <1>2, <2>1, <2>5, <2>6
  <2>8. /\ Sound(t, home, pending, accepted) /\ t.files = s.files
        /\ \A f \in Files : s.status[f] \notin Waiting /\ f \notin r =>
             t.status[f] = s.status[f]
        /\ \A f \in Files : home[f] # z => t.status[f] = s.status[f]
        /\ options[z].autoProcessQueue => Busy(t, z)
    <3> HIDE DEF z, t
    <3> QED
      BY <1>4, <2>7, FinishSound DEF t, Finishes
  <2> HIDE DEF t
  <2>9. Calm(State, t, z, home)
    BY <1>0, <1>1, <1>2, <2>1, <2>8 DEF Calm, Waiting
  <2>10. CalmStepOf(z, t)
    BY <1>1, <1>4, <2>6, <2>8, <2>9 DEF CalmStepOf, Report, rest, thumbs, t
  <2> QED
    BY <2>10
<1> QED
  BY <1>9, <1>10

\* Handlers that add a file, accept it, reject it or enqueue it
FileStepOf(z, f, t) ==
  /\ z \in Zones /\ f \in Files /\ Become(t)
  /\ Sound(t, home', pending', accepted') /\ UNCHANGED options
  /\ home' \in [Files -> Zones \cup {"none"}] /\ home'[f] = z
  /\ home[f] \in {z, "none"} /\ \A g \in Files \ {f} : home'[g] = home[g]
  /\ pending' \subseteq Files /\ pending' \ {f} \subseteq pending
  /\ f \in pending' => accepted'[f] = "unset" /\ options[z].asynchronous
  /\ accepted' \in [Files -> {"unset", "yes", "no"}]
  /\ \A g \in Files \ {f} : accepted'[g] = accepted[g]
  /\ \A g \in Files \ {f} : status[g] \notin Waiting \/ home[g] # z =>
       t.status[g] = status[g]
  /\ status[f] \in Final /\ t.status[f] # status[f] =>
       /\ status[f] = "canceled" /\ f \in pending /\ accepted'[f] = "no"
       /\ t.status[f] = "error"
  /\ ~(accepted[f] = "yes" /\ status[f] = "canceled")
  /\ t.files[z] \subseteq files[z] \cup {f}
  /\ \A y \in Zones \ {z} : t.files[y] = files[y]
  /\ UNCHANGED <<mode, stopped>>
  /\ timers' \in [Zones -> Nat] /\ \A y \in Zones \ {z} : timers'[y] = timers[y]
  /\ options[z].autoProcessQueue /\ timers'[z] = 0 => Busy(t, z)
  /\ full' \in [Zones -> BOOLEAN] /\ \A y \in Zones \ {z} : full'[y] = full[y]
  /\ Kept(z, t.files[z], accepted', t.status, full'[z])
  /\ thumbQueue' \in Seq(Images) /\ thumbTimers' \in [Zones -> Nat]
  /\ UNCHANGED <<reading, failed>>

\* What a step about one file keeps
LEMMA FileStep ==
  ASSUME DInv, NEW z, NEW f, NEW t, FileStepOf(z, f, t)
  PROVE  /\ DInv'
         /\ \A g \in Files : status[g] \in Final /\ status'[g] # status[g] =>
              status[g] = "canceled" /\ g \in pending /\ accepted'[g] = "no"
<1>0. /\ z \in Zones /\ f \in Files /\ Become(t) /\ t \in States
      /\ Sound(t, home', pending', accepted') /\ options' = options
      /\ home' \in [Files -> Zones \cup {"none"}] /\ home'[f] = z
      /\ home[f] \in {z, "none"} /\ \A g \in Files \ {f} : home'[g] = home[g]
  BY DEF FileStepOf, Sound, Fit
<1>1. /\ State' = t /\ files' = t.files /\ status' = t.status
      /\ files' \in [Zones -> SUBSET Files]
      /\ status' \in [Files -> {"none"} \cup Waiting \cup Final]
      /\ xhr' \in [Files -> SUBSET Files] /\ sent' \subseteq SUBSET Files
      /\ completes' \in [Files -> Nat] /\ due' \in [Zones -> BOOLEAN]
      /\ told' \in [Zones -> BOOLEAN]
  BY <1>0, BecomeIs
<1>2. TypeOK /\ State \in States /\ State.files = files /\ State.status = status
      /\ Listed(State, home)
  BY Facts DEF DInv
<1>3. /\ \A g \in Files \ {f} : status[g] \notin Waiting \/ home[g] # z =>
           t.status[g] = status[g]
      /\ t.files[z] \subseteq files[z] \cup {f}
      /\ \A y \in Zones \ {z} : t.files[y] = files[y]
  BY DEF FileStepOf
<1>4. ASSUME NEW y \in Zones \ {z}
      PROVE  /\ \A g \in files[y] : t.status[g] = status[g]
             /\ files[y] \subseteq Files \ {f}
  BY <1>0, <1>2, <1>3, StateIs, DropzoneAssumption DEF Listed
<1>5. TypeOK'
  BY <1>0, <1>1, <1>2 DEF TypeOK, FileStepOf
<1>6. Sound(State, home, pending, accepted)'
  BY <1>0, <1>1, SoundNext
<1>7. Untouched'
  <2> SUFFICES ASSUME NEW g \in Files, home'[g] = "none"
               PROVE  /\ status'[g] = "none" /\ g \notin pending'
                      /\ accepted'[g] = "unset"
    BY DEF Untouched
  <2>1. g # f /\ home[g] = "none" /\ home[g] # z
    BY <1>0, DropzoneAssumption
  <2>2. status[g] = "none" /\ g \notin pending /\ accepted[g] = "unset"
    BY <2>1 DEF DInv, Untouched
  <2> QED
    BY <1>1, <1>3, <2>1, <2>2 DEF FileStepOf
<1>8. Unheard'
  <2> SUFFICES ASSUME NEW g \in pending'
               PROVE  accepted'[g] = "unset" /\ options[home'[g]].asynchronous
    BY <1>0 DEF Unheard
  <2>1. CASE g = f
    BY <1>0, <2>1 DEF FileStepOf
  <2>2. CASE g # f
    <3>1. g \in pending /\ g \in Files
      BY <1>2, <2>2 DEF FileStepOf, TypeOK
    <3>2. accepted[g] = "unset" /\ options[home[g]].asynchronous
      BY <3>1 DEF DInv, Unheard
    <3> QED
      BY <1>0, <2>2, <3>1, <3>2 DEF FileStepOf
  <2> QED
    BY <2>1, <2>2
<1>9. Quiet'
  <2> SUFFICES ASSUME NEW g \in stopped PROVE t.status[g] \in Final
    BY <1>1 DEF Quiet, FileStepOf
  <2>1. g \in Files /\ status[g] \in Final
    BY <1>2 DEF DInv, Quiet, TypeOK
  <2>2. CASE g # f
    BY <1>3, <2>1, <2>2 DEF Waiting, Final
  <2>3. CASE g = f
    BY <2>1, <2>3 DEF FileStepOf, Final
  <2> QED
    BY <2>2, <2>3
<1>10. Filled'
  <2> SUFFICES ASSUME NEW y \in Zones, options[y].autoProcessQueue, timers'[y] = 0
               PROVE  Busy(State', y)
    BY <1>0, BusyNext DEF Filled
  <2>1. CASE y = z
    BY <1>1, <2>1 DEF FileStepOf
  <2>2. CASE y # z
    <3>1. timers'[y] = timers[y]
      BY <2>2 DEF FileStepOf
    <3>2. Busy(State, y)
      BY <3>1 DEF DInv, Filled
    <3>3. t.files[y] = State.files[y]
          /\ \A g \in State.files[y] : t.status[g] = State.status[g]
      BY <1>2, <1>3, <1>4, <2>2
    <3> QED
      BY <1>1, <1>2, <3>2, <3>3, BusyKept
  <2> QED
    BY <2>1, <2>2
<1>11. Limited'
  <2> SUFFICES ASSUME NEW y \in Zones
               PROVE  Kept(y, t.files[y], accepted', t.status, full'[y])
    BY <1>0, <1>1, KeptNext DEF Limited
  <2>1. CASE y = z
    BY <2>1 DEF FileStepOf
  <2>2. CASE y # z
    <3>1. /\ Kept(y, files[y], accepted, status, full[y]) /\ full'[y] = full[y]
          /\ t.files[y] = files[y]
      BY <1>3, <2>2 DEF DInv, Limited, FileStepOf
    <3>2. \A g \in files[y] : accepted'[g] = accepted[g]
      BY <1>4, <2>2 DEF FileStepOf
    <3>3. AcceptedIn(files[y], accepted) = AcceptedIn(files[y], accepted')
      BY <3>2 DEF AcceptedIn
    <3>4. \A g \in Files : accepted[g] = "yes" /\ status[g] = "canceled" =>
            accepted'[g] = "yes" /\ t.status[g] = "canceled"
      BY <1>3 DEF FileStepOf, Waiting
    <3> QED
      BY <3>1, <3>3, <3>4, KeptSame
  <2> QED
    BY <2>1, <2>2
<1>12. \A g \in Files : status[g] \in Final /\ status'[g] # status[g] =>
         status[g] = "canceled" /\ g \in pending /\ accepted'[g] = "no"
  <2> SUFFICES ASSUME NEW g \in Files, status[g] \in Final, status'[g] # status[g]
               PROVE  status[g] = "canceled" /\ g \in pending /\ accepted'[g] = "no"
    OBVIOUS
  <2>1. g = f
    BY <1>1, <1>3 DEF Waiting, Final
  <2> QED
    BY <1>1, <2>1 DEF FileStepOf
<1> QED
  BY <1>5, <1>6, <1>7, <1>8, <1>9, <1>10, <1>11, <1>12 DEF DInv

\* enqueueFile, called by a page
LEMMA EnqueueFileStep ==
  ASSUME DInv, NEW f \in Files, EnqueueFile(f)
  PROVE  \E z, t : FileStepOf(z, f, t)
<1> DEFINE z == home[f]
           t == SetStatus(State, {f}, "queued")
<1>0. /\ TypeOK /\ Sound(State, home, pending, accepted) /\ State \in States
      /\ State.files = files /\ State.status = status
  BY Facts DEF DInv
<1>1. /\ status[f] = "added" /\ accepted[f] = "yes" /\ f \in files[z] /\ Become(t)
      /\ UNCHANGED <<options, mode, home, accepted, pending, full, thumbs, stopped>>
      /\ timers' = [timers EXCEPT ![z] =
                      @ + IF options[z].autoProcessQueue THEN 1 ELSE 0]
  BY DEF EnqueueFile
<1>2. z \in Zones
  <2>1. home[f] \in Zones \cup {"none"} /\ (home[f] = "none" => status[f] = "none")
    BY <1>0 DEF TypeOK, DInv, Untouched
  <2> QED
    BY <1>1, <2>1
<1>3. f \notin pending
  BY <1>1 DEF DInv, Unheard
<1>4. /\ Sound(t, home, pending, accepted) /\ t.files = files
      /\ \A g \in Files : t.status[g] = IF g = f THEN "queued" ELSE status[g]
  BY <1>0, <1>1, <1>3, EnqueuedSound DEF Enqueues
<1> HIDE DEF z, t
<1>6. /\ timers \in [Zones -> Nat] /\ full \in [Zones -> BOOLEAN]
      /\ thumbQueue \in Seq(Images) /\ thumbTimers \in [Zones -> Nat]
      /\ home \in [Files -> Zones \cup {"none"}] /\ pending \subseteq Files
      /\ accepted \in [Files -> {"unset", "yes", "no"}]
  BY <1>0 DEF TypeOK
<1>7. /\ timers' \in [Zones -> Nat] /\ \A y \in Zones \ {z} : timers'[y] = timers[y]
      /\ options[z].autoProcessQueue => timers'[z] # 0
  BY <1>1, <1>2, <1>6
<1>8. Kept(z, t.files[z], accepted, t.status, full[z])
  <2>1. Kept(z, files[z], accepted, status, full[z])
    BY <1>2 DEF DInv, Limited
  <2>2. \A g \in Files : accepted[g] = "yes" /\ status[g] = "canceled" =>
          accepted[g] = "yes" /\ t.status[g] = "canceled"
    BY <1>1, <1>4
  <2> QED
    BY <1>2, <1>4, <2>1, <2>2, KeptSame
<1>9. home[f] = z
  BY DEF z
<1>10. FileStepOf(z, f, t)
  BY <1>1, <1>2, <1>3, <1>4, <1>6, <1>7, <1>8, <1>9 DEF FileStepOf, thumbs, Final
<1> QED
  BY <1>10

\* What done makes of a state s of the handler
DoneGives(s, t, h, p, z, f, e) ==
  /\ Become(t) /\ Sound(t, h, p \ {f}, accepted') /\ t.files = s.files
  /\ \A g \in Files \ {f} : s.status[g] \notin Waiting \/ h[g] # z =>
       t.status[g] = s.status[g]
  /\ IF e THEN t.status[f] = "error"
     ELSE \/ t.status[f] = s.status[f]
          \/ s.status[f] = "added" /\ t.status[f] = "queued"
  /\ accepted' = [accepted EXCEPT ![f] = IF e THEN "no" ELSE "yes"]
  /\ timers' \in [Zones -> Nat] /\ \A y \in Zones \ {z} : timers'[y] = timers[y]
  /\ options[z].autoProcessQueue /\ timers'[z] = 0 =>
       Busy(t, z) \/ (timers[z] = 0 /\ t = s)
  /\ \/ full' = [full EXCEPT ![z] = MaxReached(z, t.files[z], accepted')]
     \/ full' = full /\ ~e /\ t.status[f] = "canceled"

LEMMA DoneStep ==
  ASSUME NEW s, NEW h, NEW p, NEW z \in Zones, NEW f, NEW e \in BOOLEAN,
         Hearing(s, h, p, accepted, z, f), Done(s, z, f, e),
         timers \in [Zones -> Nat]
  PROVE  \E t : DoneGives(s, t, h, p, z, f, e)
<1> DEFINE b == [accepted EXCEPT ![f] = IF e THEN "no" ELSE "yes"]
           queues == options[z].autoQueue /\ ~e /\ s.status[f] = "added"
           throws == options[z].autoQueue /\ ~e /\ s.status[f] # "added"
           t == IF e THEN ErrorProcessing(s, z, {f}, 1)
                ELSE IF queues THEN SetStatus(s, {f}, "queued") ELSE s
           k == IF queues /\ options[z].autoProcessQueue THEN 1 ELSE 0
<1>0. /\ f \in Files /\ h[f] = z /\ s.status[f] \in {"added", "canceled"}
      /\ s \in States /\ accepted \in [Files -> {"unset", "yes", "no"}]
  BY DEF Hearing, Sound, Fit
<1>1. /\ accepted' = b /\ Become(t) /\ timers' = [timers EXCEPT ![z] = @ + k]
      /\ full' = IF throws THEN full
                 ELSE [full EXCEPT ![z] = MaxReached(z, files'[z], accepted')]
  BY DEF Done
<1>2. files' = t.files
  BY <1>1 DEF Become
<1>3. /\ timers' \in [Zones -> Nat] /\ \A y \in Zones \ {z} : timers'[y] = timers[y]
      /\ timers'[z] = 0 => timers[z] = 0 /\ k = 0
  <2>1. k \in Nat
    OBVIOUS
  <2> HIDE DEF k
  <2> QED
    BY <1>1, <2>1
<1>4. CASE e
  <2>1. b = [accepted EXCEPT ![f] = "no"]
    BY <1>4
  <2>2. Ends(s, h, p \ {f}, b, {f}, "error", 1)
    BY <2>1, RejectedSound
  <2>3. t = ThenProcessQueue(Complete(SetStatus(s, {f}, "error"), z, {f}, 1), z)
    BY <1>4 DEF ErrorProcessing
  <2> HIDE DEF b, t
  <2>4. /\ Sound(t, h, p \ {f}, b) /\ t.files = s.files
        /\ \A g \in {f} : t.status[g] = "error"
        /\ \A g \in Files : s.status[g] \notin Waiting /\ g \notin {f} =>
             t.status[g] = s.status[g]
        /\ \A g \in Files : h[g] # z => t.status[g] = s.status[g]
        /\ options[z].autoProcessQueue => Busy(t, z)
    <3> DEFINE fs == {f}
               q == p \ {f}
    <3>1. fs \subseteq {g \in Files : h[g] = z}
      BY <1>0
    <3>2. Ends(s, h, q, b, fs, "error", 1)
      BY <2>2
    <3>3. t = ThenProcessQueue(Complete(SetStatus(s, fs, "error"), z, fs, 1), z)
      BY <2>3
    <3>4. f \in fs
      OBVIOUS
    <3> HIDE DEF fs, q
    <3> DEFINE u == ThenProcessQueue(
                      Complete(SetStatus(s, fs, "error"), z, fs, 1), z)
    <3>5. /\ Sound(u, h, q, b) /\ u.files = s.files
          /\ \A g \in fs : u.status[g] = "error"
          /\ \A g \in Files : s.status[g] \notin Waiting /\ g \notin fs =>
               u.status[g] = s.status[g]
          /\ \A g \in Files : h[g] # z => u.status[g] = s.status[g]
          /\ options[z].autoProcessQueue => Busy(u, z)
      <4>1. Finishes(s, u, h, q, b, z, fs, "error")
        BY <3>1, <3>2, FinishSound
      <4> HIDE DEF u
      <4> QED
        BY <4>1 DEF Finishes
    <3>6. t = u
      BY <3>3
    <3> HIDE DEF u
    <3> QED
      BY <3>5, <3>6 DEF fs, q
  <2>5. DoneGives(s, t, h, p, z, f, e)
    <3>1. full' = [full EXCEPT ![z] = MaxReached(z, t.files[z], accepted')]
      BY <1>1, <1>2, <1>4
    <3>2. accepted' = [accepted EXCEPT ![f] = IF e THEN "no" ELSE "yes"]
      BY <1>1 DEF b
    <3> QED
      BY <1>1, <1>3, <1>4, <2>4, <3>1, <3>2 DEF DoneGives
  <2> QED
    BY <2>5
<1>5. CASE ~e
  <2>1. b = [accepted EXCEPT ![f] = "yes"] /\ b[f] = "yes"
    BY <1>0, <1>5
  <2>2. Sound(s, h, p \ {f}, b)
    BY <2>1, AcceptedSound
  <2>a. accepted' = [accepted EXCEPT ![f] = IF e THEN "no" ELSE "yes"]
    BY <1>1
  <2> HIDE DEF b
  <2>3. CASE queues
    <3>1. t = SetStatus(s, {f}, "queued") /\ ~throws
      BY <1>5, <2>3
    <3> HIDE DEF t
    <3>2. /\ Sound(t, h, p \ {f}, b) /\ t.files = s.files
          /\ \A g \in Files :
               t.status[g] = IF g = f THEN "queued" ELSE s.status[g]
      <4> DEFINE q == p \ {f}
      <4>1. Sound(s, h, q, b) /\ f \notin q /\ s.status[f] = "added"
        BY <2>2, <2>3
      <4> HIDE DEF q
      <4> DEFINE u == SetStatus(s, {f}, "queued")
      <4>2. /\ Sound(u, h, q, b) /\ u.files = s.files
            /\ \A g \in Files :
                 u.status[g] = IF g = f THEN "queued" ELSE s.status[g]
        <5>1. Enqueues(s, u, h, q, b, f)
          BY <1>0, <2>1, <4>1, EnqueuedSound
        <5> HIDE DEF u
        <5> QED
          BY <5>1 DEF Enqueues
      <4>3. t = u
        BY <3>1
      <4> HIDE DEF u
      <4> QED
        BY <4>2, <4>3 DEF q
    <3>3. options[z].autoProcessQueue => k = 1
      BY <2>3
    <3>4. options[z].autoProcessQueue => timers'[z] # 0
      BY <1>3, <3>3
    <3>5. full' = [full EXCEPT ![z] = MaxReached(z, t.files[z], accepted')]
      BY <1>1, <1>2, <3>1
    <3>6. DoneGives(s, t, h, p, z, f, e)
      BY <1>0, <1>1, <1>3, <1>5, <2>a, <2>3, <3>2, <3>4, <3>5 DEF DoneGives
    <3> QED
      BY <3>6
  <2>4. CASE ~queues
    <3>1. t = s
      BY <1>5, <2>4
    <3> HIDE DEF t
    <3>2. \/ full' = [full EXCEPT ![z] = MaxReached(z, t.files[z], accepted')]
          \/ full' = full /\ s.status[f] = "canceled"
      BY <1>0, <1>1, <1>2
    <3>3. DoneGives(s, s, h, p, z, f, e)
      BY <1>1, <1>3, <1>5, <2>a, <2>2, <3>1, <3>2 DEF DoneGives
    <3> QED
      BY <3>3
  <2> QED
    BY <2>3, <2>4
<1> QED
  BY <1>4, <1>5

\* done, called late
LEMMA CallDoneStep ==
  ASSUME DInv, NEW f \in Files, NEW e \in BOOLEAN, CallDone(f, e)
  PROVE  \E z, t : FileStepOf(z, f, t)
<1> DEFINE z == home[f]
<1>0. /\ TypeOK /\ Sound(State, home, pending, accepted) /\ State \in States
      /\ State.files = files /\ State.status = status /\ Unsent(State, pending)
  BY Facts DEF DInv
<1>1. /\ f \in pending /\ pending' = pending \ {f} /\ Done(State, z, f, e)
      /\ UNCHANGED <<options, mode, home, thumbs, stopped>>
  BY DEF CallDone
<1>2. /\ z \in Zones /\ accepted[f] = "unset" /\ options[z].asynchronous
      /\ status[f] \in {"added", "canceled"} /\ State.xhr[f] = {}
  BY <1>0, <1>1 DEF DInv, Untouched, Unheard, Unsent, TypeOK
<1>3. /\ timers \in [Zones -> Nat] /\ full \in [Zones -> BOOLEAN]
      /\ thumbQueue \in Seq(Images) /\ thumbTimers \in [Zones -> Nat]
      /\ home \in [Files -> Zones \cup {"none"}] /\ pending \subseteq Files
      /\ accepted \in [Files -> {"unset", "yes", "no"}]
  BY <1>0 DEF TypeOK
<1>4. Hearing(State, home, pending, accepted, z, f)
  BY <1>0, <1>2, <1>3 DEF Hearing
<1>z. home[f] = z
  OBVIOUS
<1> HIDE DEF z
<1>5. PICK t : DoneGives(State, t, home, pending, z, f, e)
  <2>1. z \in Zones /\ Done(State, z, f, e) /\ timers \in [Zones -> Nat]
    BY <1>1, <1>2, <1>3
  <2> QED
    BY <1>4, <2>1, DoneStep
<1>6. /\ Become(t) /\ Sound(t, home, pending \ {f}, accepted') /\ t.files = files
      /\ \A g \in Files \ {f} : status[g] \notin Waiting \/ home[g] # z =>
           t.status[g] = status[g]
      /\ IF e THEN t.status[f] = "error"
         ELSE \/ t.status[f] = status[f]
              \/ status[f] = "added" /\ t.status[f] = "queued"
      /\ accepted' = [accepted EXCEPT ![f] = IF e THEN "no" ELSE "yes"]
      /\ timers' \in [Zones -> Nat] /\ \A y \in Zones \ {z} : timers'[y] = timers[y]
      /\ options[z].autoProcessQueue /\ timers'[z] = 0 =>
           Busy(t, z) \/ (timers[z] = 0 /\ t = State)
      /\ \/ full' = [full EXCEPT ![z] = MaxReached(z, t.files[z], accepted')]
         \/ full' = full /\ ~e /\ t.status[f] = "canceled"
  BY <1>0, <1>5 DEF DoneGives
<1>7. /\ accepted' \in [Files -> {"unset", "yes", "no"}]
      /\ \A g \in Files \ {f} : accepted'[g] = accepted[g]
      /\ accepted'[f] = IF e THEN "no" ELSE "yes"
  BY <1>3, <1>6
<1>8. status[f] \in Final /\ t.status[f] # status[f] =>
        /\ status[f] = "canceled" /\ f \in pending /\ accepted'[f] = "no"
        /\ t.status[f] = "error"
  BY <1>1, <1>2, <1>6, <1>7 DEF Final
<1>10. options[z].autoProcessQueue /\ timers'[z] = 0 => Busy(t, z)
  BY <1>2, <1>6 DEF DInv, Filled
<1>11. full' \in [Zones -> BOOLEAN] /\ \A y \in Zones \ {z} : full'[y] = full[y]
  <2>1. MaxReached(z, t.files[z], accepted') \in BOOLEAN
    BY DEF MaxReached
  <2> QED
    BY <1>3, <1>6, <2>1
<1>12. Kept(z, t.files[z], accepted', t.status, full'[z])
  <2>1. CASE full' = [full EXCEPT ![z] = MaxReached(z, t.files[z], accepted')]
    <3>1. full'[z] = MaxReached(z, t.files[z], accepted')
      BY <1>2, <1>3, <2>1
    <3> QED
      BY <1>2, <3>1, KeptLooked
  <2>2. CASE full' = full /\ ~e /\ t.status[f] = "canceled"
    <3>1. AcceptedIn(files[z], accepted) \subseteq AcceptedIn(files[z], accepted')
      BY <1>2, <1>6, <1>7, <1>0, StateIs DEF AcceptedIn
    <3>2. files[z] \in SUBSET Files
      BY <1>0, <1>2, StateIs
    <3>3. /\ Cardinality(AcceptedIn(files[z], accepted))
               <= Cardinality(AcceptedIn(files[z], accepted'))
          /\ Cardinality(AcceptedIn(files[z], accepted)) \in Nat
          /\ Cardinality(AcceptedIn(files[z], accepted')) \in Nat
      BY <3>1, <3>2, LimitIs
    <3>4. options[z].maxFiles \in Nat
      BY <1>2, Facts, MaxFilesIs
    <3>5. MaxReached(z, files[z], accepted) => MaxReached(z, files[z], accepted')
      BY <3>3, <3>4 DEF MaxReached
    <3>6. Kept(z, files[z], accepted, status, full[z])
      BY <1>2 DEF DInv, Limited
    <3> QED
      BY <1>2, <1>6, <1>7, <2>2, <3>5, <3>6 DEF Kept
  <2> QED
    BY <1>6, <2>1, <2>2
<1>13. FileStepOf(z, f, t)
  <2>1. /\ Sound(t, home', pending', accepted') /\ home' = home /\ options' = options
        /\ thumbQueue' = thumbQueue /\ thumbTimers' = thumbTimers
        /\ reading' = reading /\ failed' = failed /\ mode' = mode
        /\ stopped' = stopped
    BY <1>1, <1>6 DEF thumbs
  <2> QED
    BY <1>1, <1>2, <1>3, <1>z, <1>6, <1>7, <1>8, <1>10, <1>11, <1>12, <2>1
       DEF FileStepOf
<1> QED
  BY <1>13

\* A file that came: q is what waits for done then.
Adds(s, h, q, z, f) ==
  /\ Sound(s, h, q, accepted)
  /\ s.files[z] = files[z] \cup {f} /\ s.xhr[f] = {}
  /\ \A y \in Zones \ {z} : s.files[y] = files[y]
  /\ \A g \in Files : s.status[g] = IF g = f THEN "added" ELSE status[g]
  /\ Busy(s, z) <=> Busy(State, z)

LEMMA AddedSound ==
  ASSUME DInv, NEW z \in Zones, NEW f \in Files, home[f] = "none",
         NEW q, q \subseteq pending \cup {f}
  PROVE  Adds([SetStatus(State, {f}, "added") EXCEPT
                 !.files[z] = files[z] \cup {f}],
              [home EXCEPT ![f] = z], q, z, f)
<1> DEFINE u == SetStatus(State, {f}, "added")
           s == [u EXCEPT !.files[z] = files[z] \cup {f}]
           h == [home EXCEPT ![f] = z]
<1>0. /\ State \in States /\ State.files = files /\ State.status = status
      /\ State.xhr = xhr /\ State.sent = sent /\ State.completes = completes
      /\ Listed(State, home) /\ Unsent(State, pending) /\ Together(State)
      /\ Carried(State, home) /\ Noted(State, accepted) /\ Bounded(State)
      /\ options \in Layouts
  BY Facts
<1>1. /\ status[f] = "none" /\ f \notin pending /\ accepted[f] = "unset"
  BY DEF DInv, Untouched
<1>2. xhr[f] = {} /\ completes[f] = 0
  BY <1>0, <1>1, StateIs DEF Unsent, Noted, Final
<1>3. /\ u \in States /\ u.files = files /\ u.xhr = xhr
      /\ u.sent = sent /\ u.completes = completes
      /\ \A g \in Files : u.status[g] = IF g = f THEN "added" ELSE status[g]
  <2>1. "added" \in {"none"} \cup Waiting \cup Final
    BY DEF Waiting
  <2> QED
    BY <1>0, <2>1, SetStatusIs
<1> HIDE DEF u
<1>4. /\ s \in States /\ s.files = [files EXCEPT ![z] = files[z] \cup {f}]
      /\ s.xhr = xhr /\ s.sent = sent /\ s.completes = completes
      /\ s.status = u.status
  <2> DEFINE g == [files EXCEPT ![z] = files[z] \cup {f}]
  <2>1. files \in [Zones -> SUBSET Files]
    BY <1>0, StateIs
  <2>2. g \in [Zones -> SUBSET Files]
    BY <2>1
  <2>3. s = [u EXCEPT !.files = g]
    BY <1>3
  <2> HIDE DEF g, s
  <2>4. /\ s \in States /\ s.files = g /\ s.xhr = u.xhr /\ s.sent = u.sent
        /\ s.completes = u.completes /\ s.status = u.status
    BY <1>3, <2>2, <2>3 DEF States
  <2> QED
    BY <1>3, <2>4 DEF g
<1> HIDE DEF s
<1>5. /\ s.files[z] = files[z] \cup {f}
      /\ \A y \in Zones \ {z} : s.files[y] = files[y]
      /\ \A y \in Zones : files[y] \subseteq s.files[y]
      /\ \A g \in Files : s.status[g] = IF g = f THEN "added" ELSE status[g]
  BY <1>0, <1>3, <1>4, StateIs
<1>6. /\ h \in [Files -> Zones \cup {"none"}] /\ h[f] = z
      /\ \A g \in Files \ {f} : h[g] = home[g]
  BY DEF DInv, TypeOK
<1> HIDE DEF h
<1>7. \A y \in Zones : f \notin files[y] /\ files[y] \subseteq Files
  BY <1>0, DropzoneAssumption, StateIs DEF Listed
<1>8. Listed(s, h)
  BY <1>0, <1>5, <1>6, <1>7 DEF Listed
<1>9. Unsent(s, q)
  <2>1. pending \subseteq Files
    BY DEF DInv, TypeOK
  <2>2. \A g \in q : xhr[g] = {} /\ s.status[g] \in {"added", "canceled"}
    <3> SUFFICES ASSUME NEW g \in q
                 PROVE  xhr[g] = {} /\ s.status[g] \in {"added", "canceled"}
      OBVIOUS
    <3>1. CASE g = f
      BY <1>2, <1>5, <3>1
    <3>2. CASE g # f
      <4>1. g \in pending /\ g \in Files
        BY <2>1, <3>2
      <4> QED
        BY <1>0, <1>5, <3>2, <4>1 DEF Unsent
    <3> QED
      BY <3>1, <3>2
  <2>3. \A g \in Files : s.status[g] \in {"none", "added", "queued"} => xhr[g] = {}
    BY <1>0, <1>2, <1>5 DEF Unsent
  <2>4. \A g \in Files : xhr[g] # {} => g \in xhr[g]
    BY <1>0 DEF Unsent
  <2> QED
    BY <1>4, <2>2, <2>3, <2>4 DEF Unsent
<1>10. Together(s)
  <2>1. \A r \in sent : f \notin r /\ r \subseteq Files
    BY <1>0, <1>2, StateIs DEF Together
  <2>2. \A r \in sent : \A g \in r : s.status[g] = status[g]
    BY <1>5, <2>1
  <2> QED
    BY <1>0, <1>4, <2>2 DEF Together
<1>11. Carried(s, h)
  <2> SUFFICES ASSUME NEW g \in Files, s.status[g] = "uploading"
               PROVE  xhr[g] \in sent /\ g \in xhr[g] /\ xhr[g] \subseteq s.files[h[g]]
    BY <1>4 DEF Carried
  <2>1. g # f /\ status[g] = "uploading" /\ h[g] = home[g]
    BY <1>5, <1>6
  <2>2. xhr[g] \in sent /\ g \in xhr[g] /\ xhr[g] \subseteq files[home[g]]
    BY <1>0, <2>1 DEF Carried
  <2>3. home[g] \in Zones
    BY <2>1 DEF DInv, Untouched, TypeOK
  <2> QED
    BY <1>5, <2>1, <2>2, <2>3
<1>12. Noted(s, accepted)
  BY <1>0, <1>1, <1>2, <1>4, <1>5 DEF Noted, Final
<1>13. \A y \in Zones : Up(s, y) = Up(State, y) /\ Queued(s, y) = Queued(State, y)
  BY <1>0, <1>5, <1>7 DEF Up, Queued, FilesWithStatus
<1>14. Bounded(s) /\ (Busy(s, z) <=> Busy(State, z))
  BY <1>0, <1>13 DEF Bounded, Busy
<1>15. q \subseteq Files
  BY DEF DInv, TypeOK
<1>16. Sound(s, h, q, accepted)
  BY <1>0, <1>4, <1>6, <1>8, <1>9, <1>10, <1>11, <1>12, <1>14, <1>15
     DEF Sound, Fit
<1> QED
  BY <1>2, <1>4, <1>5, <1>14, <1>16 DEF Adds, s, u, h

\* addFile, with a done that is called at once or later
LEMMA AddFileStep ==
  ASSUME DInv, NEW z \in Zones, NEW f \in Files, NEW valid \in BOOLEAN,
         AddFile(z, f, valid)
  PROVE  \E t : FileStepOf(z, f, t)
<1> DEFINE fs == files[z] \cup {f}
           s == [SetStatus(State, {f}, "added") EXCEPT !.files[z] = fs]
           ok == valid /\ Accepts(z, fs)
           h == [home EXCEPT ![f] = z]
<1>0. /\ TypeOK /\ options \in Layouts /\ files[z] \in SUBSET Files
      /\ State.files = files /\ State.status = status
      /\ Listed(State, home)
  BY Facts, StateIs DEF DInv
<1>1. /\ Hears(z) /\ home[f] = "none" /\ home' = h /\ options' = options
      /\ mode' = mode /\ stopped' = stopped /\ EnqueueThumbnail(z, f)
  BY DEF AddFile
<1>2. \/ /\ ok /\ options[z].asynchronous /\ pending' = pending \cup {f}
         /\ Become(s) /\ UNCHANGED <<accepted, timers, full>>
      \/ /\ ~(ok /\ options[z].asynchronous)
         /\ Done(s, z, f, ~ok) /\ pending' = pending
  BY DEF AddFile
<1>3. /\ timers \in [Zones -> Nat] /\ full \in [Zones -> BOOLEAN]
      /\ home \in [Files -> Zones \cup {"none"}] /\ pending \subseteq Files
      /\ accepted \in [Files -> {"unset", "yes", "no"}]
      /\ thumbQueue \in Seq(Images) /\ thumbTimers \in [Zones -> Nat]
  BY <1>0 DEF TypeOK
<1>4. status[f] = "none" /\ f \notin pending /\ accepted[f] = "unset"
  BY <1>1 DEF DInv, Untouched
<1>5. /\ thumbQueue' \in Seq(Images) /\ thumbTimers' \in [Zones -> Nat]
      /\ UNCHANGED <<reading, failed>>
  <2>1. CASE f \in Images /\ options[z].createImageThumbnails
    <3>1. /\ thumbQueue' = Append(thumbQueue, f)
          /\ thumbTimers' = [thumbTimers EXCEPT ![z] = @ + 1]
          /\ UNCHANGED <<reading, failed>>
      BY <1>1, <2>1 DEF EnqueueThumbnail
    <3>2. Append(thumbQueue, f) \in Seq(Images)
      BY <1>3, <2>1
    <3>3. [thumbTimers EXCEPT ![z] = @ + 1] \in [Zones -> Nat]
      BY <1>3
    <3> QED
      BY <3>1, <3>2, <3>3
  <2>2. CASE ~(f \in Images /\ options[z].createImageThumbnails)
    BY <1>1, <1>3, <2>2 DEF EnqueueThumbnail
  <2> QED
    BY <2>1, <2>2
<1>7. ASSUME NEW q, q \subseteq pending \cup {f}
      PROVE  /\ Sound(s, h, q, accepted) /\ s.files[z] = fs /\ s.xhr[f] = {}
             /\ \A y \in Zones \ {z} : s.files[y] = files[y]
             /\ \A g \in Files : s.status[g] = IF g = f THEN "added" ELSE status[g]
             /\ Busy(s, z) <=> Busy(State, z)
  <2>1. Adds(s, h, q, z, f)
    BY <1>1, <1>7, AddedSound
  <2> QED
    BY <2>1 DEF Adds
<1>8. /\ h \in [Files -> Zones \cup {"none"}] /\ h[f] = z
      /\ \A g \in Files \ {f} : h[g] = home[g]
  BY <1>3
<1>9. f \notin files[z]
  BY <1>0, <1>1, DropzoneAssumption DEF Listed
<1>10. options[z].autoProcessQueue /\ timers[z] = 0 => Busy(State, z)
  BY DEF DInv, Filled
<1>11. Kept(z, files[z], accepted, status, full[z])
  BY DEF DInv, Limited
<1>12. ok \in BOOLEAN
  BY DEF Accepts
<1>13. /\ s.files[z] = fs /\ s.xhr[f] = {}
       /\ \A y \in Zones \ {z} : s.files[y] = files[y]
       /\ \A g \in Files : s.status[g] = IF g = f THEN "added" ELSE status[g]
       /\ Busy(s, z) <=> Busy(State, z)
  BY <1>7
<1>14. /\ fs \in SUBSET Files
       /\ ok => options[z].maxFiles = 0
                \/ Cardinality(AcceptedIn(fs, accepted)) < options[z].maxFiles
  BY <1>0 DEF Accepts
<1> HIDE DEF s, ok, h
<1>15. CASE /\ ok /\ options[z].asynchronous /\ pending' = pending \cup {f}
            /\ Become(s) /\ UNCHANGED <<accepted, timers, full>>
  <2>1. Sound(s, h, pending', accepted)
    BY <1>7, <1>15
  <2>2. Kept(z, s.files[z], accepted, s.status, full[z])
    <3>1. AcceptedIn(files[z], accepted) = AcceptedIn(s.files[z], accepted)
      BY <1>4, <1>13 DEF AcceptedIn
    <3>2. \A g \in Files : accepted[g] = "yes" /\ status[g] = "canceled" =>
            accepted[g] = "yes" /\ s.status[g] = "canceled"
      BY <1>4, <1>13
    <3> QED
      BY <1>11, <3>1, <3>2, KeptSame
  <2>3. FileStepOf(z, f, s)
    BY <1>1, <1>3, <1>4, <1>5, <1>8, <1>10, <1>13, <1>15, <2>1, <2>2
       DEF FileStepOf, Final
  <2> QED
    BY <2>3
<1>16. CASE /\ ~(ok /\ options[z].asynchronous)
            /\ Done(s, z, f, ~ok) /\ pending' = pending
  <2> DEFINE e == ~ok
  <2>1. e \in BOOLEAN /\ Done(s, z, f, e)
    BY <1>12, <1>16
  <2>2. Hearing(s, h, pending, accepted, z, f)
    <3>1. Sound(s, h, pending, accepted)
      BY <1>7
    <3> QED
      BY <1>3, <1>4, <1>8, <1>13, <3>1 DEF Hearing
  <2>e. ok <=> ~e
    BY <1>12
  <2> HIDE DEF e
  <2>3. PICK t : DoneGives(s, t, h, pending, z, f, e)
    BY <1>3, <2>1, <2>2, DoneStep
  <2>4. /\ Become(t) /\ Sound(t, h, pending \ {f}, accepted') /\ t.files = s.files
        /\ \A g \in Files \ {f} : s.status[g] \notin Waiting \/ h[g] # z =>
             t.status[g] = s.status[g]
        /\ IF e THEN t.status[f] = "error"
           ELSE \/ t.status[f] = s.status[f]
                \/ s.status[f] = "added" /\ t.status[f] = "queued"
        /\ accepted' = [accepted EXCEPT ![f] = IF e THEN "no" ELSE "yes"]
        /\ timers' \in [Zones -> Nat]
        /\ \A y \in Zones \ {z} : timers'[y] = timers[y]
        /\ options[z].autoProcessQueue /\ timers'[z] = 0 =>
             Busy(t, z) \/ (timers[z] = 0 /\ t = s)
        /\ \/ full' = [full EXCEPT ![z] = MaxReached(z, t.files[z], accepted')]
           \/ full' = full /\ ~e /\ t.status[f] = "canceled"
    BY <2>3 DEF DoneGives
  <2>5. /\ accepted' \in [Files -> {"unset", "yes", "no"}]
        /\ \A g \in Files \ {f} : accepted'[g] = accepted[g]
        /\ accepted'[f] = IF e THEN "no" ELSE "yes"
    BY <1>3, <2>4
  <2>6. full' = [full EXCEPT ![z] = MaxReached(z, t.files[z], accepted')]
    BY <1>13, <2>4
  <2>7. /\ full' \in [Zones -> BOOLEAN]
        /\ \A y \in Zones \ {z} : full'[y] = full[y]
        /\ full'[z] = MaxReached(z, t.files[z], accepted')
    <3>1. MaxReached(z, t.files[z], accepted') \in BOOLEAN
      BY DEF MaxReached
    <3> QED
      BY <1>3, <2>6, <3>1
  <2>8. options[z].maxFiles # 0 /\ ~options[z].asynchronous =>
          Cardinality(AcceptedIn(fs, accepted')) <= options[z].maxFiles
    <3> SUFFICES ASSUME options[z].maxFiles # 0, ~options[z].asynchronous
                 PROVE  Cardinality(AcceptedIn(fs, accepted')) <= options[z].maxFiles
      OBVIOUS
    <3>1. AcceptedIn(fs, accepted) = AcceptedIn(files[z], accepted)
      BY <1>4 DEF AcceptedIn
    <3>2. CASE e
      <4>1. AcceptedIn(fs, accepted') = AcceptedIn(files[z], accepted)
        BY <1>0, <1>4, <2>5, <3>2 DEF AcceptedIn
      <4> QED
        BY <1>11, <4>1 DEF Kept
    <3>3. CASE ~e
      <4> DEFINE A == AcceptedIn(fs, accepted)
      <4>1. AcceptedIn(fs, accepted') = A \cup {f} /\ f \notin A
        BY <1>4, <1>14, <2>5, <3>3 DEF AcceptedIn
      <4>2. A \in SUBSET Files
        BY <1>14, LimitIs
      <4>3. Cardinality(A) < options[z].maxFiles
        BY <1>14, <2>e, <3>3
      <4> HIDE DEF A
      <4>4. IsFiniteSet(A) /\ Cardinality(A) \in Nat
        BY <4>2, SubsetIs
      <4>5. Cardinality(A \cup {f}) = Cardinality(A) + 1
        BY <4>1, <4>4, FS_AddElement
      <4>6. options[z].maxFiles \in Nat
        BY <1>0, MaxFilesIs
      <4> QED
        BY <4>1, <4>3, <4>4, <4>5, <4>6
    <3> QED
      BY <2>1, <3>2, <3>3
  <2>9. Kept(z, t.files[z], accepted', t.status, full'[z])
    <3>1. t.files[z] = fs
      BY <1>13, <2>4
    <3> HIDE DEF fs
    <3>2. options[z].maxFiles # 0 /\ ~options[z].asynchronous =>
            Cardinality(AcceptedIn(t.files[z], accepted')) <= options[z].maxFiles
      BY <2>8, <3>1
    <3> QED
      BY <2>7, <3>2, KeptLooked
  <2>10. options[z].autoProcessQueue /\ timers'[z] = 0 => Busy(t, z)
    BY <1>10, <1>13, <2>4
  <2>11. \A g \in Files \ {f} : status[g] \notin Waiting \/ home[g] # z =>
           t.status[g] = status[g]
    BY <1>8, <1>13, <2>4
  <2>12. Sound(t, home', pending', accepted')
    <3>1. pending \ {f} = pending
      BY <1>4
    <3> QED
      BY <1>1, <1>16, <2>4, <3>1
  <2>13. FileStepOf(z, f, t)
    BY <1>1, <1>3, <1>4, <1>5, <1>8, <1>13, <1>16, <2>4, <2>5, <2>7, <2>9,
       <2>10, <2>11, <2>12 DEF FileStepOf, Final
  <2> QED
    BY <2>13
<1> QED
  BY <1>2, <1>15, <1>16

\* The thumbnails have nothing to do with the uploads.
ThumbnailActions(z) == ThumbnailTimer(z) \/ ThumbnailDone(z) \/ ReadFails(z)

\* Their types
LEMMA ThumbnailTypes ==
  ASSUME TypeOK, NEW z \in Zones, ThumbnailActions(z)
  PROVE  /\ thumbQueue' \in Seq(Images) /\ thumbTimers' \in [Zones -> Nat]
         /\ reading' \in [Zones -> {<<>>} \cup {<<f>> : f \in Images}]
         /\ failed' \subseteq Zones /\ UNCHANGED others
<1>0. /\ thumbQueue \in Seq(Images) /\ thumbTimers \in [Zones -> Nat]
      /\ reading \in [Zones -> {<<>>} \cup {<<f>> : f \in Images}]
      /\ failed \subseteq Zones
  BY DEF TypeOK
<1>1. ASSUME NextThumbnail(z)
      PROVE  /\ thumbQueue' \in Seq(Images)
             /\ reading' \in [Zones -> {<<>>} \cup {<<f>> : f \in Images}]
  <2>1. CASE thumbQueue = <<>>
    BY <1>0, <1>1, <2>1 DEF NextThumbnail
  <2>2. CASE thumbQueue # <<>>
    <3>1. Head(thumbQueue) \in Images /\ Tail(thumbQueue) \in Seq(Images)
      BY <1>0, <2>2
    <3>2. /\ thumbQueue' = Tail(thumbQueue)
          /\ reading' = [reading EXCEPT ![z] = <<Head(thumbQueue)>>]
      BY <1>1, <2>2 DEF NextThumbnail
    <3>3. <<Head(thumbQueue)>> \in {<<f>> : f \in Images}
      BY <3>1
    <3> QED
      BY <1>0, <3>1, <3>2, <3>3
  <2> QED
    BY <2>1, <2>2
<1>2. CASE ThumbnailTimer(z)
  <2>1. thumbTimers' \in [Zones -> Nat]
    BY <1>0, <1>2 DEF ThumbnailTimer
  <2>2. CASE reading[z] = <<>>
    BY <1>0, <1>1, <1>2, <2>1, <2>2 DEF ThumbnailTimer
  <2>3. CASE reading[z] # <<>>
    BY <1>0, <1>2, <2>1, <2>3 DEF ThumbnailTimer
  <2> QED
    BY <2>2, <2>3
<1>3. CASE ThumbnailDone(z)
  BY <1>0, <1>1, <1>3 DEF ThumbnailDone
<1>4. CASE ReadFails(z)
  BY <1>0, <1>4 DEF ReadFails
<1> QED
  BY <1>2, <1>3, <1>4 DEF ThumbnailActions

\* A step that touches neither files nor zones
LEMMA SameStep ==
  ASSUME DInv, UNCHANGED others,
         thumbQueue' \in Seq(Images), thumbTimers' \in [Zones -> Nat],
         reading' \in [Zones -> {<<>>} \cup {<<f>> : f \in Images}],
         failed' \subseteq Zones
  PROVE  DInv' /\ status' = status
<1>1. /\ files' = files /\ status' = status /\ xhr' = xhr /\ sent' = sent
      /\ completes' = completes /\ due' = due /\ told' = told
      /\ options' = options /\ mode' = mode /\ home' = home
      /\ accepted' = accepted /\ pending' = pending
      /\ timers' = timers /\ full' = full /\ stopped' = stopped
  BY DEF others, lists, rest
<1>2. State' = State
  BY <1>1 DEF State
<1>3. TypeOK'
  BY <1>1 DEF DInv, TypeOK
<1>4. Sound(State, home, pending, accepted)'
  BY <1>1, <1>2, SoundNext DEF DInv
<1>5. Untouched' /\ Unheard'
  BY <1>1 DEF DInv, Untouched, Unheard
<1>6. Quiet'
  BY <1>1 DEF DInv, Quiet
<1>7. Filled'
  BY <1>1, <1>2, BusyNext DEF DInv, Filled
<1>8. Limited'
  BY <1>1, KeptNext DEF DInv, Limited
<1> QED
  BY <1>1, <1>3, <1>4, <1>5, <1>6, <1>7, <1>8 DEF DInv

-----------------------------------------------------------------------------
(* What follows                                                            *)

\* At first nothing was added.
LEMMA InitDInv == Init => DInv
<1> SUFFICES ASSUME Init PROVE DInv
  OBVIOUS
<1>1. TypeOK
  BY DEF Init, TypeOK
<1>2. /\ State \in States /\ State.files = files /\ State.status = status
      /\ State.xhr = xhr /\ State.sent = sent /\ State.completes = completes
  BY <1>1, StateInStates
<1>3. \A z \in Zones : Up(State, z) = {} /\ Queued(State, z) = {} /\ files[z] = {}
  BY <1>2 DEF Init, Up, Queued, FilesWithStatus
<1>4. Sound(State, home, pending, accepted)
  <2>1. Listed(State, home) /\ Unsent(State, pending) /\ Together(State)
        /\ Carried(State, home)
    BY <1>2 DEF Init, Listed, Unsent, Together, Carried
  <2>2. Noted(State, accepted)
    BY <1>2 DEF Init, Noted, Final
  <2>3. Bounded(State)
    <3> SUFFICES ASSUME NEW z \in Zones
                 PROVE  Cardinality(Up(State, z)) <= options[z].parallelUploads
      BY DEF Bounded
    <3>1. Cardinality(Up(State, z)) = 0
      BY <1>3, FS_EmptySet
    <3>2. options[z].parallelUploads \in Nat
      BY ParallelUploadsIs DEF Init
    <3> QED
      BY <3>1, <3>2
  <2>4. options \in Layouts /\ home \in [Files -> Zones \cup {"none"}]
        /\ pending \subseteq Files
    BY <1>1 DEF TypeOK
  <2> QED
    BY <1>2, <2>1, <2>2, <2>3, <2>4 DEF Sound, Fit
<1>5. Untouched /\ Unheard
  BY DEF Init, Untouched, Unheard
<1>6. Quiet /\ Filled
  BY <1>2, <1>3 DEF Init, Quiet, Filled, Busy
<1>7. Limited
  <2> SUFFICES ASSUME NEW z \in Zones
               PROVE  Kept(z, files[z], accepted, status, full[z])
    BY DEF Limited
  <2>1. AcceptedIn(files[z], accepted) = {}
    BY <1>3 DEF AcceptedIn
  <2>2. Cardinality(AcceptedIn(files[z], accepted)) = 0
    BY <2>1, FS_EmptySet
  <2>3. options[z].maxFiles \in Nat
    BY MaxFilesIs DEF Init
  <2>4. full[z] = FALSE
    BY DEF Init
  <2> QED
    BY <2>2, <2>3, <2>4 DEF Kept, MaxReached
<1> QED
  BY <1>1, <1>4, <1>5, <1>6, <1>7 DEF DInv

Stays ==
  \A f \in Files : status[f] \in Final /\ status'[f] # status[f] =>
    status[f] = "canceled" /\ f \in pending /\ accepted'[f] = "no"

\* Every step keeps DInv, and what is final.
LEMMA NextDInv == DInv /\ [Next]_vars => DInv' /\ Stays
<1> SUFFICES ASSUME DInv, [Next]_vars PROVE DInv' /\ Stays
  OBVIOUS
<1>1. ASSUME NEW z, NEW t, CalmStepOf(z, t) PROVE DInv' /\ Stays
  BY <1>1, CalmStep DEF Stays
<1>2. ASSUME NEW z, NEW f, NEW t, FileStepOf(z, f, t) PROVE DInv' /\ Stays
  BY <1>2, FileStep DEF Stays
<1>3. ASSUME NEW z \in Zones, NEW f \in Files, NEW valid \in BOOLEAN,
             AddFile(z, f, valid)
      PROVE  DInv' /\ Stays
  BY <1>2, <1>3, AddFileStep
<1>4. ASSUME NEW z \in Zones, CalmActions(z) PROVE DInv' /\ Stays
  BY <1>1, <1>4, CalmActionsAre
<1>5. ASSUME NEW z \in Zones, QueueComplete(z) PROVE DInv' /\ Stays
  BY <1>1, <1>5, QueueCompleteCalm
<1>6. ASSUME NEW z \in Zones, Enable(z) PROVE DInv' /\ Stays
  BY <1>1, <1>6, EnableCalm
<1>7. ASSUME NEW z \in Zones, ThumbnailActions(z) PROVE DInv' /\ Stays
  <2>1. TypeOK
    BY DEF DInv
  <2> QED
    BY <1>7, <2>1, ThumbnailTypes, SameStep DEF Stays
<1>8. ASSUME NEW f \in Files, NEW error \in BOOLEAN, CallDone(f, error)
      PROVE  DInv' /\ Stays
  BY <1>2, <1>8, CallDoneStep
<1>9. ASSUME NEW f \in Files, EnqueueFile(f) PROVE DInv' /\ Stays
  BY <1>2, <1>9, EnqueueFileStep
<1>10. ASSUME NEW f \in Files, RemoveLink(f) \/ Cancel(f) PROVE DInv' /\ Stays
  <2>1. home[f] \in Zones
    BY <1>10 DEF RemoveLink, Cancel, DInv, TypeOK
  <2> QED
    BY <1>4, <1>10, <2>1 DEF CalmActions
<1>11. ASSUME NEW r \in sent, NEW ok \in BOOLEAN, Report(r, ok)
       PROVE  DInv' /\ Stays
  BY <1>1, <1>11, ReportCalm
<1>12. CASE UNCHANGED vars
  <2>1. UNCHANGED others /\ UNCHANGED thumbs
    BY <1>12 DEF vars, others, rest, thumbs
  <2> QED
    BY <2>1, SameStep DEF Stays, thumbs, DInv, TypeOK
<1> QED
  BY <1>3, <1>4, <1>5, <1>6, <1>7, <1>8, <1>9, <1>10, <1>11, <1>12
     DEF Next, CalmActions, ThumbnailActions

\* DInv is an invariant.
LEMMA Invariant == Spec => []DInv
<1>1. Init => DInv
  BY InitDInv
<1>2. DInv /\ [Next]_vars => DInv'
  BY NextDInv
<1> QED
  BY <1>1, <1>2, PTL DEF Spec

\* The books of a zone are kept for every layout of zones, every limit and
\* any number of files (addFile, _errorProcessing, accept, removeFile).
THEOREM BooksAlways == Spec => []Books
<1>1. DInv => Books
  <2> SUFFICES ASSUME DInv PROVE Books
    OBVIOUS
  <2>1. CompleteComes
    BY Facts DEF Noted, CompleteComes
  <2> QED
    BY <2>1, LimitedIs DEF DInv, Books
<1> QED
  BY <1>1, Invariant, PTL

\* Whatever calls processQueue, in whatever order: no zone uploads more than
\* parallelUploads, and none leaves room while files are queued.
THEOREM ParallelAlways == Spec => []Parallel
<1>1. DInv => Parallel
  <2> SUFFICES ASSUME DInv, NEW z \in Zones
               PROVE  /\ Cardinality({f \in Files :
                                        home[f] = z /\ status[f] = "uploading"})
                           <= options[z].parallelUploads
                      /\ (/\ options[z].autoProcessQueue /\ timers[z] = 0
                          /\ Queued(State, z) # {})
                           => Cardinality(Up(State, z))
                                >= options[z].parallelUploads
    BY DEF Parallel, Up, Queued
  <2>1. {f \in Files : home[f] = z /\ status[f] = "uploading"} = Up(State, z)
    <3>1. State.files[z] \subseteq Files /\ \A f \in State.files[z] : home[f] = z
      BY Facts, StateIs DEF Listed
    <3>2. \A f \in Files : home[f] = z /\ status[f] = "uploading" =>
            f \in State.files[z]
      BY Facts DEF Carried
    <3> QED
      BY <3>1, <3>2, Facts DEF Up, FilesWithStatus
  <2>2. Cardinality(Up(State, z)) <= options[z].parallelUploads
    BY Facts DEF Bounded
  <2>3. options[z].autoProcessQueue /\ timers[z] = 0 => Busy(State, z)
    BY DEF DInv, Filled
  <2> QED
    BY <2>1, <2>2, <2>3 DEF Busy
<1> QED
  BY <1>1, Invariant, PTL

\* No upload outlives the removal of its file, and what disable and destroy
\* stopped stays stopped, whatever times out, reports or calls done later.
THEOREM NoOrphansAlways == Spec => []NoOrphans
<1>1. DInv => NoOrphans
  <2> SUFFICES ASSUME DInv PROVE NoOrphans
    OBVIOUS
  <2>0. /\ State.files = files /\ State.status = status /\ State.xhr = xhr
        /\ State.sent = sent /\ Carried(State, home) /\ Together(State)
        /\ Quiet
    BY Facts DEF DInv
  <2>1. ASSUME NEW f \in Files, status[f] = "uploading"
        PROVE  /\ xhr[f] \in sent /\ f \in xhr[f]
               /\ \A g \in xhr[f] : status[g] = "uploading" /\ g \in files[home[f]]
    <3>1. xhr[f] \in sent /\ f \in xhr[f] /\ xhr[f] \subseteq files[home[f]]
      BY <2>0, <2>1 DEF Carried
    <3>2. \A g \in xhr[f] : status[g] = "uploading"
      BY <2>0, <2>1, <3>1 DEF Together
    <3> QED
      BY <3>1, <3>2
  <2> QED
    BY <2>0, <2>1 DEF NoOrphans, Quiet
<1> QED
  BY <1>1, Invariant, PTL

\* What a file has become stays, whatever reports or calls done late, but for
\* a rejection after a cancellation.
THEOREM FinalStaysAlways == Spec => FinalStays
<1>1. DInv /\ [Next]_vars =>
        [\A f \in Files : status[f] \in Final /\ status'[f] # status[f] =>
           status[f] = "canceled" /\ f \in pending /\ accepted'[f] = "no"]_vars
  BY NextDInv DEF Stays
<1> QED
  BY <1>1, Invariant, PTL DEF Spec, FinalStays
=============================================================================
