------------------------ MODULE StreamStorageProofs ------------------------
(* The Stream adapter for any number of processes, values, times to live   *)
(* and calls: locks exclude one another, and what a method answers of the  *)
(* entry was true at some moment of the call; a call that nobody disturbs  *)
(* does what it says; nobody waits in turn for locks, and no call runs on. *)
EXTENDS StreamStorage, FiniteSetTheorems, TLAPS

Plain == paths["plain"]
Entry == Payload \cup {Nothing}
Contents == Payload \cup {Torn}

\* Steps at which a process has a file open.
Holding == {"share", "slurp", "lock", "fill"}

Types ==
    /\ paths \in [Paths -> Ids \cup {0}]
    /\ files \in [Ids -> [content : Contents, readers : SUBSET Processes,
                          writer : Processes \cup {Nobody}]]
    /\ calls \in [Processes -> CallType]
    /\ now \in Nat /\ made \in Nat
    /\ store \in Entry

Locks ==
    \A f \in Ids : files[f].writer # Nobody =>
        /\ files[f].readers = {}
        /\ calls[files[f].writer].at = "fill" /\ calls[files[f].writer].file = f

\* What is on the disk is the entry, but for a file that is being written.
\* Files nobody refers to are new.
Disk ==
    /\ Plain = 0 => store = Nothing
    /\ Plain # 0 /\ files[Plain].content # Torn => store = files[Plain].content
    /\ Plain # 0 /\ files[Plain].content = Torn /\ store # Nothing =>
          files[Plain].writer # Nobody
    /\ \A f \in Ids : f \notin InUse(paths, calls) => files[f] = NewFile

\* Who reads has a lock, and who writes the lock of a truncated file.
Locked(p, c, fs) ==
    /\ c.at = "slurp" => p \in fs[c.file].readers
    /\ c.at = "fill"  => fs[c.file].writer = p /\ fs[c.file].content = Torn

\* If the path leads elsewhere than to the file a reader found, the entry has
\* been missing meanwhile.
CallOk(p, c, plain, fs, time) ==
    /\ c.at \in Holding => c.file \in Ids
    /\ c.at \notin Holding => c.file = 0
    /\ c.at \in {"open", "share", "slurp", "check"} =>
          /\ c.op \in Readers
          /\ c.op = "increment" => c.part \in {"has", "get"}
    /\ c.at \in {"share", "slurp"} => Nothing \in c.seen \/ plain = c.file
    /\ c.at \in {"create", "lock", "fill"} =>
          /\ c.op \in {"set", "increment"}
          /\ c.op = "increment" => c.part = "write"
    /\ c.at \in {"list", "look"} => c.op = "clear"
    /\ Locked(p, c, fs)
    /\ c.at = "check" =>
          /\ c.read \in Payload
          /\ Expired(c.read, time) \/ c.read.value \in c.seen
    /\ c.at = "done" /\ c.op \in Readers =>
          /\ c.ok /\ c.op = "get" => c.found \in c.seen
          /\ ~c.ok /\ c.part # "write" =>
                Nothing \in c.seen \/ (c.read # Nothing /\ Expired(c.read, time))

CallInv(p) == CallOk(p, calls[p], Plain, files, now)

Inv == Types /\ Locks /\ Disk /\ \A p \in Processes : CallInv(p)

----------------------------------------------------------------------------
(* Operators *)

LEMMA WorthType ==
    ASSUME NEW e \in Entry, NEW t \in Nat
    PROVE  /\ Worth(e, t) \in Nat \cup {Nothing}
           /\ e = Nothing => Worth(e, t) = Nothing
           /\ e # Nothing => Worth(e, t) = Nothing \/ Worth(e, t) = e.value
           /\ e # Nothing /\ ~Expired(e, t) => Worth(e, t) = e.value
           /\ e # Nothing /\ Worth(e, t) = Nothing => Expired(e, t)
BY NamesAssumption DEF Worth, Entry, Payload, Expired

LEMMA NoCallType == NoCall \in CallType
BY NamesAssumption DEF NoCall, CallType, Operations, Steps, Paths, Spellings, Payload, NoPayload

\* d is c but for its history.
Same(c, d) ==
    /\ d.op = c.op /\ d.at = c.at /\ d.part = c.part /\ d.file = c.file
    /\ d.read = c.read /\ d.found = c.found /\ d.ok = c.ok
    /\ c.seen \subseteq d.seen

LEMMA SeesType ==
    ASSUME NEW c \in CallType, NEW e \in Entry, NEW t \in Nat
    PROVE  /\ Sees(c, e, t) \in CallType
           /\ Same(c, Sees(c, e, t))
           /\ c.op \in Readers => Worth(e, t) \in Sees(c, e, t).seen
<1> DEFINE w == Worth(e, t)
<1>1. w \in Nat \cup {Nothing}
  BY WorthType
<1> HIDE DEF w
<1> DEFINE seen == IF c.op \in Readers THEN c.seen \cup {w} ELSE c.seen
           before == IF c.alone /\ c.op \in Readers THEN c.before ELSE Nothing
<1>2. Sees(c, e, t) = [c EXCEPT !.seen = seen, !.before = before]
  BY DEF Sees, w
<1>3. /\ seen \in SUBSET (Nat \cup {Nothing}) /\ before \in Nat \cup {Nothing}
      /\ c.seen \subseteq seen /\ (c.op \in Readers => w \in seen)
  BY <1>1 DEF CallType
<1> HIDE DEF seen, before
<1>4. Sees(c, e, t) \in CallType
  BY <1>2, <1>3 DEF CallType
<1>5. Same(c, Sees(c, e, t)) /\ (c.op \in Readers => w \in Sees(c, e, t).seen)
  BY <1>2, <1>3 DEF CallType, Same
<1> QED
  BY <1>4, <1>5 DEF w

LEMMA BesideType ==
    ASSUME NEW q, calls[q] \in CallType, NEW changed \in BOOLEAN
    PROVE  /\ Beside(q, changed) \in CallType /\ Same(calls[q], Beside(q, changed))
           /\ Beside(q, changed).op = calls[q].op
<1> DEFINE alone == IF changed THEN FALSE ELSE calls[q].alone
<1>1. alone \in BOOLEAN
  BY DEF CallType
<1>2. Beside(q, changed) = [calls[q] EXCEPT !.alone = alone]
  BY DEF Beside
<1> HIDE DEF alone
<1> QED
  BY <1>1, <1>2 DEF CallType, Same

\* Where a read leads.
LEMMA AfterReadType ==
    ASSUME now \in Nat, NEW c \in CallType, NEW found \in Nat \cup {Nothing}
    PROVE  LET d == AfterRead(c, found)
           IN  /\ d \in CallType
               /\ d.at \in {"done", "unlink", "create", "open"}
               /\ d.file = 0 /\ d.op = c.op /\ d.seen = c.seen
               /\ found = Nothing => d.read = c.read
               /\ d.at = "open" => d.op = "increment" /\ d.part = "get"
               /\ d.at = "create" => d.op = "increment" /\ d.part = "write"
               /\ d.at = "done" /\ d.ok => d.found = found /\ found # Nothing
               /\ d.at = "done" /\ ~d.ok /\ c.op \in Readers
                    /\ (c.op = "increment" => c.part \in {"has", "get"}) => found = Nothing
<1> DEFINE d == [c EXCEPT !.file = 0, !.found = found,
                          !.read = IF found = Nothing THEN @ ELSE Nothing]
           sum == Stamped((IF found = Nothing THEN 0 ELSE found) + 1, Lifetime)
<1>1. /\ d \in CallType /\ d.file = 0 /\ d.found = found /\ d.op = c.op /\ d.part = c.part
      /\ d.seen = c.seen /\ (found = Nothing => d.read = c.read)
  BY DEF CallType
<1>2. sum \in Payload
  BY NumbersAssumption, NamesAssumption DEF Stamped, Payload
<1> HIDE DEF d, sum
<1>3. \A ok \in BOOLEAN : LET e == Ends(d, ok) IN
        /\ e \in CallType /\ e.at = "done" /\ e.file = 0 /\ e.op = d.op /\ e.seen = d.seen
        /\ e.read = d.read /\ e.found = d.found /\ e.ok = ok
  <2> TAKE ok \in BOOLEAN
  <2>1. Ends(d, ok) = [d EXCEPT !.at = "done", !.file = 0, !.ok = ok]
    BY DEF Ends
  <2>2. Ends(d, ok) \in CallType
    BY <1>1, <2>1 DEF CallType, Steps
  <2> QED
    BY <1>1, <2>1, <2>2 DEF CallType
<1>4. CASE c.op = "get"
  <2>1. AfterRead(c, found) = Ends(d, found # Nothing)
    BY <1>4 DEF AfterRead, d
  <2> QED
    BY <1>1, <1>3, <1>4, <2>1
<1>5. CASE c.op = "delete" /\ found # Nothing
  <2>1. AfterRead(c, found) = [d EXCEPT !.at = "unlink"]
    BY <1>5 DEF AfterRead, d
  <2> QED
    BY <1>1, <1>5, <2>1 DEF CallType, Steps
<1>6. CASE c.op = "increment" /\ c.part = "get"
  <2>1. AfterRead(c, found) = [d EXCEPT !.at = "create", !.part = "write", !.payload = sum]
    BY <1>6 DEF AfterRead, d, sum
  <2> QED
    BY <1>1, <1>2, <1>6, <2>1 DEF CallType, Steps
<1>7. CASE c.op = "increment" /\ c.part = "has" /\ found # Nothing
  <2>1. AfterRead(c, found) = [d EXCEPT !.at = "open", !.part = "get"]
    BY <1>7 DEF AfterRead, d
  <2> QED
    BY <1>1, <1>7, <2>1 DEF CallType, Steps
<1>8. CASE ~ \/ c.op = "get"
             \/ c.op = "delete" /\ found # Nothing
             \/ c.op = "increment" /\ c.part = "get"
             \/ c.op = "increment" /\ c.part = "has" /\ found # Nothing
  <2>1. AfterRead(c, found) = Ends(d, FALSE)
    BY <1>8 DEF AfterRead, d
  <2> QED
    BY <1>1, <1>3, <1>8, <2>1 DEF Readers
<1> QED
  BY <1>4, <1>5, <1>6, <1>7, <1>8

----------------------------------------------------------------------------
(* What a step of one process leaves of the calls of the others *)

Keeps(q) ==
    \/ calls[q].at = "done" /\ calls'[q] = NoCall
    \/ /\ calls[q].at # "done" /\ Same(calls[q], calls'[q])
       /\ Active(q) /\ calls[q].op \in Readers => Worth(store', now') \in calls'[q].seen

LEMMA GoesKeeps ==
    ASSUME Types, store' \in Entry, now' = now,
           NEW p \in Processes, NEW c \in CallType, NEW changed \in BOOLEAN,
           Goes(p, c, changed)
    PROVE  /\ calls' \in [Processes -> CallType]
           /\ Same(c, calls'[p])
           /\ c.op \in Readers => Worth(store', now) \in calls'[p].seen
           /\ \A q \in Processes \ {p} : Keeps(q)
<1>1. now \in Nat
  BY DEF Types
<1>2. calls'[p] = Sees(c, store', now)
  BY DEF Goes
<1>3. /\ calls'[p] \in CallType /\ Same(c, calls'[p])
      /\ c.op \in Readers => Worth(store', now) \in calls'[p].seen
  BY <1>1, <1>2, SeesType
<1>4. ASSUME NEW q \in Processes \ {p}
      PROVE  calls'[q] \in CallType /\ Keeps(q)
  <2> DEFINE e == Beside(q, changed)
  <2>1. calls[q] \in CallType
    BY DEF Types
  <2>2. e \in CallType /\ Same(calls[q], e) /\ e.op = calls[q].op
    BY <2>1, BesideType
  <2>3. CASE Active(q)
    <3>1. calls'[q] = Sees(e, store', now)
      BY <2>3 DEF Goes
    <3> HIDE DEF e
    <3>2. /\ calls'[q] \in CallType /\ Same(e, calls'[q])
          /\ e.op \in Readers => Worth(store', now) \in calls'[q].seen
      BY <1>1, <2>2, <3>1, SeesType
    <3> QED
      BY <2>2, <2>3, <3>2 DEF Keeps, Same, Active
  <2>4. CASE ~Active(q)
    <3>1. calls'[q] = Returned(q)
      BY <2>4 DEF Goes
    <3> QED
      BY <2>1, <2>4, <3>1, NoCallType DEF Returned, Keeps, Same, Active
  <2> QED
    BY <2>3, <2>4
<1>5. DOMAIN calls' = Processes /\ calls' = [q \in Processes |-> calls'[q]]
  BY DEF Goes
<1> QED
  BY <1>3, <1>4, <1>5

\* The calls of the others stay as the invariant has them.
LEMMA OthersOk ==
    ASSUME Inv, NEW q \in Processes, Keeps(q),
           store' \in Entry, now' \in Nat, now <= now',
           Plain' = Plain \/ Plain = 0 \/ store' = Nothing,
           Locked(q, calls[q], files')
    PROVE  CallInv(q)'
<1> DEFINE c == calls[q]
           d == calls'[q]
<1>1. CASE d = NoCall
  BY <1>1 DEF CallInv, CallOk, Locked, NoCall, Holding, Readers
<1>2. CASE d # NoCall
  <2>1. /\ c.at # "done" /\ Same(c, d) /\ CallOk(q, c, Plain, files, now)
        /\ Active(q) /\ c.op \in Readers => Worth(store', now') \in d.seen
    BY <1>2 DEF Keeps, Inv, CallInv
  <2>2. c.at \in {"share", "slurp"} => Nothing \in d.seen \/ Plain' = d.file
    <3> SUFFICES ASSUME c.at \in {"share", "slurp"}, Nothing \notin c.seen, Plain' # Plain
                 PROVE  Nothing \in d.seen
      BY <2>1 DEF CallOk, Same
    <3>1. Plain = c.file /\ c.file \in Ids /\ c.op \in Readers /\ Active(q)
      BY <2>1 DEF CallOk, Holding, Active
    <3>2. store' = Nothing
      BY <3>1 DEF Ids
    <3>3. Worth(store', now') = Nothing
      BY <3>2 DEF Worth
    <3> QED
      BY <2>1, <3>1, <3>3
  <2>3. c.at = "check" => Expired(d.read, now') \/ d.read.value \in d.seen
    <3> SUFFICES ASSUME c.at = "check", c.read.value \notin c.seen
                 PROVE  Expired(d.read, now')
      BY <2>1 DEF CallOk, Same
    <3>1. d.read = c.read /\ c.read \in Payload /\ Expired(c.read, now) /\ now \in Nat
      BY <2>1 DEF CallOk, Same, Inv, Types
    <3> QED
      BY <3>1 DEF Expired, Payload
  <2>4. d.at = c.at /\ d.op = c.op /\ d.part = c.part /\ d.file = c.file /\ d.read = c.read
    BY <2>1 DEF Same
  <2>5. Locked(q, d, files')
    BY <2>4 DEF Locked
  <2>6. CallOk(q, d, Plain', files', now')
    BY <2>1, <2>2, <2>3, <2>4, <2>5 DEF CallOk
  <2> QED
    BY <2>6 DEF CallInv
<1> QED
  BY <1>1, <1>2

\* Files in use stay in use while nobody lets go of one.
LEMMA InUseGrows ==
    ASSUME Inv,
           \A x \in Paths : paths[x] \in Ids => paths'[x] = paths[x],
           \A q \in Processes : calls[q].file \in Ids => calls'[q].file = calls[q].file
    PROVE  \A f \in Ids : f \in InUse(paths, calls) => f \in InUse(paths', calls')
BY DEF InUse

\* A step that changes nothing but calls.
LEMMA QuietStep ==
    ASSUME Inv, UNCHANGED <<paths, files, now, store>>, made' \in Nat,
           NEW p \in Processes, NEW c \in CallType, NEW changed \in BOOLEAN,
           Goes(p, c, changed), calls[p].at # "fill",
           calls[p].file \in Ids => c.file = calls[p].file,
           CallOk(p, calls'[p], Plain, files, now)
    PROVE  Inv'
<1>1. /\ calls' \in [Processes -> CallType] /\ Same(c, calls'[p])
      /\ \A q \in Processes \ {p} : Keeps(q)
  BY GoesKeeps DEF Inv, Types
<1>2. Types'
  BY <1>1 DEF Inv, Types
<1>3. \A q \in Processes : calls[q].file \in Ids => calls'[q].file = calls[q].file
  <2>1. \A q \in Processes : calls[q].at = "done" => calls[q].file = 0
    BY DEF Inv, CallInv, CallOk, Holding
  <2> QED
    BY <1>1, <2>1 DEF Keeps, Same, Ids
<1>4. Locks'
  <2> SUFFICES ASSUME NEW f \in Ids, files[f].writer # Nobody
               PROVE  /\ files[f].readers = {}
                      /\ calls'[files[f].writer].at = "fill"
                      /\ calls'[files[f].writer].file = f
    BY DEF Locks
  <2> DEFINE q == files[f].writer
  <2>1. /\ files[f].readers = {} /\ calls[q].at = "fill" /\ calls[q].file = f
        /\ q \in Processes
    BY DEF Inv, Locks, Types
  <2> QED
    BY <1>1, <2>1 DEF Keeps, Same
<1>5. Disk'
  <2>1. \A f \in Ids : f \in InUse(paths, calls) => f \in InUse(paths', calls')
    BY <1>3, InUseGrows
  <2> QED
    BY <2>1 DEF Inv, Disk, Plain
<1>6. ASSUME NEW q \in Processes
      PROVE  CallInv(q)'
  <2>1. CASE q = p
    BY <2>1 DEF CallInv, Plain
  <2>2. CASE q # p
    <3>1. Locked(q, calls[q], files')
      BY DEF Inv, CallInv, CallOk, Locked
    <3> QED
      <4>1. Keeps(q) /\ store' \in Entry /\ now' \in Nat /\ now <= now' /\ Plain' = Plain
        BY <1>1, <2>2 DEF Inv, Types, Plain
      <4> QED
        BY <3>1, <4>1, OthersOk
  <2> QED
    BY <2>1, <2>2
<1> QED
  BY <1>2, <1>4, <1>5, <1>6 DEF Inv

LEMMA MadeNat == Inv /\ UNCHANGED made => made' \in Nat
BY DEF Inv, Types

\* Any step of p, from what is to be seen of it alone.
LEMMA AnyStep ==
    ASSUME Inv, now' = now, made' \in Nat, store' \in Entry,
           NEW p \in Processes, NEW c \in CallType, NEW changed \in BOOLEAN,
           Goes(p, c, changed), CallOk(p, calls'[p], Plain', files', now),
           paths' \in [Paths -> Ids \cup {0}],
           files' \in [Ids -> [content : Contents, readers : SUBSET Processes,
                              writer : Processes \cup {Nobody}]],
           Plain' = Plain \/ Plain = 0 \/ store' = Nothing,
           \A q \in Processes \ {p} : Locked(q, calls[q], files'),
           Locks', Disk'
    PROVE  Inv'
<1>1. /\ calls' \in [Processes -> CallType]
      /\ \A q \in Processes \ {p} : Keeps(q)
  BY GoesKeeps DEF Inv
<1>2. Types'
  BY <1>1 DEF Inv, Types
<1>3. ASSUME NEW q \in Processes
      PROVE  CallInv(q)'
  <2>1. CASE q = p
    BY <2>1 DEF CallInv
  <2>2. CASE q # p
    <3>1. Keeps(q) /\ now' \in Nat /\ now <= now'
      BY <1>1, <2>2 DEF Inv, Types
    <3> QED
      BY <2>2, <3>1, OthersOk
  <2> QED
    BY <2>1, <2>2
<1> QED
  BY <1>2, <1>3 DEF Inv

\* The lock of a writer survives what others do, and what it does before it
\* has filled its file.
LEMMA WritersKeep ==
    ASSUME Inv, NEW p \in Processes, \A q \in Processes \ {p} : Keeps(q)
    PROVE  \A f \in Ids : files[f].writer \notin {Nobody, p} =>
               /\ files[f].readers = {}
               /\ calls'[files[f].writer].at = "fill"
               /\ calls'[files[f].writer].file = f
<1> SUFFICES ASSUME NEW f \in Ids, files[f].writer \notin {Nobody, p}
             PROVE  /\ files[f].readers = {}
                    /\ calls'[files[f].writer].at = "fill"
                    /\ calls'[files[f].writer].file = f
  OBVIOUS
<1> DEFINE q == files[f].writer
<1>1. /\ files[f].readers = {} /\ calls[q].at = "fill" /\ calls[q].file = f
      /\ q \in Processes \ {p}
  BY DEF Inv, Locks, Types
<1> QED
  BY <1>1 DEF Keeps, Same

----------------------------------------------------------------------------
(* Steps *)

LEMMA CallStep ==
    ASSUME Inv, NEW p \in Processes, NEW op \in Operations, NEW spelling \in Spellings,
           NEW value \in Nat, NEW ttl \in Nat, Call(p, op, spelling, value, ttl)
    PROVE  Inv'
<1> DEFINE start == [NoCall EXCEPT !.op = op, !.before = Worth(store, now), !.alone = op # "get"]
           c == CASE op = "set" ->
                        [start EXCEPT !.at = "create", !.path = WritePath(spelling),
                                      !.payload = Stamped(value, ttl)]
                  [] op = "clear" -> [start EXCEPT !.at = "list"]
                  [] op = "increment" ->
                        [start EXCEPT !.at = "open", !.part = "has",
                                      !.path = WritePath(spelling)]
                  [] OTHER -> [start EXCEPT !.at = "open"]
<1>1. /\ calls[p].at \in {"idle", "done"} /\ made' = made + 1
      /\ UNCHANGED <<paths, files, now, store>> /\ Goes(p, c, FALSE)
  BY DEF Call
<1>2. Worth(store, now) \in Nat \cup {Nothing} /\ Stamped(value, ttl) \in Payload
  BY WorthType DEF Inv, Types, Stamped, Payload
<1>3. start \in CallType /\ start.op = op /\ start.file = 0 /\ start.at = "idle"
  <2> DEFINE worth == Worth(store, now)
             reads == op # "get"
  <2>1. worth \in Nat \cup {Nothing} /\ reads \in BOOLEAN
    BY <1>2
  <2> HIDE DEF worth, reads
  <2>2. NoCall \in CallType /\ NoCall.file = 0 /\ NoCall.at = "idle"
    BY NoCallType DEF NoCall
  <2>3. start = [NoCall EXCEPT !.op = op, !.before = worth, !.alone = reads]
    BY DEF worth, reads
  <2> QED
    BY <2>1, <2>2, <2>3 DEF CallType
<1> HIDE DEF start
<1>4. /\ c \in CallType /\ c.file = 0 /\ c.op = op
      /\ c.at \in {"create", "list", "open"}
      /\ c.at = "open" => op \in Readers /\ (op = "increment" => c.part = "has")
      /\ c.at = "create" => op = "set"
      /\ c.at = "list" => op = "clear"
  <2>1. CASE op = "set"
    BY <1>2, <1>3, <2>1 DEF CallType, Steps, WritePath, Spellings, Paths
  <2>2. CASE op = "clear"
    BY <1>3, <2>2 DEF CallType, Steps
  <2>3. CASE op = "increment"
    BY <1>3, <2>3 DEF CallType, Steps, WritePath, Spellings, Paths, Readers
  <2>4. CASE op \in {"get", "delete"}
    BY <1>3, <2>4 DEF CallType, Steps, Readers
  <2> QED
    BY <2>1, <2>2, <2>3, <2>4 DEF Operations
<1> HIDE DEF c
<1>5. Same(c, calls'[p])
  BY <1>1, <1>4, GoesKeeps DEF Inv, Types
<1>6. CallOk(p, calls'[p], Plain, files, now)
  BY <1>4, <1>5 DEF CallOk, Locked, Same, Holding
<1>7. calls[p].file = 0
  BY <1>1 DEF Inv, CallInv, CallOk, Holding
<1>8. made' \in Nat
  BY <1>1 DEF Inv, Types
<1> QED
  BY <1>1, <1>4, <1>6, <1>7, <1>8, QuietStep DEF Ids

\* A read that found nothing, or something it may tell of.
LEMMA AfterReadOk ==
    ASSUME Inv, NEW p \in Processes, NEW c \in CallType, NEW found \in Nat \cup {Nothing},
           NEW d \in CallType, NEW plain, NEW fs,
           Same(AfterRead(c, found), d), c.op \in Readers,
           c.op = "increment" => c.part \in {"has", "get"},
           found # Nothing => found \in d.seen,
           found = Nothing => Nothing \in d.seen \/ (c.read # Nothing /\ Expired(c.read, now))
    PROVE  CallOk(p, d, plain, fs, now)
<1> DEFINE e == AfterRead(c, found)
<1>1. /\ e.at \in {"done", "unlink", "create", "open"}
      /\ e.file = 0 /\ e.op = c.op /\ e.seen = c.seen
      /\ found = Nothing => e.read = c.read
      /\ e.at = "open" => e.op = "increment" /\ e.part = "get"
      /\ e.at = "create" => e.op = "increment" /\ e.part = "write"
      /\ e.at = "done" /\ e.ok => e.found = found /\ found # Nothing
      /\ e.at = "done" /\ ~e.ok => found = Nothing
  BY AfterReadType DEF Inv, Types
<1> HIDE DEF e
<1>2. /\ d.op = e.op /\ d.at = e.at /\ d.part = e.part /\ d.file = e.file
      /\ d.read = e.read /\ d.found = e.found /\ d.ok = e.ok
  BY DEF Same, e
<1> QED
  BY <1>1, <1>2 DEF CallOk, Locked, Holding

LEMMA OpenStep ==
    ASSUME Inv, NEW p \in Processes, Open(p)
    PROVE  Inv'
<1> DEFINE c == calls[p]
           none == [c EXCEPT !.read = Nothing]
           d == IF Plain = 0 THEN AfterRead(none, Nothing)
                             ELSE [c EXCEPT !.at = "share", !.file = Plain]
<1>1. /\ c.at = "open" /\ UNCHANGED <<paths, files, now, made, store>> /\ Goes(p, d, FALSE)
  BY DEF Open, ReadPath, Plain
<1>2. /\ c \in CallType /\ c.file = 0 /\ c.op \in Readers /\ Plain \in Ids \cup {0}
      /\ c.op = "increment" => c.part \in {"has", "get"}
  BY <1>1 DEF Inv, Types, CallInv, CallOk, Holding, Paths, Spellings, Plain
<1>3. CASE Plain = 0
  <2>1. none \in CallType /\ none.op = c.op /\ none.part = c.part /\ d = AfterRead(none, Nothing)
    BY <1>2, <1>3 DEF CallType
  <2> HIDE DEF none
  <2>2. d \in CallType /\ d.op = c.op
    BY <2>1, AfterReadType DEF Inv, Types
  <2> HIDE DEF d
  <2>3. /\ calls' \in [Processes -> CallType] /\ Same(d, calls'[p])
        /\ Worth(store', now) \in calls'[p].seen
    BY <1>1, <1>2, <2>2, GoesKeeps DEF Inv, Types
  <2>4. Worth(store', now) = Nothing
    BY <1>1, <1>3 DEF Inv, Disk, Worth
  <2>5. CallOk(p, calls'[p], Plain, files, now)
    BY <1>2, <2>1, <2>3, <2>4, AfterReadOk
  <2> QED
    <3>1. /\ UNCHANGED <<paths, files, now, store>> /\ made' \in Nat
         /\ c.at # "fill" /\ c.file \notin Ids
      BY <1>1, <1>2, MadeNat DEF Ids
    <3> QED
      BY <1>1, <2>2, <2>5, <3>1, QuietStep
<1>4. CASE Plain # 0
  <2>1. d \in CallType /\ d.at = "share" /\ d.file = Plain /\ d.op = c.op /\ d.part = c.part
    BY <1>2, <1>4 DEF CallType, Steps
  <2> HIDE DEF d
  <2>2. Same(d, calls'[p])
    BY <1>1, <2>1, GoesKeeps DEF Inv, Types
  <2>3. CallOk(p, calls'[p], Plain, files, now)
    BY <1>2, <1>4, <2>1, <2>2 DEF CallOk, Locked, Same, Holding
  <2> QED
    <3>1. /\ UNCHANGED <<paths, files, now, store>> /\ made' \in Nat
         /\ c.at # "fill" /\ c.file \notin Ids
      BY <1>1, <1>2, MadeNat DEF Ids
    <3> QED
      BY <1>1, <2>1, <2>3, <3>1, QuietStep
<1> QED
  BY <1>3, <1>4

LEMMA CheckStep ==
    ASSUME Inv, NEW p \in Processes, Check(p)
    PROVE  Inv'
<1> DEFINE c == calls[p]
           found == Worth(c.read, now)
           d == AfterRead(c, found)
<1>1. /\ c.at = "check" /\ UNCHANGED <<paths, files, now, made, store>> /\ Goes(p, d, FALSE)
  BY DEF Check
<1>2. /\ c \in CallType /\ c.file = 0 /\ c.op \in Readers
      /\ c.op = "increment" => c.part \in {"has", "get"}
      /\ c.read \in Payload /\ (Expired(c.read, now) \/ c.read.value \in c.seen)
      /\ now \in Nat
  BY <1>1 DEF Inv, Types, CallInv, CallOk, Holding
<1>3. /\ found \in Nat \cup {Nothing} /\ c.read # Nothing
      /\ found # Nothing => found = c.read.value /\ ~Expired(c.read, now)
      /\ found = Nothing => Expired(c.read, now)
  BY <1>2, NamesAssumption, WorthType DEF Entry, Worth, Payload
<1> HIDE DEF found
<1>4. d \in CallType /\ d.op = c.op /\ d.seen = c.seen
  BY <1>2, <1>3, AfterReadType
<1>5. calls' \in [Processes -> CallType] /\ Same(d, calls'[p])
  BY <1>1, <1>4, GoesKeeps DEF Inv, Types
<1>6. c.seen \subseteq calls'[p].seen
  BY <1>4, <1>5 DEF Same
<1>7. CallOk(p, calls'[p], Plain, files, now)
  BY <1>2, <1>3, <1>5, <1>6, AfterReadOk
<1> HIDE DEF d
<1> QED
  <2>1. /\ UNCHANGED <<paths, files, now, store>> /\ made' \in Nat
       /\ c.at # "fill" /\ c.file \notin Ids
    BY <1>1, <1>2, MadeNat DEF Ids
  <2> QED
    BY <1>1, <1>4, <1>7, <2>1, QuietStep

LEMMA ListStep ==
    ASSUME Inv, NEW p \in Processes, List(p)
    PROVE  Inv'
<1> DEFINE c == calls[p]
           found == {x \in Paths : paths[x] # 0}
           d == [c EXCEPT !.at = "look", !.listed = found, !.ok = TRUE]
<1>1. /\ c.at = "list" /\ UNCHANGED <<paths, files, now, made, store>> /\ Goes(p, d, FALSE)
  BY DEF List
<1>2. c \in CallType /\ c.file = 0 /\ c.op = "clear"
  BY <1>1 DEF Inv, Types, CallInv, CallOk, Holding
<1>3. d \in CallType /\ d.at = "look" /\ d.file = 0 /\ d.op = "clear"
  BY <1>2 DEF CallType, Steps
<1> HIDE DEF d
<1>4. Same(d, calls'[p])
  BY <1>1, <1>3, GoesKeeps DEF Inv, Types
<1>5. CallOk(p, calls'[p], Plain, files, now)
  BY <1>3, <1>4 DEF CallOk, Locked, Same, Holding
<1> QED
  BY <1>1, <1>2, <1>3, <1>5, MadeNat, QuietStep DEF Ids

LEMMA LookStep ==
    ASSUME Inv, NEW p \in Processes, Look(p)
    PROVE  Inv'
<1> DEFINE c == calls[p]
<1>1. c.at = "look" /\ UNCHANGED <<paths, files, now, store>> /\ made' \in Nat
  BY MadeNat DEF Look
<1>2. c \in CallType /\ c.file = 0 /\ c.op = "clear" /\ c.file \notin Ids /\ c.at # "fill"
  BY <1>1 DEF Inv, Types, CallInv, CallOk, Holding, Ids
<1>3. PICK d \in CallType :
          d.file = 0 /\ d.op = "clear" /\ d.at \in {"done", "look", "unlink"} /\ Goes(p, d, FALSE)
  <2>1. CASE c.listed = {} /\ Goes(p, Ends(c, c.ok), FALSE)
    <3>1. Ends(c, c.ok) = [c EXCEPT !.at = "done", !.file = 0, !.ok = c.ok]
      BY DEF Ends
    <3>2. /\ Ends(c, c.ok) \in CallType /\ Ends(c, c.ok).file = 0 /\ Ends(c, c.ok).at = "done"
          /\ Ends(c, c.ok).op = "clear"
      BY <1>2, <3>1 DEF CallType, Steps
    <3> QED
      BY <2>1, <3>2
  <2>2. CASE \E x \in c.listed :
                Goes(p, IF paths[x] = 0 THEN [c EXCEPT !.listed = @ \ {x}]
                        ELSE [c EXCEPT !.at = "unlink", !.path = x], FALSE)
    <3> DEFINE D(x) == IF paths[x] = 0 THEN [c EXCEPT !.listed = @ \ {x}]
                       ELSE [c EXCEPT !.at = "unlink", !.path = x]
    <3>1. PICK x \in c.listed : Goes(p, D(x), FALSE)
      BY <2>2
    <3>2. D(x) \in CallType /\ D(x).file = 0 /\ D(x).op = "clear" /\ D(x).at \in {"look", "unlink"}
      BY <1>1, <1>2 DEF CallType, Steps
    <3> HIDE DEF D
    <3> QED
      BY <3>1, <3>2
  <2> QED
    BY <2>1, <2>2 DEF Look
<1>4. Same(d, calls'[p])
  BY <1>1, <1>3, GoesKeeps DEF Inv, Types
<1>5. CallOk(p, calls'[p], Plain, files, now)
  BY <1>3, <1>4 DEF CallOk, Locked, Same, Holding, Readers
<1> QED
  BY <1>1, <1>2, <1>3, <1>5, QuietStep

LEMMA TickStep ==
    ASSUME Inv, Tick
    PROVE  Inv'
<1>1. now' = now + 1 /\ UNCHANGED <<paths, files, made, store>> /\ now \in Nat /\ now' \in Nat
  BY DEF Tick, Inv, Types
<1>2. ASSUME NEW q \in Processes
      PROVE  calls'[q] \in CallType /\ Keeps(q)
  <2> DEFINE e == Beside(q, TRUE)
  <2>1. calls[q] \in CallType /\ store \in Entry
    BY DEF Inv, Types
  <2>2. e \in CallType /\ Same(calls[q], e) /\ e.op = calls[q].op
    BY <2>1, BesideType
  <2> HIDE DEF e
  <2>3. CASE Active(q)
    <3>1. calls'[q] = Sees(e, store, now')
      BY <2>3 DEF Tick, e
    <3>2. /\ calls'[q] \in CallType /\ Same(e, calls'[q])
          /\ e.op \in Readers => Worth(store, now') \in calls'[q].seen
      BY <1>1, <2>1, <2>2, <3>1, SeesType
    <3> QED
      BY <1>1, <2>2, <2>3, <3>2 DEF Keeps, Same, Active
  <2>4. CASE ~Active(q)
    <3>1. calls'[q] = Returned(q)
      BY <2>4 DEF Tick
    <3> QED
      BY <2>1, <2>4, <3>1, NoCallType DEF Returned, Keeps, Same, Active
  <2> QED
    BY <2>3, <2>4
<1>3. calls' \in [Processes -> CallType]
  <2>1. calls' = [q \in Processes |-> calls'[q]]
    BY DEF Tick
  <2> QED
    BY <1>2, <2>1
<1>4. \A q \in Processes : calls[q].file \in Ids => calls'[q].file = calls[q].file
  <2>1. \A q \in Processes : calls[q].at = "done" => calls[q].file = 0
    BY DEF Inv, CallInv, CallOk, Holding
  <2> QED
    BY <1>2, <2>1 DEF Keeps, Same, Ids
<1>5. Locks'
  <2> SUFFICES ASSUME NEW f \in Ids, files[f].writer # Nobody
               PROVE  /\ files[f].readers = {}
                      /\ calls'[files[f].writer].at = "fill"
                      /\ calls'[files[f].writer].file = f
    BY <1>1 DEF Locks
  <2>1. /\ files[f].readers = {} /\ files[f].writer \in Processes
        /\ calls[files[f].writer].at = "fill" /\ calls[files[f].writer].file = f
    BY DEF Inv, Locks, Types
  <2> QED
    BY <1>2, <2>1 DEF Keeps, Same
<1>6. Disk'
  <2>1. \A f \in Ids : f \in InUse(paths, calls) => f \in InUse(paths', calls')
    BY <1>1, <1>4, InUseGrows
  <2> QED
    BY <1>1, <2>1 DEF Inv, Disk, Plain
<1>7. ASSUME NEW q \in Processes
      PROVE  CallInv(q)'
  <2>1. Locked(q, calls[q], files')
    BY <1>1 DEF Inv, CallInv, CallOk, Locked
  <2>2. Keeps(q) /\ store' \in Entry /\ now <= now' /\ Plain' = Plain
    BY <1>1, <1>2 DEF Inv, Types, Plain
  <2> QED
    BY <1>1, <2>1, <2>2, OthersOk
<1>8. Types'
  BY <1>1, <1>3 DEF Inv, Types
<1> QED
  BY <1>5, <1>6, <1>7, <1>8 DEF Inv

LEMMA FilesKept ==
    ASSUME Inv, NEW p \in Processes, \A q \in Processes \ {p} : Keeps(q),
           calls[p].file \in Ids => calls'[p].file = calls[p].file
    PROVE  \A q \in Processes : calls[q].file \in Ids => calls'[q].file = calls[q].file
<1>1. \A q \in Processes : calls[q].at = "done" => calls[q].file = 0
  BY DEF Inv, CallInv, CallOk, Holding
<1> QED
  BY <1>1 DEF Keeps, Same, Ids

LEMMA OthersInUse ==
    ASSUME Inv, NEW p \in Processes, \A q \in Processes \ {p} : Keeps(q), NEW ps
    PROVE  \A q \in Processes \ {p} :
               calls[q].file \in Ids => calls[q].file \in InUse(ps, calls')
<1> SUFFICES ASSUME NEW q \in Processes \ {p}, calls[q].file \in Ids
             PROVE  calls'[q].file = calls[q].file
  BY DEF InUse
<1>1. calls[q].at # "done"
  BY DEF Inv, CallInv, CallOk, Holding, Ids
<1> QED
  BY <1>1 DEF Keeps, Same

\* Who writes a file is at "fill", and nobody else is.
LEMMA WritersFill ==
    ASSUME Inv, NEW p \in Processes, calls[p].at # "fill"
    PROVE  \A g \in Ids : files[g].writer # p
<1> SUFFICES ASSUME NEW g \in Ids, files[g].writer = p
             PROVE  FALSE
  OBVIOUS
<1>1. files[g].writer # Nobody
  BY NamesAssumption
<1> QED
  BY <1>1 DEF Inv, Locks

\* A process opens no lock but its own, and only the holder of a lock lets a
\* file out of use.
FileType == [content : Contents, readers : SUBSET Processes, writer : Processes \cup {Nobody}]

LEMMA KeptType ==
    ASSUME NEW fs \in [Ids -> FileType], NEW ps, NEW cs
    PROVE  /\ Kept(fs, ps, cs) \in [Ids -> FileType]
           /\ \A f \in Ids : Kept(fs, ps, cs)[f] = IF f \in InUse(ps, cs) THEN fs[f] ELSE NewFile
BY DEF Kept, NewFile, FileType, Contents

LEMMA ClosedType ==
    ASSUME NEW fs \in [Ids -> FileType], NEW p \in Processes
    PROVE  /\ Closed(fs, p) \in [Ids -> FileType]
           /\ \A f \in Ids :
                 /\ Closed(fs, p)[f].content = fs[f].content
                 /\ Closed(fs, p)[f].readers = fs[f].readers \ {p}
                 /\ Closed(fs, p)[f].writer = IF fs[f].writer = p THEN Nobody ELSE fs[f].writer
BY DEF Closed, FileType

LEMMA LockSharedStep ==
    ASSUME Inv, NEW p \in Processes, LockShared(p)
    PROVE  Inv'
<1> DEFINE c == calls[p]
           f == c.file
           d == [c EXCEPT !.at = "slurp"]
<1>1. /\ c.at = "share" /\ files[f].writer = Nobody
      /\ files' = [files EXCEPT ![f].readers = @ \cup {p}]
      /\ UNCHANGED <<paths, now, made, store>> /\ Goes(p, d, FALSE)
  BY DEF LockShared
<1>2. /\ c \in CallType /\ f \in Ids /\ c.op \in Readers
      /\ c.op = "increment" => c.part \in {"has", "get"}
      /\ Nothing \in c.seen \/ Plain = f
  BY <1>1 DEF Inv, Types, CallInv, CallOk, Holding
<1>3. /\ d \in CallType /\ d.at = "slurp" /\ d.file = f /\ d.op = c.op /\ d.part = c.part
      /\ d.seen = c.seen
  BY <1>2 DEF CallType, Steps
<1> HIDE DEF d
<1>4. /\ files \in [Ids -> FileType] /\ files' \in [Ids -> FileType]
      /\ files'[f].readers = files[f].readers \cup {p} /\ files'[f].writer = Nobody
      /\ files'[f].content = files[f].content
      /\ \A g \in Ids \ {f} : files'[g] = files[g]
  BY <1>1, <1>2 DEF Inv, Types, FileType
<1>5. Same(d, calls'[p]) /\ \A q \in Processes \ {p} : Keeps(q)
  BY <1>1, <1>3, GoesKeeps DEF Inv, Types
<1>6. CallOk(p, calls'[p], Plain', files', now)
  BY <1>1, <1>2, <1>3, <1>4, <1>5 DEF CallOk, Locked, Same, Holding, Plain
<1>7. ASSUME NEW q \in Processes \ {p}
      PROVE  Locked(q, calls[q], files')
  <2>1. CallOk(q, calls[q], Plain, files, now)
    BY DEF Inv, CallInv
  <2>2. calls[q].at \in {"slurp", "fill"} => calls[q].file \in Ids
    BY <2>1 DEF CallOk, Holding
  <2>3. calls[q].at = "fill" => calls[q].file # f
    BY <1>1, <2>1, NamesAssumption DEF CallOk, Locked
  <2> QED
    BY <1>4, <2>1, <2>2, <2>3 DEF CallOk, Locked
<1>8. Locks'
  <2>1. \A g \in Ids : files[g].writer # p
    BY <1>1, WritersFill
  <2>2. \A g \in Ids : files[g].writer # Nobody => g # f
    BY <1>1
  <2> QED
    BY <1>4, <1>5, <2>1, <2>2, WritersKeep DEF Locks
<1>9. Disk'
  <2>1. \A g \in Ids : g \in InUse(paths, calls) => g \in InUse(paths', calls')
    <3>1. \A q \in Processes : calls[q].file \in Ids => calls'[q].file = calls[q].file
      BY <1>3, <1>5, FilesKept DEF Same
    <3> QED
      BY <1>1, <3>1, InUseGrows
  <2>2. f \in InUse(paths', calls')
    BY <1>3, <1>5 DEF InUse, Same
  <2>3. Plain \in Ids \cup {0}
    BY DEF Inv, Types, Plain, Paths, Spellings
  <2> QED
    BY <1>1, <1>4, <2>1, <2>2, <2>3 DEF Inv, Disk, Plain
<1> QED
  <2>1. made' \in Nat /\ store' \in Entry /\ paths' \in [Paths -> Ids \cup {0}] /\ Plain' = Plain
    BY <1>1 DEF Inv, Types, Plain
  <2> QED
    BY <1>1, <1>3, <1>4, <1>6, <1>7, <1>8, <1>9, <2>1, AnyStep DEF FileType

LEMMA SlurpStep ==
    ASSUME Inv, NEW p \in Processes, Slurp(p)
    PROVE  Inv'
<1> DEFINE c == calls[p]
           freed == [c EXCEPT !.file = 0]
           none == [freed EXCEPT !.read = Nothing]
           fs == Closed(files, p)
           missed == Plain = 0 \/ files[Plain].content = Torn
           d == IF missed THEN AfterRead(none, Nothing)
                ELSE [freed EXCEPT !.at = "check", !.read = files[Plain].content]
<1>1. /\ c.at = "slurp" /\ UNCHANGED <<paths, now, made, store>>
      /\ Goes(p, d, FALSE) /\ files' = Kept(fs, paths, calls')
  BY DEF Slurp, Plain, ReadPath
<1>2. /\ c \in CallType /\ c.file \in Ids /\ c.op \in Readers
      /\ c.op = "increment" => c.part \in {"has", "get"}
      /\ Nothing \in c.seen \/ Plain = c.file
      /\ p \in files[c.file].readers
  BY <1>1 DEF Inv, Types, CallInv, CallOk, Locked, Holding
<1>3. Plain \in Ids \cup {0} /\ now \in Nat /\ store \in Entry /\ files \in [Ids -> FileType]
  BY DEF Inv, Types, Plain, Paths, Spellings, FileType
<1>4. /\ freed \in CallType /\ freed.file = 0 /\ freed.op = c.op /\ freed.part = c.part
      /\ freed.seen = c.seen
  BY <1>2 DEF CallType
<1> HIDE DEF freed
<1>5. /\ none \in CallType /\ none.op = c.op /\ none.part = c.part /\ none.seen = c.seen
  BY <1>4 DEF CallType
<1> HIDE DEF none
<1>6. /\ d \in CallType /\ d.file = 0 /\ d.op = c.op /\ d.seen = c.seen
      /\ ~missed => d.at = "check" /\ d.read = files[Plain].content /\ d.part = c.part
                      /\ files[Plain].content \in Payload
      /\ missed => d = AfterRead(none, Nothing)
  <2>1. CASE missed
    BY <1>3, <1>5, <2>1, AfterReadType
  <2>2. CASE ~missed
    <3>1. files[Plain].content \in Payload
      BY <1>3, <2>2 DEF FileType, Contents
    <3> QED
      BY <1>4, <2>2, <3>1 DEF CallType, Steps
  <2> QED
    BY <2>1, <2>2
<1> HIDE DEF d
<1>7. /\ calls' \in [Processes -> CallType] /\ Same(d, calls'[p])
      /\ Worth(store', now) \in calls'[p].seen
      /\ \A q \in Processes \ {p} : Keeps(q)
  BY <1>1, <1>2, <1>3, <1>6, GoesKeeps DEF Inv
<1>8. CallOk(p, calls'[p], Plain', files', now)
  <2>1. CASE missed
    <3>1. Nothing \in calls'[p].seen
      <4>1. CASE Nothing \in c.seen
        BY <1>6, <1>7, <4>1 DEF Same
      <4>2. CASE Plain = c.file
        <5>1. files[Plain].content = Torn /\ Plain # 0
          BY <1>2, <2>1, <4>2 DEF Ids
        <5>2. files[Plain].writer = Nobody
          BY <1>2, <4>2 DEF Inv, Locks
        <5>3. store = Nothing
          BY <5>1, <5>2 DEF Inv, Disk
        <5>4. Worth(store', now) = Nothing
          BY <1>1, <5>3 DEF Worth
        <5> QED
          BY <1>7, <5>4
      <4> QED
        BY <1>2, <4>1, <4>2
    <3> DEFINE e == calls'[p]
    <3>2. e \in CallType /\ Same(AfterRead(none, Nothing), e)
      BY <1>6, <1>7, <2>1
    <3> HIDE DEF e
    <3>3. Nothing \in e.seen
      BY <3>1 DEF e
    <3>4. CallOk(p, e, Plain', files', now)
      BY <1>2, <1>5, <3>2, <3>3, AfterReadOk
    <3> QED
      BY <3>4 DEF e
  <2>2. CASE ~missed
    <3>1. store = files[Plain].content
      BY <2>2 DEF Inv, Disk
    <3>2. Expired(d.read, now) \/ d.read.value \in calls'[p].seen
      BY <1>1, <1>6, <1>7, <2>2, <3>1, NamesAssumption DEF Worth, Payload
    <3> QED
      BY <1>2, <1>6, <1>7, <2>2, <3>2 DEF CallOk, Locked, Same, Holding
  <2> QED
    BY <2>1, <2>2
<1>9. /\ fs \in [Ids -> FileType] /\ files' \in [Ids -> FileType]
      /\ \A g \in Ids :
            /\ files'[g] = IF g \in InUse(paths, calls') THEN fs[g] ELSE NewFile
            /\ fs[g].content = files[g].content
            /\ fs[g].readers = files[g].readers \ {p}
            /\ fs[g].writer = files[g].writer
  <2>1. \A g \in Ids : files[g].writer # p
    BY <1>1, WritersFill
  <2> QED
    BY <1>1, <1>3, <2>1, ClosedType, KeptType
<1> HIDE DEF fs
<1>10. \A q \in Processes \ {p} : calls[q].file \in Ids => calls[q].file \in InUse(paths, calls')
  BY <1>7, OthersInUse
<1>11. ASSUME NEW q \in Processes \ {p}
       PROVE  Locked(q, calls[q], files')
  <2>1. CallOk(q, calls[q], Plain, files, now)
    BY DEF Inv, CallInv
  <2>2. calls[q].at \in {"slurp", "fill"} => calls[q].file \in Ids
    BY <2>1 DEF CallOk, Holding
  <2> QED
    BY <1>9, <1>10, <2>1, <2>2 DEF CallOk, Locked
<1>12. Locks'
  <2> SUFFICES ASSUME NEW g \in Ids, files'[g].writer # Nobody
               PROVE  /\ files'[g].readers = {}
                      /\ calls'[files'[g].writer].at = "fill" /\ calls'[files'[g].writer].file = g
    BY DEF Locks
  <2>1. files'[g] = fs[g] /\ files[g].writer # Nobody /\ files[g].writer # p
    BY <1>1, <1>9, WritersFill DEF NewFile
  <2> QED
    BY <1>7, <1>9, <2>1, WritersKeep
<1>13. Disk'
  <2>1. Plain' = Plain /\ Plain \in InUse(paths, calls')
    BY <1>1 DEF Plain, InUse, Paths, Spellings
  <2>2. Plain # 0 => files'[Plain].content = files[Plain].content
                     /\ files'[Plain].writer = files[Plain].writer
    BY <1>3, <1>9, <2>1
  <2> QED
    BY <1>1, <1>9, <2>1, <2>2 DEF Inv, Disk
<1> QED
  <2>1. /\ made' \in Nat /\ store' \in Entry /\ paths' \in [Paths -> Ids \cup {0}]
        /\ Plain' = Plain /\ now' = now
    BY <1>1 DEF Inv, Types, Plain
  <2> QED
    BY <1>1, <1>6, <1>8, <1>9, <1>11, <1>12, <1>13, <2>1, AnyStep DEF FileType

LEMMA CreateStep ==
    ASSUME Inv, NEW p \in Processes, Create(p)
    PROVE  Inv'
<1> DEFINE c == calls[p]
           f == IF paths[c.path] = 0 THEN NewId ELSE paths[c.path]
           d == [c EXCEPT !.at = "lock", !.file = f]
<1>1. /\ c.at = "create" /\ (paths[c.path] = 0 => Free # {})
      /\ paths' = [paths EXCEPT ![c.path] = f]
      /\ UNCHANGED <<files, now, made, store>> /\ Goes(p, d, TRUE)
  BY DEF Create
<1>2. /\ c \in CallType /\ c.path \in Paths /\ c.file = 0 /\ c.op \in {"set", "increment"}
      /\ paths \in [Paths -> Ids \cup {0}]
  BY <1>1 DEF Inv, Types, CallInv, CallOk, Holding, CallType
<1>3. /\ f \in Ids
      /\ paths[c.path] = 0 => f \notin InUse(paths, calls)
      /\ paths[c.path] # 0 => f = paths[c.path]
  <2>1. CASE paths[c.path] = 0
    <3>1. NewId \in Free
      BY <1>1, <2>1 DEF NewId
    <3> QED
      BY <2>1, <3>1 DEF Free
  <2>2. CASE paths[c.path] # 0
    BY <1>2, <2>2
  <2> QED
    BY <2>1, <2>2
<1> HIDE DEF f
<1>4. /\ d \in CallType /\ d.at = "lock" /\ d.file = f /\ d.op = c.op
      /\ d.op = "increment" => d.part = "write"
  BY <1>1, <1>2, <1>3 DEF CallType, Steps, Inv, CallInv, CallOk
<1> HIDE DEF d
<1>5. Same(d, calls'[p]) /\ \A q \in Processes \ {p} : Keeps(q)
  BY <1>1, <1>4, GoesKeeps DEF Inv, Types
<1>6. CallOk(p, calls'[p], Plain', files', now)
  BY <1>2, <1>3, <1>4, <1>5 DEF CallOk, Locked, Same, Holding, Readers
<1>7. ASSUME NEW q \in Processes \ {p}
      PROVE  Locked(q, calls[q], files')
  BY <1>1 DEF Inv, CallInv, CallOk, Locked
<1>8. Locks'
  <2>1. \A g \in Ids : files[g].writer # p
    BY <1>1, WritersFill
  <2> QED
    BY <1>1, <1>5, <2>1, WritersKeep DEF Locks
<1>9. Plain' = Plain \/ (Plain = 0 /\ Plain' = f /\ files[f] = NewFile)
  <2>1. CASE paths[c.path] # 0 \/ c.path # "plain"
    BY <1>1, <1>2, <1>3, <2>1 DEF Plain, Paths, Spellings
  <2>2. CASE paths[c.path] = 0 /\ c.path = "plain"
    BY <1>1, <1>2, <1>3, <2>2 DEF Plain, Inv, Disk
  <2> QED
    BY <2>1, <2>2
<1>10. Disk'
  <2>1. \A g \in Ids : g \in InUse(paths, calls) => g \in InUse(paths', calls')
    <3>1. \A q \in Processes : calls[q].file \in Ids => calls'[q].file = calls[q].file
      BY <1>2, <1>5, FilesKept DEF Ids
    <3>2. \A x \in Paths : paths[x] \in Ids => paths'[x] = paths[x]
      BY <1>1, <1>2, <1>3 DEF Ids
    <3> QED
      BY <3>1, <3>2, InUseGrows
  <2>2. CASE Plain' = Plain
    BY <1>1, <2>1, <2>2 DEF Inv, Disk
  <2>3. CASE Plain = 0 /\ Plain' = f /\ files[f] = NewFile
    <3>1. store = Nothing /\ files[f].content = Torn
      BY <2>3 DEF Inv, Disk, NewFile
    <3> QED
      BY <1>1, <2>1, <2>3, <3>1 DEF Inv, Disk
  <2> QED
    BY <1>9, <2>2, <2>3
<1> QED
  <2>1. /\ made' \in Nat /\ store' \in Entry /\ paths' \in [Paths -> Ids \cup {0}]
        /\ files' \in [Ids -> [content : Contents, readers : SUBSET Processes,
                              writer : Processes \cup {Nobody}]]
    BY <1>1, <1>2, <1>3 DEF Inv, Types
  <2>2. Plain' = Plain \/ Plain = 0 \/ store' = Nothing
    BY <1>9
  <2> QED
    BY <1>1, <1>4, <1>6, <1>7, <1>8, <1>10, <2>1, <2>2, AnyStep

LEMMA LockAndTruncateStep ==
    ASSUME Inv, NEW p \in Processes, LockAndTruncate(p)
    PROVE  Inv'
<1> DEFINE c == calls[p]
           f == c.file
           d == [c EXCEPT !.at = "fill"]
<1>1. /\ c.at = "lock" /\ files[f].writer = Nobody /\ files[f].readers = {}
      /\ files' = [files EXCEPT ![f].writer = p, ![f].content = Torn]
      /\ UNCHANGED <<paths, now, made, store>> /\ Goes(p, d, TRUE)
  BY DEF LockAndTruncate
<1>2. c \in CallType /\ f \in Ids /\ c.op \in {"set", "increment"}
  BY <1>1 DEF Inv, Types, CallInv, CallOk, Holding
<1>3. /\ d \in CallType /\ d.at = "fill" /\ d.file = f /\ d.op = c.op
      /\ d.op = "increment" => d.part = "write"
  BY <1>1, <1>2 DEF CallType, Steps, Inv, CallInv, CallOk
<1> HIDE DEF d
<1>4. /\ files \in [Ids -> FileType] /\ files' \in [Ids -> FileType]
      /\ files'[f].readers = {} /\ files'[f].writer = p /\ files'[f].content = Torn
      /\ \A g \in Ids \ {f} : files'[g] = files[g]
  BY <1>1, <1>2 DEF Inv, Types, FileType, Contents
<1>5. Same(d, calls'[p]) /\ \A q \in Processes \ {p} : Keeps(q)
  BY <1>1, <1>3, GoesKeeps DEF Inv, Types
<1>6. CallOk(p, calls'[p], Plain', files', now)
  BY <1>2, <1>3, <1>4, <1>5 DEF CallOk, Locked, Same, Holding, Readers
<1>7. ASSUME NEW q \in Processes \ {p}
      PROVE  Locked(q, calls[q], files')
  <2>1. CallOk(q, calls[q], Plain, files, now)
    BY DEF Inv, CallInv
  <2>2. calls[q].at \in {"slurp", "fill"} => calls[q].file \in Ids /\ calls[q].file # f
    BY <1>1, <2>1, NamesAssumption DEF CallOk, Locked, Holding
  <2> QED
    BY <1>4, <2>1, <2>2 DEF CallOk, Locked
<1>8. Locks'
  <2> SUFFICES ASSUME NEW g \in Ids, files'[g].writer # Nobody
               PROVE  /\ files'[g].readers = {}
                      /\ calls'[files'[g].writer].at = "fill" /\ calls'[files'[g].writer].file = g
    BY DEF Locks
  <2>1. CASE g = f
    BY <1>3, <1>4, <1>5, <2>1 DEF Same
  <2>2. CASE g # f
    <3>1. files[g].writer # p
      BY <1>1, WritersFill
    <3> QED
      BY <1>4, <1>5, <2>2, <3>1, WritersKeep
  <2> QED
    BY <2>1, <2>2
<1>9. Disk'
  <2>1. \A g \in Ids : g \in InUse(paths, calls) => g \in InUse(paths', calls')
    <3>1. \A q \in Processes : calls[q].file \in Ids => calls'[q].file = calls[q].file
      BY <1>3, <1>5, FilesKept DEF Same
    <3> QED
      BY <1>1, <3>1, InUseGrows
  <2>2. f \in InUse(paths', calls')
    BY <1>3, <1>5 DEF InUse, Same
  <2>3. Plain' = Plain /\ Plain \in Ids \cup {0}
    BY <1>1 DEF Inv, Types, Plain, Paths, Spellings
  <2>4. p # Nobody
    BY NamesAssumption
  <2>5. /\ Plain' = 0 => store' = Nothing
        /\ Plain' # 0 /\ files'[Plain'].content # Torn => store' = files'[Plain'].content
        /\ Plain' # 0 /\ files'[Plain'].content = Torn /\ store' # Nothing =>
               files'[Plain'].writer # Nobody
    BY <1>1, <1>4, <2>3, <2>4 DEF Inv, Disk
  <2>6. \A g \in Ids : g \notin InUse(paths', calls') => files'[g] = NewFile
    BY <1>4, <2>1, <2>2 DEF Inv, Disk
  <2> QED
    BY <2>5, <2>6 DEF Disk
<1> QED
  <2>1. /\ made' \in Nat /\ store' \in Entry /\ paths' \in [Paths -> Ids \cup {0}]
        /\ Plain' = Plain /\ now' = now
    BY <1>1 DEF Inv, Types, Plain
  <2> QED
    BY <1>1, <1>3, <1>4, <1>6, <1>7, <1>8, <1>9, <2>1, AnyStep DEF FileType

\* What p closes, or what goes out of use, is of no concern to the others.
LEMMA LetGo ==
    ASSUME Inv, NEW p \in Processes, \A q \in Processes \ {p} : Keeps(q),
           NEW fs \in [Ids -> FileType], files' = Kept(fs, paths', calls'),
           \A g \in Ids :
               /\ fs[g].readers = files[g].readers \ {p}
               /\ fs[g].writer = IF files[g].writer = p THEN Nobody ELSE files[g].writer
               /\ files[g].writer # p => fs[g].content = files[g].content
    PROVE  /\ files' \in [Ids -> FileType]
           /\ \A g \in Ids : g \notin InUse(paths', calls') => files'[g] = NewFile
           /\ \A g \in Ids : g \in InUse(paths', calls') => files'[g] = fs[g]
           /\ \A q \in Processes \ {p} : Locked(q, calls[q], files')
           /\ Locks'
<1>1. /\ files' \in [Ids -> FileType]
      /\ \A g \in Ids : files'[g] = IF g \in InUse(paths', calls') THEN fs[g] ELSE NewFile
  BY KeptType
<1>2. ASSUME NEW q \in Processes \ {p}
      PROVE  Locked(q, calls[q], files')
  <2>1. CallOk(q, calls[q], Plain, files, now)
    BY DEF Inv, CallInv
  <2>2. calls[q].at \in {"slurp", "fill"} =>
            calls[q].file \in Ids /\ files'[calls[q].file] = fs[calls[q].file]
    BY <1>1, <2>1, OthersInUse DEF CallOk, Holding
  <2> QED
    BY <2>1, <2>2 DEF CallOk, Locked
<1>3. Locks'
  <2> SUFFICES ASSUME NEW g \in Ids, files'[g].writer # Nobody
               PROVE  /\ files'[g].readers = {}
                      /\ calls'[files'[g].writer].at = "fill" /\ calls'[files'[g].writer].file = g
    BY DEF Locks
  <2>1. files'[g] = fs[g] /\ files[g].writer \notin {Nobody, p}
    BY <1>1 DEF NewFile
  <2> QED
    BY <2>1, WritersKeep
<1> QED
  BY <1>1, <1>2, <1>3

LEMMA FillStep ==
    ASSUME Inv, NEW p \in Processes, Fill(p)
    PROVE  Inv'
<1> DEFINE c == calls[p]
           f == c.file
           d == Ends(c, TRUE)
           written == [files EXCEPT ![f].content = c.payload]
           fs == Closed(written, p)
<1>1. /\ c.at = "fill" /\ store' = (IF Plain = f THEN c.payload ELSE store)
      /\ UNCHANGED <<paths, now, made>> /\ Goes(p, d, TRUE)
      /\ files' = Kept(fs, paths', calls')
  BY DEF Fill, Plain, ReadPath
<1>2. /\ c \in CallType /\ f \in Ids /\ c.op \in {"set", "increment"} /\ c.payload \in Payload
      /\ files[f].writer = p
  BY <1>1 DEF Inv, Types, CallInv, CallOk, Locked, Holding, CallType
<1>3. d \in CallType /\ d.at = "done" /\ d.file = 0 /\ d.op = c.op /\ d.ok = TRUE
  BY <1>2 DEF CallType, Steps, Ends
<1> HIDE DEF d
<1>4. /\ files \in [Ids -> FileType] /\ written \in [Ids -> FileType]
      /\ written[f].content = c.payload
      /\ \A g \in Ids : written[g].readers = files[g].readers /\ written[g].writer = files[g].writer
      /\ \A g \in Ids \ {f} : written[g] = files[g]
  BY <1>2 DEF Inv, Types, FileType, Contents
<1> HIDE DEF written
<1>5. /\ fs \in [Ids -> FileType] /\ fs[f].content = c.payload
      /\ \A g \in Ids :
            /\ fs[g].readers = files[g].readers \ {p}
            /\ fs[g].writer = IF files[g].writer = p THEN Nobody ELSE files[g].writer
            /\ files[g].writer # p => fs[g].content = files[g].content
  BY <1>2, <1>4, ClosedType
<1> HIDE DEF fs
<1>6. store' \in Entry
  BY <1>1, <1>2 DEF Inv, Types, Entry
<1>7. Same(d, calls'[p]) /\ \A q \in Processes \ {p} : Keeps(q)
  BY <1>1, <1>3, <1>6, GoesKeeps DEF Inv
<1>8. CallOk(p, calls'[p], Plain', files', now)
  BY <1>2, <1>3, <1>7 DEF CallOk, Locked, Same, Holding, Readers
<1>9. /\ files' \in [Ids -> FileType]
      /\ \A g \in Ids : g \notin InUse(paths', calls') => files'[g] = NewFile
      /\ \A g \in Ids : g \in InUse(paths', calls') => files'[g] = fs[g]
      /\ \A q \in Processes \ {p} : Locked(q, calls[q], files')
      /\ Locks'
  BY <1>1, <1>5, <1>7, LetGo
<1>10. Plain' = Plain /\ Plain \in Ids \cup {0} /\ Plain \in InUse(paths', calls')
  BY <1>1 DEF Inv, Types, Plain, Paths, Spellings, InUse
<1>11. Disk'
  <2>1. CASE Plain = f
    <3>1. files'[Plain'].content = c.payload /\ store' = c.payload /\ c.payload # Torn /\ Plain' # 0
      BY <1>1, <1>2, <1>5, <1>9, <1>10, <2>1, NamesAssumption DEF Payload, Ids
    <3> QED
      BY <1>9, <3>1 DEF Disk
  <2>2. CASE Plain # f
    <3>1. Plain # 0 => files[Plain].writer # p
      BY <1>10, <2>2, NamesAssumption DEF Inv, Locks
    <3>2. Plain # 0 => files'[Plain].content = files[Plain].content
                       /\ files'[Plain].writer = files[Plain].writer
      BY <1>5, <1>9, <1>10, <3>1
    <3> QED
      BY <1>1, <1>9, <1>10, <2>2, <3>2 DEF Inv, Disk
  <2> QED
    BY <2>1, <2>2
<1> QED
  <2>1. /\ made' \in Nat /\ paths' \in [Paths -> Ids \cup {0}] /\ now' = now
    BY <1>1 DEF Inv, Types
  <2> QED
    BY <1>1, <1>3, <1>6, <1>8, <1>9, <1>10, <1>11, <2>1, AnyStep DEF FileType

LEMMA UnlinkStep ==
    ASSUME Inv, NEW p \in Processes, NEW x \in Paths, NEW d \in CallType,
           calls[p].at = "unlink", Unlink(p, x, d),
           d.at \in {"done", "look"}, d.file = 0,
           d.at = "look" => d.op = "clear",
           d.at = "done" => d.op = "delete" /\ x = "plain" /\ (d.ok => d.op # "get")
    PROVE  Inv'
<1> DEFINE c == calls[p]
<1>1. /\ paths' = [paths EXCEPT ![x] = 0]
      /\ store' = (IF x = "plain" THEN Nothing ELSE store)
      /\ Goes(p, d, paths[x] # 0) /\ UNCHANGED <<now, made>>
      /\ files' = Kept(files, paths', calls')
  BY DEF Unlink, ReadPath
<1>2. /\ c \in CallType /\ c.file = 0 /\ files \in [Ids -> FileType]
      /\ paths \in [Paths -> Ids \cup {0}]
  BY DEF Inv, Types, CallInv, CallOk, Holding, FileType
<1>3. store' \in Entry
  BY <1>1 DEF Inv, Types, Entry
<1>4. /\ Same(d, calls'[p]) /\ \A q \in Processes \ {p} : Keeps(q)
      /\ d.op \in Readers => Worth(store', now) \in calls'[p].seen
  BY <1>1, <1>3, GoesKeeps DEF Inv
<1>5. CallOk(p, calls'[p], Plain', files', now)
  <2>1. CASE d.at = "look"
    BY <1>4, <2>1 DEF CallOk, Locked, Same, Holding, Readers
  <2>2. CASE d.at = "done"
    <3>1. Nothing \in calls'[p].seen
      BY <1>1, <1>4, <2>2 DEF Worth, Readers
    <3> QED
      BY <1>4, <2>2, <3>1 DEF CallOk, Locked, Same, Holding, Readers
  <2> QED
    BY <2>1, <2>2
<1>6. \A g \in Ids : files[g].writer # p
  BY WritersFill
<1>7. /\ files' \in [Ids -> FileType]
      /\ \A g \in Ids : files'[g] = IF g \in InUse(paths', calls') THEN files[g] ELSE NewFile
  BY <1>1, <1>2, KeptType
<1>8. ASSUME NEW q \in Processes \ {p}
      PROVE  Locked(q, calls[q], files')
  <2>1. CallOk(q, calls[q], Plain, files, now)
    BY DEF Inv, CallInv
  <2>2. calls[q].at \in {"slurp", "fill"} =>
            calls[q].file \in Ids /\ files'[calls[q].file] = files[calls[q].file]
    BY <1>4, <1>7, <2>1, OthersInUse DEF CallOk, Holding
  <2> QED
    BY <2>1, <2>2 DEF CallOk, Locked
<1>9. Locks'
  <2> SUFFICES ASSUME NEW g \in Ids, files'[g].writer # Nobody
               PROVE  /\ files'[g].readers = {}
                      /\ calls'[files'[g].writer].at = "fill" /\ calls'[files'[g].writer].file = g
    BY DEF Locks
  <2>1. files'[g] = files[g] /\ files[g].writer \notin {Nobody, p}
    BY <1>6, <1>7 DEF NewFile
  <2> QED
    BY <1>4, <2>1, WritersKeep
<1>10. /\ Plain' = (IF x = "plain" THEN 0 ELSE Plain) /\ Plain \in Ids \cup {0}
       /\ Plain' \in InUse(paths', calls')
  BY <1>1, <1>2 DEF Plain, InUse, Paths, Spellings
<1>11. Disk'
  <2>1. CASE x = "plain"
    BY <1>1, <1>7, <1>10, <2>1 DEF Disk
  <2>2. CASE x # "plain"
    <3>1. Plain # 0 => files'[Plain] = files[Plain]
      BY <1>7, <1>10, <2>2
    <3> QED
      BY <1>1, <1>7, <1>10, <2>2, <3>1 DEF Inv, Disk
  <2> QED
    BY <2>1, <2>2
<1> QED
  <2>1. made' \in Nat /\ paths' \in [Paths -> Ids \cup {0}] /\ now' = now
    BY <1>1, <1>2 DEF Inv, Types
  <2>2. Plain' = Plain \/ store' = Nothing
    BY <1>1, <1>10
  <2>3. (paths[x] # 0) \in BOOLEAN
    OBVIOUS
  <2> QED
    BY <1>1, <1>3, <1>5, <1>7, <1>8, <1>9, <1>11, <2>1, <2>2, <2>3, AnyStep DEF FileType

LEMMA DeleteStep ==
    ASSUME Inv, NEW p \in Processes, Delete(p)
    PROVE  Inv'
<1> DEFINE c == calls[p]
           ok == paths["plain"] # 0
           d == Ends(c, ok)
<1>1. c.at = "unlink" /\ c.op = "delete" /\ Unlink(p, "plain", d) /\ c \in CallType
  BY DEF Delete, ReadPath, Inv, Types
<1>2. ok \in BOOLEAN
  OBVIOUS
<1> HIDE DEF ok
<1>3. d \in CallType /\ d.at = "done" /\ d.file = 0 /\ d.op = "delete"
  BY <1>1, <1>2 DEF CallType, Steps, Ends
<1> HIDE DEF d
<1>4. "plain" \in Paths
  BY DEF Paths, Spellings
<1> QED
  BY <1>1, <1>3, <1>4, UnlinkStep

LEMMA ClearOneStep ==
    ASSUME Inv, NEW p \in Processes, ClearOne(p)
    PROVE  Inv'
<1> DEFINE c == calls[p]
           there == paths[c.path] # 0
           ok == c.ok /\ there
           d == [c EXCEPT !.at = "look", !.listed = @ \ {c.path}, !.ok = ok]
<1>1. /\ c.at = "unlink" /\ c.op = "clear" /\ Unlink(p, c.path, d)
      /\ c \in CallType /\ c.file = 0 /\ c.path \in Paths
  BY DEF ClearOne, Inv, Types, CallInv, CallOk, Holding, CallType
<1>2. ok \in BOOLEAN
  OBVIOUS
<1> HIDE DEF ok
<1>3. d \in CallType /\ d.at = "look" /\ d.file = 0 /\ d.op = "clear"
  BY <1>1, <1>2 DEF CallType, Steps
<1> HIDE DEF d
<1> QED
  BY <1>1, <1>3, UnlinkStep

\* A process gives up its call, which may leave a file torn.
LEMMA GivesUpStep ==
    ASSUME Inv, NEW p \in Processes, NEW d \in CallType,
           d.at \in {"done", "dead"}, d.file = 0, d.op \in Readers => ~d.ok /\ d.part = "write",
           store' = (IF calls[p].at = "fill" /\ Plain = calls[p].file THEN Nothing ELSE store),
           UNCHANGED <<paths, now, made>>, Goes(p, d, calls[p].at = "fill"),
           files' = Kept(Closed(files, p), paths', calls')
    PROVE  Inv'
<1> DEFINE c == calls[p]
           fs == Closed(files, p)
           torn == c.at = "fill"
<1>1. /\ store' = (IF c.at = "fill" /\ Plain = c.file THEN Nothing ELSE store)
      /\ UNCHANGED <<paths, now, made>> /\ Goes(p, d, torn)
      /\ files' = Kept(fs, paths', calls')
  OBVIOUS
<1>2. torn \in BOOLEAN
  OBVIOUS
<1> HIDE DEF torn
<1>3. files \in [Ids -> FileType] /\ store' \in Entry
  BY <1>1 DEF Inv, Types, Entry, FileType
<1>4. /\ fs \in [Ids -> FileType]
      /\ \A g \in Ids :
            /\ fs[g].readers = files[g].readers \ {p}
            /\ fs[g].writer = IF files[g].writer = p THEN Nobody ELSE files[g].writer
            /\ fs[g].content = files[g].content
  BY <1>3, ClosedType
<1> HIDE DEF fs
<1>5. Same(d, calls'[p]) /\ \A q \in Processes \ {p} : Keeps(q)
  BY <1>1, <1>2, <1>3, GoesKeeps DEF Inv
<1>6. CallOk(p, calls'[p], Plain', files', now)
  BY <1>2, <1>5 DEF CallOk, Locked, Same, Holding, Readers
<1>7. /\ files' \in [Ids -> FileType]
      /\ \A g \in Ids : g \notin InUse(paths', calls') => files'[g] = NewFile
      /\ \A g \in Ids : g \in InUse(paths', calls') => files'[g] = fs[g]
      /\ \A q \in Processes \ {p} : Locked(q, calls[q], files')
      /\ Locks'
  BY <1>1, <1>4, <1>5, LetGo
<1>8. Plain' = Plain /\ Plain \in Ids \cup {0} /\ Plain \in InUse(paths', calls')
  BY <1>1 DEF Inv, Types, Plain, Paths, Spellings, InUse
<1>9. Disk'
  <2>1. Plain # 0 => files'[Plain].content = files[Plain].content
    BY <1>4, <1>7, <1>8
  <2>2. CASE c.at = "fill" /\ Plain = c.file
    <3>1. files[Plain].content = Torn /\ store' = Nothing
      BY <1>1, <2>2 DEF Inv, CallInv, CallOk, Locked
    <3> QED
      BY <1>7, <1>8, <2>1, <3>1 DEF Disk
  <2>3. CASE ~(c.at = "fill" /\ Plain = c.file)
    <3>1. Plain # 0 => files[Plain].writer # p
      BY <1>8, <2>3, NamesAssumption DEF Inv, Locks
    <3>2. Plain # 0 => files'[Plain].writer = files[Plain].writer
      BY <1>4, <1>7, <1>8, <3>1
    <3> QED
      BY <1>1, <1>7, <1>8, <2>1, <2>3, <3>2 DEF Inv, Disk
  <2> QED
    BY <2>2, <2>3
<1> QED
  <2>1. /\ made' \in Nat /\ paths' \in [Paths -> Ids \cup {0}] /\ now' = now
    BY <1>1 DEF Inv, Types
  <2> QED
    BY <1>1, <1>3, <1>6, <1>7, <1>8, <1>9, <2>1, AnyStep DEF FileType

LEMMA DieStep ==
    ASSUME Inv, NEW p \in Processes, Die(p)
    PROVE  Inv'
<1> DEFINE d == [NoCall EXCEPT !.at = "dead"]
<1>1. d \in CallType /\ d.at = "dead" /\ d.file = 0 /\ d.op = "none"
  BY NoCallType DEF NoCall, CallType, Steps
<1> HIDE DEF d
<1>2. /\ store' = (IF calls[p].at = "fill" /\ Plain = calls[p].file THEN Nothing ELSE store)
      /\ UNCHANGED <<paths, now, made>> /\ Goes(p, d, calls[p].at = "fill")
      /\ files' = Kept(Closed(files, p), paths', calls')
  BY DEF Die, Plain, ReadPath, d
<1> QED BY <1>1, <1>2, GivesUpStep DEF Readers

LEMMA WriteFailedStep ==
    ASSUME Inv, NEW p \in Processes, WriteFailed(p)
    PROVE  Inv'
<1> DEFINE c == calls[p]
           d == Ends(c, FALSE)
<1>1. /\ c \in CallType /\ c.op \in {"set", "increment"}
      /\ c.op = "increment" => c.part = "write"
  BY DEF WriteFailed, Inv, Types, CallInv, CallOk
<1>2. d \in CallType /\ d.at = "done" /\ d.file = 0 /\ d.op = c.op /\ d.part = c.part /\ ~d.ok
  BY <1>1 DEF CallType, Steps, Ends
<1> HIDE DEF d
<1>3. /\ store' = (IF c.at = "fill" /\ Plain = c.file THEN Nothing ELSE store)
      /\ UNCHANGED <<paths, now, made>> /\ Goes(p, d, c.at = "fill")
      /\ files' = Kept(Closed(files, p), paths', calls')
  BY DEF WriteFailed, Plain, ReadPath, d
<1> QED BY <1>1, <1>2, <1>3, GivesUpStep DEF Readers

LEMMA StartInv == Init => Inv
<1> SUFFICES ASSUME Init PROVE Inv
  OBVIOUS
<1>1. /\ now = 0 /\ made = 0 /\ calls = [p \in Processes |-> NoCall]
      /\ paths = [x \in Paths |-> IF x = "plain" /\ store # Nothing THEN 1 ELSE 0]
      /\ files = [f \in Ids |-> IF f = 1 /\ store # Nothing
                                THEN [NewFile EXCEPT !.content = store] ELSE NewFile]
  BY DEF Init, ReadPath
<1>2. store \in Entry
  BY <1>1, NumbersAssumption DEF Init, Stamped, Entry, Payload
<1>3. 1 \in Ids
  BY NumbersAssumption DEF Ids
<1>4. /\ files \in [Ids -> FileType]
      /\ \A f \in Ids : files[f].writer = Nobody
      /\ \A f \in Ids : f # 1 => files[f] = NewFile
      /\ store # Nothing => files[1].content = store
      /\ store = Nothing => files[1] = NewFile
  BY <1>1, <1>2, <1>3 DEF NewFile, FileType, Contents, Entry
<1>5. Types
  <2>1. paths \in [Paths -> Ids \cup {0}]
    BY <1>1, <1>3
  <2>2. calls \in [Processes -> CallType]
    BY <1>1, NoCallType
  <2> QED
    BY <1>1, <1>2, <1>4, <2>1, <2>2 DEF Types, FileType
<1>6. Locks
  BY <1>4 DEF Locks
<1>7. Disk
  <2>1. Plain = IF store # Nothing THEN 1 ELSE 0
    BY <1>1 DEF Plain, Paths, Spellings
  <2>2. \A f \in Ids : f \notin InUse(paths, calls) => files[f] = NewFile
    BY <1>4, <2>1 DEF InUse, Plain, Paths, Spellings
  <2>3. store # Nothing => store # Torn
    BY <1>2, NamesAssumption DEF Entry, Payload
  <2> QED
    BY <1>4, <2>1, <2>2, <2>3 DEF Disk
<1>8. ASSUME NEW p \in Processes PROVE CallInv(p)
  BY <1>1 DEF CallInv, CallOk, Locked, NoCall, Holding, Readers
<1> QED
  BY <1>5, <1>6, <1>7, <1>8 DEF Inv

LEMMA InvStep == Inv /\ [Next]_vars => Inv'
<1> SUFFICES ASSUME Inv, [Next]_vars PROVE Inv'
  OBVIOUS
<1>1. CASE UNCHANGED vars
  BY <1>1 DEF vars, Inv, Types, Locks, Disk, CallInv, Plain
<1>2. ASSUME NEW p \in Processes, NEW op \in Operations \ {"set"}, NEW s \in Spellings,
             Call(p, op, s, 0, 0)
      PROVE  Inv'
  BY <1>2, CallStep
<1>3. ASSUME NEW p \in Processes, NEW s \in Spellings, NEW v \in Values, NEW t \in Ttls,
             Call(p, "set", s, v, t)
      PROVE  Inv'
  <2>1. v \in Nat /\ t \in Nat /\ "set" \in Operations
    BY NumbersAssumption DEF Operations
  <2> QED
    BY <1>3, <2>1, CallStep
<1>4. ASSUME NEW p \in Processes, FileStep(p)
      PROVE  Inv'
  BY <1>4, OpenStep, LockSharedStep, SlurpStep, CheckStep, CreateStep, LockAndTruncateStep,
     FillStep, DeleteStep, ListStep, LookStep, ClearOneStep DEF FileStep
<1>5. ASSUME NEW p \in Processes, Die(p)
      PROVE  Inv'
  BY <1>5, DieStep
<1>7. ASSUME NEW p \in Processes, WriteFailed(p)
      PROVE  Inv'
  BY <1>7, WriteFailedStep
<1>6. CASE Tick
  BY <1>6, TickStep
<1> QED
  BY <1>1, <1>2, <1>3, <1>4, <1>5, <1>6, <1>7 DEF Next

\* The types, and that locks exclude one another: a file that is being written
\* is read by nobody, and its writer is the process that has it open.
THEOREM TypeCorrect == Spec => []TypeOK
<1>1. Inv => TypeOK
  BY DEF Inv, Types, Locks, TypeOK, Entry, Contents
<1> QED
  BY <1>1, StartInv, InvStep, PTL DEF Spec

\* Whatever the processes do, in whatever order and whoever is killed, a
\* method of the Stream adapter answers what was true at some moment of the
\* call, or that what it read has run out.
THEOREM AnswersCorrect == Spec => []AnswersAreCurrent
<1>1. Inv => AnswersAreCurrent
  BY DEF Inv, CallInv, CallOk, AnswersAreCurrent, RanOut
<1> QED
  BY <1>1, StartInv, InvStep, PTL DEF Spec


----------------------------------------------------------------------------
(* A call nobody disturbs *)

Busy == Steps \ {"idle", "done", "dead"}
There(ps) == {x \in Paths : ps[x] # 0}

\* What such a call that is done has done.
AloneDone(c, ps, entry, time) ==
    /\ c.op = "set" /\ c.path = "plain" /\ c.ok => entry = c.payload
    /\ c.op = "delete" => (c.ok <=> c.before # Nothing) /\ Worth(entry, time) = Nothing
    /\ c.op = "increment" /\ c.path = "plain" =>
          /\ c.ok => c.before # Nothing /\ Worth(entry, time) = c.before + 1
          /\ ~c.ok => c.before = Nothing \/ c.part = "write"
    /\ c.op = "clear" => c.ok /\ \A x \in Paths : ps[x] = 0

\* While it is at it, what it found is what there is.
AloneAt(c, ps, entry, time) ==
    /\ c.at \notin {"idle", "dead"}
    /\ c.at \in Busy /\ c.op \in Readers => c.before = Worth(entry, time)
    /\ c.at \in {"share", "slurp"} => c.file = ps["plain"]
    /\ c.at = "check" => c.read = entry
    /\ c.op = "delete" /\ c.at = "unlink" => c.before # Nothing
    /\ c.op = "increment" /\ c.at \in Busy /\ c.part # "has" => c.before # Nothing
    /\ c.op = "increment" /\ c.at \in {"create", "lock", "fill"} =>
          /\ c.part = "write" /\ c.payload.value = c.before + 1
          /\ c.payload.created = time
    /\ c.at \in {"lock", "fill"} => c.file = ps[c.path]
    /\ c.op = "clear" /\ c.at \in {"look", "unlink"} => c.ok /\ c.listed = There(ps)
    /\ c.op = "clear" /\ c.at = "unlink" => c.path \in c.listed
    /\ c.at = "done" => AloneDone(c, ps, entry, time)
AloneOk(c, ps, entry, time) == c.alone => AloneAt(c, ps, entry, time)

AloneInv == \A p \in Processes : AloneOk(calls[p], paths, store, now)

\* d is c but for what it has seen.
Like(c, d) ==
    /\ d.op = c.op /\ d.at = c.at /\ d.part = c.part /\ d.payload = c.payload
    /\ d.path = c.path /\ d.listed = c.listed /\ d.file = c.file
    /\ d.read = c.read /\ d.found = c.found /\ d.ok = c.ok /\ (d.alone <=> c.alone)
    /\ c.alone /\ c.op \in Readers => d.before = c.before

LEMMA SeesLike ==
    ASSUME NEW c, c \in CallType, NEW e, e \in Entry, NEW t, t \in Nat
    PROVE  Like(c, Sees(c, e, t))
<1> DEFINE seen == IF c.op \in Readers THEN c.seen \cup {Worth(e, t)} ELSE c.seen
           before == IF c.alone /\ c.op \in Readers THEN c.before ELSE Nothing
<1>1. Sees(c, e, t) = [c EXCEPT !.seen = seen, !.before = before]
  BY DEF Sees
<1>2. c.alone /\ c.op \in Readers => before = c.before
  OBVIOUS
<1> HIDE DEF seen, before
<1> QED BY <1>1, <1>2 DEF CallType, Like

LEMMA LikeAlone ==
    ASSUME NEW c, NEW d, Like(c, d), NEW ps, NEW e, NEW t, AloneOk(c, ps, e, t)
    PROVE  AloneOk(d, ps, e, t)
<1> SUFFICES ASSUME d.alone PROVE AloneAt(d, ps, e, t)
  BY DEF AloneOk
<1>1. AloneAt(c, ps, e, t) /\ c.alone
  BY DEF AloneOk, Like
<1>2. AloneDone(c, ps, e, t) => AloneDone(d, ps, e, t)
  BY <1>1 DEF AloneDone, Like, Readers
<1> QED BY <1>1, <1>2 DEF AloneAt, Like, Readers

\* The calls after a step of p that says whether it changed a file.
LEMMA GoesAlone ==
    ASSUME Inv, AloneInv, NEW p, p \in Processes, NEW d, d \in CallType,
           NEW changed, changed \in BOOLEAN, Goes(p, d, changed), now' = now,
           store' \in Entry, ~changed => paths' = paths /\ store' = store,
           AloneOk(d, paths', store', now)
    PROVE  AloneInv'
<1>1. now \in Nat /\ store' \in Entry
  BY DEF Inv, Types
<1>2. AloneOk(calls'[p], paths', store', now)
  <2>1. calls'[p] = Sees(d, store', now)
    BY DEF Goes
  <2>2. Like(d, calls'[p])
    BY <1>1, <2>1, SeesLike
  <2> QED BY <2>2, LikeAlone
<1>3. ASSUME NEW q \in Processes, q # p
      PROVE  AloneOk(calls'[q], paths', store', now)
  <2> DEFINE e == Beside(q, changed)
             f == calls'[q]
  <2>1. calls[q] \in CallType /\ AloneOk(calls[q], paths, store, now)
    BY DEF Inv, Types, AloneInv
  <2>2. CASE Active(q)
    <3>1. f = Sees(e, store', now)
      BY <1>3, <2>2 DEF Goes
    <3>2. e \in CallType
      BY <2>1, BesideType
    <3>3. AloneOk(e, paths', store', now)
      <4>1. CASE changed
        <5>1. e.alone = FALSE
          BY <2>1, <4>1 DEF Beside, CallType
        <5> QED BY <5>1 DEF AloneOk
      <4>2. CASE ~changed
        <5>1. e = calls[q]
          BY <2>1, <4>2 DEF Beside, CallType
        <5> QED BY <2>1, <4>2, <5>1
      <4> QED BY <4>1, <4>2
    <3> HIDE DEF e
    <3>4. Like(e, f)
      BY <1>1, <3>1, <3>2, SeesLike
    <3> HIDE DEF f
    <3>5. AloneOk(f, paths', store', now)
      BY <3>3, <3>4, LikeAlone
    <3> QED BY <3>5 DEF f
  <2>3. CASE ~Active(q)
    <3>1. f = Returned(q)
      BY <1>3, <2>3 DEF Goes
    <3>2. NoCall.alone = FALSE
      BY DEF NoCall
    <3>3. CASE calls[q].at = "done"
      BY <3>1, <3>2, <3>3 DEF Returned, AloneOk
    <3>4. CASE calls[q].at # "done"
      <4>1. ~calls[q].alone
        BY <2>1, <2>3, <3>4 DEF AloneOk, AloneAt, Active
      <4> QED BY <3>1, <3>4, <4>1 DEF Returned, AloneOk
    <3> QED BY <3>3, <3>4
  <2> QED BY <2>2, <2>3
<1> QED BY <1>2, <1>3 DEF AloneInv

LEMMA TickAlone ==
    ASSUME Inv, AloneInv, Tick
    PROVE  AloneInv'
<1>1. now' \in Nat /\ store' = store /\ store \in Entry
  BY DEF Tick, Inv, Types
<1> SUFFICES ASSUME NEW q \in Processes PROVE AloneOk(calls'[q], paths', store', now')
  BY DEF AloneInv
<1> DEFINE e == Beside(q, TRUE)
           f == calls'[q]
<1>2. calls[q] \in CallType /\ AloneOk(calls[q], paths, store, now)
  BY DEF Inv, Types, AloneInv
<1>3. CASE Active(q)
  <2>1. f = Sees(e, store, now')
    BY <1>3 DEF Tick
  <2>2. e \in CallType /\ e.alone = FALSE
    BY <1>2, BesideType DEF Beside, CallType
  <2> HIDE DEF e
  <2>3. Like(e, f)
    BY <1>1, <2>1, <2>2, SeesLike
  <2> QED BY <2>2, <2>3 DEF Like, AloneOk
<1>4. CASE ~Active(q)
  <2>1. f = Returned(q)
    BY <1>4 DEF Tick
  <2>2. NoCall.alone = FALSE
    BY DEF NoCall
  <2>3. calls[q].at # "done" => ~calls[q].alone
    BY <1>2, <1>4 DEF AloneOk, AloneAt, Active
  <2> QED BY <2>1, <2>2, <2>3 DEF Returned, AloneOk
<1> QED BY <1>3, <1>4

\* Where a read leads a call that has found what there is.
LEMMA AfterReadAlone ==
    ASSUME Inv, NEW c, c \in CallType, NEW found, found \in Nat \cup {Nothing},
           c.op \in Readers, c.op = "increment" => c.part \in {"has", "get"},
           c.alone => /\ c.before = found /\ found = Worth(store, now)
                      /\ c.op = "increment" /\ c.part = "get" => found # Nothing
    PROVE  AloneOk(AfterRead(c, found), paths, store, now)
<1> DEFINE d == [c EXCEPT !.file = 0, !.found = found,
                          !.read = IF found = Nothing THEN @ ELSE Nothing]
           sum == Stamped((IF found = Nothing THEN 0 ELSE found) + 1, Lifetime)
           e == AfterRead(c, found)
           w == Worth(store, now)
<1> SUFFICES ASSUME e.alone PROVE AloneAt(e, paths, store, now)
  BY DEF AloneOk
<1>1. /\ d \in CallType /\ d.op = c.op /\ d.part = c.part
      /\ d.before = c.before /\ (d.alone <=> c.alone)
  BY DEF CallType
<1>2. sum.value = (IF found = Nothing THEN 0 ELSE found) + 1 /\ sum.created = now
  BY DEF Stamped
<1> HIDE DEF d, sum, w
<1>3. CASE c.op = "get"
  <2>1. e = [d EXCEPT !.at = "done", !.file = 0, !.ok = (found # Nothing)]
    BY <1>3 DEF AfterRead, d, Ends
  <2> HIDE DEF e
  <2>2. e.at = "done" /\ e.op = "get"
    BY <1>1, <1>3, <2>1 DEF CallType
  <2> QED BY <2>2 DEF AloneAt, AloneDone, Busy, Readers
<1>4. CASE c.op = "delete" /\ found # Nothing
  <2>1. e = [d EXCEPT !.at = "unlink"]
    BY <1>4 DEF AfterRead, d
  <2> HIDE DEF e
  <2>2. /\ e.at = "unlink" /\ e.op = "delete" /\ c.alone /\ e.before = found /\ found = w
    BY <1>1, <1>4, <2>1 DEF CallType, w
  <2> QED BY <1>4, <2>2 DEF AloneAt, w
<1>5. CASE c.op = "increment" /\ c.part = "get"
  <2>1. e = [d EXCEPT !.at = "create", !.part = "write", !.payload = sum]
    BY <1>5 DEF AfterRead, d, sum
  <2> HIDE DEF e
  <2>2. /\ e.at = "create" /\ e.op = "increment" /\ c.alone /\ e.before = found /\ found = w
        /\ found # Nothing /\ e.part = "write" /\ e.payload = sum
    BY <1>1, <1>5, <2>1 DEF CallType, w
  <2> QED BY <1>2, <2>2 DEF AloneAt, w
<1>6. CASE c.op = "increment" /\ c.part = "has" /\ found # Nothing
  <2>1. e = [d EXCEPT !.at = "open", !.part = "get"]
    BY <1>6 DEF AfterRead, d
  <2> HIDE DEF e
  <2>2. /\ e.at = "open" /\ e.op = "increment" /\ c.alone /\ e.before = found /\ found = w
        /\ e.part = "get"
    BY <1>1, <1>6, <2>1 DEF CallType, w
  <2> QED BY <1>6, <2>2 DEF AloneAt, w
<1>7. CASE ~ \/ c.op = "get"
             \/ c.op = "delete" /\ found # Nothing
             \/ c.op = "increment" /\ c.part = "get"
             \/ c.op = "increment" /\ c.part = "has" /\ found # Nothing
  <2>1. e = [d EXCEPT !.at = "done", !.file = 0, !.ok = FALSE] /\ found = Nothing
    BY <1>7 DEF AfterRead, d, Ends, Readers
  <2> HIDE DEF e
  <2>2. /\ e.at = "done" /\ e.op \in {"delete", "increment"} /\ c.alone /\ e.before = found
        /\ found = w /\ ~e.ok
    BY <1>1, <1>7, <2>1 DEF CallType, w, Readers
  <2> QED BY <2>1, <2>2 DEF AloneAt, AloneDone, Busy, Readers, w
<1> QED
  BY <1>3, <1>4, <1>5, <1>6, <1>7

LEMMA CallAlone ==
    ASSUME Inv, AloneInv, NEW p \in Processes, NEW op \in Operations, NEW s \in Spellings,
           NEW v \in Nat, NEW t \in Nat, Call(p, op, s, v, t)
    PROVE  AloneInv'
<1> DEFINE w == Worth(store, now)
           alone == op # "get"
           start == [NoCall EXCEPT !.op = op, !.before = w, !.alone = alone]
           c == CASE op = "set" ->
                        [start EXCEPT !.at = "create", !.path = WritePath(s),
                                      !.payload = Stamped(v, t)]
                  [] op = "clear" -> [start EXCEPT !.at = "list"]
                  [] op = "increment" ->
                        [start EXCEPT !.at = "open", !.part = "has", !.path = WritePath(s)]
                  [] OTHER -> [start EXCEPT !.at = "open"]
<1>1. /\ UNCHANGED <<paths, files, now, store>> /\ Goes(p, c, FALSE)
  BY DEF Call
<1>2. /\ now \in Nat /\ store \in Entry /\ w \in Nat \cup {Nothing} /\ Stamped(v, t) \in Payload
  BY WorthType DEF Inv, Types, Stamped, Payload
<1> alone \in BOOLEAN
  OBVIOUS
<1> HIDE DEF w, alone
<1>3. start \in CallType /\ start.op = op /\ start.before = w
  BY <1>2, NoCallType DEF CallType
<1> HIDE DEF start
<1>4. /\ c \in CallType /\ c.op = op /\ c.before = w
      /\ op = "set" => c.at = "create"
      /\ op = "clear" => c.at = "list"
      /\ op = "increment" => c.at = "open" /\ c.part = "has"
      /\ op \in {"get", "delete"} => c.at = "open"
  <2>1. CASE op = "set"
    BY <1>2, <1>3, <2>1 DEF CallType, Steps, WritePath, Spellings, Paths
  <2>2. CASE op = "clear"
    BY <1>3, <2>2 DEF CallType, Steps
  <2>3. CASE op = "increment"
    BY <1>3, <2>3 DEF CallType, Steps, WritePath, Spellings, Paths
  <2>4. CASE op \in {"get", "delete"}
    BY <1>3, <2>4 DEF CallType, Steps
  <2> QED
    BY <2>1, <2>2, <2>3, <2>4 DEF Operations
<1> HIDE DEF c
<1>5. AloneOk(c, paths', store', now)
  BY <1>1, <1>4 DEF AloneOk, AloneAt, Busy, Readers, Operations, w
<1> QED
  BY <1>1, <1>2, <1>4, <1>5, GoesAlone

\* A step that changes calls alone.
LEMMA QuietAlone ==
    ASSUME Inv, AloneInv, NEW p, p \in Processes, NEW d, d \in CallType,
           Goes(p, d, FALSE), UNCHANGED <<paths, now, store>>,
           AloneOk(d, paths, store, now)
    PROVE  AloneInv'
<1>1. store' \in Entry /\ AloneOk(d, paths', store', now)
  BY DEF Inv, Types
<1> QED BY <1>1, GoesAlone

LEMMA OpenAlone ==
    ASSUME Inv, AloneInv, NEW p \in Processes, Open(p)
    PROVE  AloneInv'
<1> DEFINE c == calls[p]
           none == [c EXCEPT !.read = Nothing]
           d == IF Plain = 0 THEN AfterRead(none, Nothing)
                             ELSE [c EXCEPT !.at = "share", !.file = Plain]
<1>1. /\ c.at = "open" /\ UNCHANGED <<paths, now, store>> /\ Goes(p, d, FALSE)
  BY DEF Open, ReadPath, Plain
<1>2. /\ c \in CallType /\ c.op \in Readers /\ Plain \in Ids \cup {0}
      /\ c.op = "increment" => c.part \in {"has", "get"}
      /\ AloneOk(c, paths, store, now)
  BY <1>1 DEF Inv, Types, CallInv, CallOk, Holding, Paths, Spellings, Plain, AloneInv
<1>3. CASE Plain = 0
  <2>1. /\ none \in CallType /\ none.op = c.op /\ none.part = c.part /\ (none.alone <=> c.alone)
        /\ none.before = c.before /\ d = AfterRead(none, Nothing)
    BY <1>2, <1>3 DEF CallType
  <2> HIDE DEF none
  <2>2. d \in CallType
    BY <2>1, AfterReadType DEF Inv, Types
  <2>3. Worth(store, now) = Nothing
    BY <1>3 DEF Inv, Disk, Worth
  <2>4. c.alone => /\ c.before = Worth(store, now)
                   /\ c.op = "increment" /\ c.part = "get" => c.before # Nothing
    BY <1>1, <1>2 DEF AloneOk, AloneAt, Busy, Steps
  <2>5. AloneOk(AfterRead(none, Nothing), paths, store, now)
    BY <1>2, <2>1, <2>3, <2>4, AfterReadAlone
  <2> HIDE DEF d
  <2>6. AloneOk(d, paths, store, now)
    BY <2>1, <2>5
  <2> QED BY <1>1, <2>2, <2>6, QuietAlone
<1>4. CASE Plain # 0
  <2>1. /\ d \in CallType /\ d.at = "share" /\ d.file = Plain /\ d.op = c.op /\ d.part = c.part
        /\ d.before = c.before /\ (d.alone <=> c.alone)
    BY <1>2, <1>4 DEF CallType, Steps
  <2> HIDE DEF d
  <2>2. AloneOk(d, paths, store, now)
    BY <1>1, <1>2, <2>1 DEF AloneOk, AloneAt, Busy, Steps, Plain
  <2> QED BY <1>1, <2>1, <2>2, QuietAlone
<1> QED
  BY <1>3, <1>4

LEMMA LockSharedAlone ==
    ASSUME Inv, AloneInv, NEW p \in Processes, LockShared(p)
    PROVE  AloneInv'
<1> DEFINE c == calls[p]
           d == [c EXCEPT !.at = "slurp"]
<1>1. /\ c.at = "share" /\ UNCHANGED <<paths, now, store>> /\ Goes(p, d, FALSE)
  BY DEF LockShared
<1>2. c \in CallType /\ AloneOk(c, paths, store, now)
  BY DEF Inv, Types, AloneInv
<1>3. /\ d \in CallType /\ d.at = "slurp" /\ d.file = c.file /\ d.op = c.op /\ d.part = c.part
      /\ d.before = c.before /\ (d.alone <=> c.alone)
  BY <1>2 DEF CallType, Steps
<1> HIDE DEF d
<1>4. AloneOk(d, paths, store, now)
  BY <1>1, <1>2, <1>3 DEF AloneOk, AloneAt, Busy, Steps
<1> QED BY <1>1, <1>3, <1>4, QuietAlone

\* The file a reader has locked is the one the path leads to, and what it
\* contains is the entry.
LEMMA SlurpAlone ==
    ASSUME Inv, AloneInv, NEW p \in Processes, Slurp(p)
    PROVE  AloneInv'
<1> DEFINE c == calls[p]
           freed == [c EXCEPT !.file = 0]
           none == [freed EXCEPT !.read = Nothing]
           missed == Plain = 0 \/ files[Plain].content = Torn
           d == IF missed THEN AfterRead(none, Nothing)
                ELSE [freed EXCEPT !.at = "check", !.read = files[Plain].content]
<1>1. /\ c.at = "slurp" /\ UNCHANGED <<paths, now, store>> /\ Goes(p, d, FALSE)
  BY DEF Slurp, Plain, ReadPath
<1>2. /\ c \in CallType /\ c.file \in Ids /\ c.op \in Readers
      /\ c.op = "increment" => c.part \in {"has", "get"}
      /\ p \in files[c.file].readers /\ AloneOk(c, paths, store, now)
  BY <1>1 DEF Inv, Types, CallInv, CallOk, Locked, Holding, AloneInv
<1>3. Plain \in Ids \cup {0} /\ now \in Nat /\ store \in Entry /\ files \in [Ids -> FileType]
  BY DEF Inv, Types, Plain, Paths, Spellings, FileType
<1>4. /\ freed \in CallType /\ freed.op = c.op /\ freed.part = c.part
      /\ freed.before = c.before /\ (freed.alone <=> c.alone)
  BY <1>2 DEF CallType
<1> HIDE DEF freed
<1>5. /\ none \in CallType /\ none.op = c.op /\ none.part = c.part
      /\ none.before = c.before /\ (none.alone <=> c.alone)
  BY <1>4 DEF CallType
<1> HIDE DEF none
<1>6. c.alone => /\ c.before = Worth(store, now) /\ Plain = c.file
                 /\ c.op = "increment" /\ c.part = "get" => c.before # Nothing
  BY <1>1, <1>2 DEF AloneOk, AloneAt, Busy, Steps, Plain
<1>7. CASE missed
  <2>1. d = AfterRead(none, Nothing) /\ d \in CallType
    BY <1>3, <1>5, <1>7, AfterReadType
  <2> HIDE DEF d
  <2>2. c.alone => c.before = Nothing
    <3> SUFFICES ASSUME c.alone PROVE c.before = Nothing
      OBVIOUS
    <3>1. files[Plain].content = Torn /\ Plain \in Ids
      BY <1>2, <1>6, <1>7 DEF Ids
    <3>2. files[Plain].writer = Nobody
      BY <1>2, <1>6, <3>1 DEF Inv, Locks
    <3>3. store = Nothing
      BY <3>1, <3>2 DEF Inv, Disk, Ids
    <3> QED BY <1>6, <3>3 DEF Worth
  <2>3. AloneOk(AfterRead(none, Nothing), paths, store, now)
    BY <1>2, <1>5, <1>6, <2>2, AfterReadAlone
  <2>4. AloneOk(d, paths, store, now)
    BY <2>1, <2>3
  <2> QED BY <1>1, <2>1, <2>4, QuietAlone
<1>8. CASE ~missed
  <2>1. files[Plain].content \in Payload /\ store = files[Plain].content
    BY <1>3, <1>8 DEF FileType, Contents, Inv, Disk
  <2>2. /\ d \in CallType /\ d.at = "check" /\ d.read = store /\ d.op = c.op /\ d.part = c.part
        /\ d.before = c.before /\ (d.alone <=> c.alone)
    BY <1>4, <1>8, <2>1 DEF CallType, Steps
  <2> HIDE DEF d
  <2>3. AloneOk(d, paths, store, now)
    BY <1>1, <1>2, <1>6, <2>2 DEF AloneOk, AloneAt, Busy, Steps, Readers
  <2> QED BY <1>1, <2>2, <2>3, QuietAlone
<1> QED
  BY <1>7, <1>8

LEMMA CheckAlone ==
    ASSUME Inv, AloneInv, NEW p \in Processes, Check(p)
    PROVE  AloneInv'
<1> DEFINE c == calls[p]
           found == Worth(c.read, now)
           d == AfterRead(c, found)
<1>1. /\ c.at = "check" /\ UNCHANGED <<paths, now, store>> /\ Goes(p, d, FALSE)
  BY DEF Check
<1>2. /\ c \in CallType /\ c.op \in Readers
      /\ c.op = "increment" => c.part \in {"has", "get"}
      /\ c.read \in Entry /\ now \in Nat /\ AloneOk(c, paths, store, now)
  BY <1>1 DEF Inv, Types, CallInv, CallOk, Holding, AloneInv, Entry
<1>3. found \in Nat \cup {Nothing}
  BY <1>2, WorthType
<1>4. c.alone => /\ c.before = found /\ found = Worth(store, now)
                 /\ c.op = "increment" /\ c.part = "get" => found # Nothing
  BY <1>1, <1>2 DEF AloneOk, AloneAt, Busy, Steps
<1> HIDE DEF found
<1>5. d \in CallType
  BY <1>2, <1>3, AfterReadType
<1>6. AloneOk(d, paths, store, now)
  BY <1>2, <1>3, <1>4, AfterReadAlone
<1> HIDE DEF d
<1> QED BY <1>1, <1>5, <1>6, QuietAlone

LEMMA CreateAlone ==
    ASSUME Inv, AloneInv, NEW p \in Processes, Create(p)
    PROVE  AloneInv'
<1> DEFINE c == calls[p]
           f == IF paths[c.path] = 0 THEN NewId ELSE paths[c.path]
           d == [c EXCEPT !.at = "lock", !.file = f]
<1>1. /\ c.at = "create" /\ (paths[c.path] = 0 => Free # {})
      /\ paths' = [paths EXCEPT ![c.path] = f]
      /\ UNCHANGED <<now, store>> /\ Goes(p, d, TRUE)
  BY DEF Create
<1>2. /\ c \in CallType /\ c.path \in Paths /\ c.op \in {"set", "increment"}
      /\ paths \in [Paths -> Ids \cup {0}] /\ AloneOk(c, paths, store, now)
      /\ store' \in Entry /\ now' = now
  BY <1>1 DEF Inv, Types, CallInv, CallOk, Holding, CallType, AloneInv
<1>3. f \in Ids
  <2>1. paths[c.path] = 0 => NewId \in Free
    BY <1>1 DEF NewId
  <2> QED BY <1>2, <2>1 DEF Free
<1> HIDE DEF f
<1>4. /\ d \in CallType /\ d.at = "lock" /\ d.file = f /\ d.op = c.op /\ d.part = c.part
      /\ d.path = c.path /\ d.payload = c.payload
      /\ d.before = c.before /\ (d.alone <=> c.alone)
  BY <1>2, <1>3 DEF CallType, Steps
<1> HIDE DEF d
<1>5. d.file = paths'[d.path]
  BY <1>1, <1>2, <1>4
<1>6. AloneOk(d, paths', store', now)
  BY <1>1, <1>2, <1>4, <1>5 DEF AloneOk, AloneAt, Busy, Steps
<1> QED
  <2>1. TRUE \in BOOLEAN
    OBVIOUS
  <2> QED BY <1>1, <1>2, <1>4, <1>6, <2>1, GoesAlone

LEMMA LockAndTruncateAlone ==
    ASSUME Inv, AloneInv, NEW p \in Processes, LockAndTruncate(p)
    PROVE  AloneInv'
<1> DEFINE c == calls[p]
           d == [c EXCEPT !.at = "fill"]
<1>1. /\ c.at = "lock" /\ UNCHANGED <<paths, now, store>> /\ Goes(p, d, TRUE)
  BY DEF LockAndTruncate
<1>2. /\ c \in CallType /\ AloneOk(c, paths, store, now) /\ c.op \in {"set", "increment"}
      /\ store' \in Entry
  BY <1>1 DEF Inv, Types, AloneInv, CallInv, CallOk
<1>3. /\ d \in CallType /\ d.at = "fill" /\ d.file = c.file /\ d.op = c.op /\ d.part = c.part
      /\ d.path = c.path /\ d.payload = c.payload
      /\ d.before = c.before /\ (d.alone <=> c.alone)
  BY <1>2 DEF CallType, Steps
<1> HIDE DEF d
<1>4. AloneOk(d, paths', store', now)
  BY <1>1, <1>2, <1>3 DEF AloneOk, AloneAt, Busy, Steps
<1> QED
  <2>1. TRUE \in BOOLEAN
    OBVIOUS
  <2> QED BY <1>1, <1>2, <1>3, <1>4, <2>1, GoesAlone

\* What increment() has written is worth what it counted: no second has
\* passed since it was stamped.
LEMMA FillAlone ==
    ASSUME Inv, AloneInv, NEW p \in Processes, Fill(p)
    PROVE  AloneInv'
<1> DEFINE c == calls[p]
           d == Ends(c, TRUE)
<1>1. /\ c.at = "fill" /\ store' = (IF Plain = c.file THEN c.payload ELSE store)
      /\ UNCHANGED <<paths, now>> /\ Goes(p, d, TRUE)
  BY DEF Fill, Plain, ReadPath
<1>2. /\ c \in CallType /\ c.op \in {"set", "increment"} /\ c.payload \in Payload
      /\ AloneOk(c, paths, store, now) /\ now \in Nat
  BY <1>1 DEF Inv, Types, CallInv, CallOk, Holding, CallType, AloneInv
<1>3. /\ d \in CallType /\ d.at = "done" /\ d.op = c.op /\ d.ok = TRUE /\ d.path = c.path
      /\ d.payload = c.payload /\ d.before = c.before /\ (d.alone <=> c.alone)
  BY <1>2 DEF CallType, Steps, Ends
<1> HIDE DEF d
<1>4. store' \in Entry
  BY <1>1, <1>2 DEF Inv, Types, Entry
<1>5. c.alone /\ c.path = "plain" => store' = c.payload
  BY <1>1, <1>2 DEF AloneOk, AloneAt, Plain
<1>6. c.alone /\ c.op = "increment" =>
          /\ c.before # Nothing /\ c.payload.value = c.before + 1 /\ c.payload.created = now
  BY <1>1, <1>2 DEF AloneOk, AloneAt, Busy, Steps
<1>7. c.payload.created = now => Worth(c.payload, now) = c.payload.value
  BY <1>2, NamesAssumption DEF Worth, Expired, Payload
<1>8. AloneOk(d, paths', store', now)
  <2> SUFFICES ASSUME d.alone PROVE AloneDone(d, paths', store', now)
    BY <1>2, <1>3 DEF AloneOk, AloneAt, Busy
  <2> QED BY <1>2, <1>3, <1>5, <1>6, <1>7 DEF AloneDone
<1> QED
  <2>1. TRUE \in BOOLEAN /\ now' = now
    BY <1>1
  <2> QED BY <1>1, <1>3, <1>4, <1>8, <2>1, GoesAlone

LEMMA DeleteAlone ==
    ASSUME Inv, AloneInv, NEW p \in Processes, Delete(p)
    PROVE  AloneInv'
<1> DEFINE c == calls[p]
           ok == Plain # 0
           d == Ends(c, ok)
<1>1. /\ c.at = "unlink" /\ c.op = "delete" /\ now' = now
      /\ paths' = [paths EXCEPT !["plain"] = 0] /\ store' = Nothing /\ Goes(p, d, ok)
  BY DEF Delete, Unlink, ReadPath, Plain
<1>2. /\ c \in CallType /\ AloneOk(c, paths, store, now) /\ store' \in Entry
      /\ paths \in [Paths -> Ids \cup {0}] /\ "plain" \in Paths
  BY <1>1 DEF Inv, Types, AloneInv, Entry, Paths, Spellings
<1>3. ok \in BOOLEAN /\ (~ok => paths' = paths /\ store' = store)
  BY <1>1, <1>2 DEF Inv, Disk, Plain
<1>4. c.alone => ok
  BY <1>1, <1>2 DEF AloneOk, AloneAt, Busy, Steps, Readers, Inv, Disk, Worth
<1>5. c.alone => c.before # Nothing
  BY <1>1, <1>2 DEF AloneOk, AloneAt
<1> HIDE DEF ok
<1>6. /\ d \in CallType /\ d.at = "done" /\ d.op = "delete" /\ (d.ok <=> ok)
      /\ d.before = c.before /\ (d.alone <=> c.alone)
  BY <1>1, <1>2, <1>3 DEF CallType, Steps, Ends
<1> HIDE DEF d
<1>7. Worth(store', now) = Nothing
  BY <1>1 DEF Worth
<1>8. AloneOk(d, paths', store', now)
  BY <1>4, <1>5, <1>6, <1>7 DEF AloneOk, AloneAt, AloneDone, Busy
<1> QED BY <1>1, <1>2, <1>3, <1>6, <1>8, GoesAlone

LEMMA ListAlone ==
    ASSUME Inv, AloneInv, NEW p \in Processes, List(p)
    PROVE  AloneInv'
<1> DEFINE c == calls[p]
           found == There(paths)
           d == [c EXCEPT !.at = "look", !.listed = found, !.ok = TRUE]
<1>1. /\ c.at = "list" /\ UNCHANGED <<paths, now, store>> /\ Goes(p, d, FALSE)
  BY DEF List, There
<1>2. c \in CallType /\ c.op = "clear" /\ found \in SUBSET Paths
  BY <1>1 DEF Inv, Types, CallInv, CallOk, There
<1> HIDE DEF found
<1>3. d \in CallType /\ d.at = "look" /\ d.op = "clear" /\ d.listed = found /\ d.ok = TRUE
  BY <1>2 DEF CallType, Steps
<1> HIDE DEF d
<1>4. AloneOk(d, paths, store, now)
  BY <1>3 DEF AloneOk, AloneAt, Readers, found
<1> QED BY <1>1, <1>3, <1>4, QuietAlone

LEMMA LookAlone ==
    ASSUME Inv, AloneInv, NEW p \in Processes, Look(p)
    PROVE  AloneInv'
<1> DEFINE c == calls[p]
<1>1. c.at = "look" /\ UNCHANGED <<paths, now, store>>
  BY DEF Look
<1>2. /\ c \in CallType /\ c.op = "clear" /\ AloneOk(c, paths, store, now)
  BY <1>1 DEF Inv, Types, CallInv, CallOk, AloneInv
<1>3. c.alone => c.ok /\ c.listed = There(paths)
  BY <1>1, <1>2 DEF AloneOk, AloneAt
<1>4. CASE c.listed = {} /\ Goes(p, Ends(c, c.ok), FALSE)
  <2> DEFINE d == Ends(c, c.ok)
  <2>1. /\ d \in CallType /\ d.at = "done" /\ d.op = "clear" /\ d.ok = c.ok
        /\ (d.alone <=> c.alone)
    BY <1>2 DEF CallType, Steps, Ends
  <2> HIDE DEF d
  <2>2. c.alone => \A x \in Paths : paths[x] = 0
    BY <1>3, <1>4 DEF There
  <2>3. AloneOk(d, paths, store, now)
    BY <1>3, <2>1, <2>2 DEF AloneOk, AloneAt, AloneDone, Busy
  <2>4. Goes(p, d, FALSE)
    BY <1>4 DEF d
  <2> QED BY <1>1, <2>1, <2>3, <2>4, QuietAlone
<1>5. ASSUME NEW x \in c.listed,
             Goes(p, IF paths[x] = 0 THEN [c EXCEPT !.listed = @ \ {x}]
                     ELSE [c EXCEPT !.at = "unlink", !.path = x], FALSE)
      PROVE  AloneInv'
  <2> DEFINE rest == c.listed \ {x}
  <2>1. x \in Paths /\ rest \in SUBSET Paths
    BY <1>2 DEF CallType
  <2>2. CASE paths[x] = 0
    <3> DEFINE d == [c EXCEPT !.listed = rest]
    <3>1. Goes(p, d, FALSE)
      BY <1>5, <2>2
    <3>2. /\ d \in CallType /\ d.at = "look" /\ d.op = "clear"
          /\ (d.alone <=> c.alone)
      BY <1>1, <1>2, <2>1 DEF CallType
    <3> HIDE DEF d
    <3>3. ~c.alone
      BY <1>3, <2>2 DEF There
    <3>4. AloneOk(d, paths, store, now)
      BY <3>2, <3>3 DEF AloneOk
    <3> QED BY <1>1, <3>1, <3>2, <3>4, QuietAlone
  <2>3. CASE paths[x] # 0
    <3> DEFINE d == [c EXCEPT !.at = "unlink", !.path = x]
    <3>1. Goes(p, d, FALSE)
      BY <1>5, <2>3
    <3>2. /\ d \in CallType /\ d.at = "unlink" /\ d.op = "clear" /\ d.path = x
          /\ d.listed = c.listed /\ d.ok = c.ok /\ (d.alone <=> c.alone)
      BY <1>2, <2>1 DEF CallType, Steps
    <3> HIDE DEF d
    <3>3. AloneOk(d, paths, store, now)
      BY <1>3, <3>2 DEF AloneOk, AloneAt, Readers
    <3> QED BY <1>1, <3>1, <3>2, <3>3, QuietAlone
  <2> QED BY <2>2, <2>3
<1> QED BY <1>4, <1>5 DEF Look

LEMMA ClearOneAlone ==
    ASSUME Inv, AloneInv, NEW p \in Processes, ClearOne(p)
    PROVE  AloneInv'
<1> DEFINE c == calls[p]
           x == c.path
           there == paths[x] # 0
           ok == c.ok /\ there
           rest == c.listed \ {x}
           d == [c EXCEPT !.at = "look", !.listed = rest, !.ok = ok]
<1>1. /\ c.at = "unlink" /\ c.op = "clear" /\ now' = now
      /\ paths' = [paths EXCEPT ![x] = 0]
      /\ store' = (IF x = "plain" THEN Nothing ELSE store) /\ Goes(p, d, there)
  BY DEF ClearOne, Unlink, ReadPath
<1>2. /\ c \in CallType /\ AloneOk(c, paths, store, now) /\ store' \in Entry
      /\ paths \in [Paths -> Ids \cup {0}] /\ x \in Paths /\ rest \in SUBSET Paths
  BY <1>1 DEF Inv, Types, AloneInv, Entry, CallType
<1>3. /\ there \in BOOLEAN /\ ok \in BOOLEAN
      /\ ~there => paths' = paths /\ store' = store
  BY <1>1, <1>2 DEF Inv, Disk, Plain
<1>4. c.alone => c.ok /\ c.listed = There(paths) /\ there
  BY <1>1, <1>2 DEF AloneOk, AloneAt, There
<1>5. There(paths') = There(paths) \ {x}
  BY <1>1, <1>2 DEF There
<1>6. c.alone => ok /\ rest = There(paths')
  BY <1>4, <1>5
<1> HIDE DEF there, ok, rest
<1>7. /\ d \in CallType /\ d.at = "look" /\ d.op = "clear" /\ (d.ok <=> ok)
      /\ d.listed = rest /\ (d.alone <=> c.alone)
  BY <1>1, <1>2, <1>3 DEF CallType, Steps
<1> HIDE DEF d
<1>8. AloneOk(d, paths', store', now)
  BY <1>6, <1>7 DEF AloneOk, AloneAt, Readers
<1>9. Goes(p, d, there) /\ now' = now /\ store' \in Entry /\ d \in CallType
  BY <1>1, <1>2, <1>7
<1> HIDE DEF c, x
<1> QED BY <1>3, <1>8, <1>9, GoesAlone

LEMMA DieAlone ==
    ASSUME Inv, AloneInv, NEW p \in Processes, Die(p)
    PROVE  AloneInv'
<1> DEFINE c == calls[p]
           d == [NoCall EXCEPT !.at = "dead"]
           torn == c.at = "fill"
<1>1. /\ store' = (IF c.at = "fill" /\ Plain = c.file THEN Nothing ELSE store)
      /\ UNCHANGED <<paths, now>> /\ Goes(p, d, torn)
  BY DEF Die, Plain, ReadPath
<1>2. /\ torn \in BOOLEAN /\ store' \in Entry
      /\ ~torn => paths' = paths /\ store' = store
  BY <1>1 DEF Inv, Types, Entry
<1>3. d \in CallType /\ ~d.alone
  BY NoCallType DEF NoCall, CallType, Steps
<1> HIDE DEF d, torn
<1>4. AloneOk(d, paths', store', now)
  BY <1>3 DEF AloneOk
<1> QED BY <1>1, <1>2, <1>3, <1>4, GoesAlone

LEMMA WriteFailedAlone ==
    ASSUME Inv, AloneInv, NEW p \in Processes, WriteFailed(p)
    PROVE  AloneInv'
<1> DEFINE c == calls[p]
           d == Ends(c, FALSE)
           torn == c.at = "fill"
<1>1. /\ store' = (IF c.at = "fill" /\ Plain = c.file THEN Nothing ELSE store)
      /\ UNCHANGED <<paths, now>> /\ Goes(p, d, torn)
  BY DEF WriteFailed, Plain, ReadPath
<1>2. /\ torn \in BOOLEAN /\ store' \in Entry
      /\ ~torn => paths' = paths /\ store' = store
  BY <1>1 DEF Inv, Types, Entry
<1>3. /\ c \in CallType /\ c.op \in {"set", "increment"}
      /\ c.op = "increment" => c.part = "write"
  BY DEF WriteFailed, Inv, Types, CallInv, CallOk
<1>4. d \in CallType /\ d.at = "done" /\ d.op = c.op /\ d.part = c.part /\ ~d.ok
  BY <1>3 DEF CallType, Steps, Ends
<1> HIDE DEF d, torn
<1>5. AloneOk(d, paths', store', now)
  BY <1>3, <1>4 DEF AloneOk, AloneAt, AloneDone, Busy
<1> QED BY <1>1, <1>2, <1>4, <1>5, GoesAlone

LEMMA AloneStep == Inv /\ AloneInv /\ [Next]_vars => AloneInv'
<1> SUFFICES ASSUME Inv, AloneInv, [Next]_vars PROVE AloneInv'
  OBVIOUS
<1>1. CASE UNCHANGED vars
  BY <1>1 DEF vars, AloneInv
<1>2. ASSUME NEW p \in Processes, NEW op \in Operations \ {"set"}, NEW s \in Spellings,
             Call(p, op, s, 0, 0)
      PROVE  AloneInv'
  BY <1>2, CallAlone
<1>3. ASSUME NEW p \in Processes, NEW s \in Spellings, NEW v \in Values, NEW t \in Ttls,
             Call(p, "set", s, v, t)
      PROVE  AloneInv'
  <2>1. v \in Nat /\ t \in Nat /\ "set" \in Operations
    BY NumbersAssumption DEF Operations
  <2> QED
    BY <1>3, <2>1, CallAlone
<1>4. ASSUME NEW p \in Processes, FileStep(p)
      PROVE  AloneInv'
  BY <1>4, OpenAlone, LockSharedAlone, SlurpAlone, CheckAlone, CreateAlone,
     LockAndTruncateAlone, FillAlone, DeleteAlone, ListAlone, LookAlone, ClearOneAlone
     DEF FileStep
<1>5. ASSUME NEW p \in Processes, Die(p)
      PROVE  AloneInv'
  BY <1>5, DieAlone
<1>7. ASSUME NEW p \in Processes, WriteFailed(p)
      PROVE  AloneInv'
  BY <1>7, WriteFailedAlone
<1>6. CASE Tick
  BY <1>6, TickAlone
<1> QED
  BY <1>1, <1>2, <1>3, <1>4, <1>5, <1>6, <1>7 DEF Next

\* A call of the Stream adapter that nobody disturbs does what it says,
\* whatever earlier calls, expired entries and processes killed in the middle
\* of a write have left in the directory.
THEOREM AloneCorrect == Spec => []AloneMeansDone
<1>1. Init => AloneInv
  BY DEF Init, AloneInv, AloneOk, NoCall
<1>2. Inv /\ AloneInv => AloneMeansDone
  <2> SUFFICES ASSUME Inv, AloneInv, NEW p \in Processes,
                      calls[p].at = "done", calls[p].alone
               PROVE  /\ calls[p].op = "set" /\ calls[p].path = "plain" /\ calls[p].ok =>
                             store = calls[p].payload
                      /\ calls[p].op = "delete" =>
                             /\ calls[p].ok = (calls[p].before # Nothing)
                             /\ Worth(store, now) = Nothing
                      /\ calls[p].op = "increment" /\ calls[p].path = "plain" =>
                            /\ calls[p].ok => /\ calls[p].before # Nothing
                                              /\ Worth(store, now) = calls[p].before + 1
                            /\ ~calls[p].ok =>
                                   calls[p].before = Nothing \/ calls[p].part = "write"
                      /\ calls[p].op = "clear" =>
                             calls[p].ok /\ \A x \in Paths : paths[x] = 0
    BY DEF AloneMeansDone
  <2>1. AloneDone(calls[p], paths, store, now)
    BY DEF AloneInv, AloneOk, AloneAt
  <2>2. calls[p].ok \in BOOLEAN
    BY DEF Inv, Types, CallType
  <2> QED BY <2>1, <2>2 DEF AloneDone
<1> QED
  BY <1>1, <1>2, StartInv, InvStep, AloneStep, PTL DEF Spec

----------------------------------------------------------------------------
(* Waiting for locks, and the steps a call has left *)

\* d is c as far as its next steps go.
Alike(c, d) ==
    /\ d.op = c.op /\ d.at = c.at /\ d.part = c.part
    /\ d.path = c.path /\ d.listed = c.listed /\ d.file = c.file

Others(p) ==
    \A q \in Processes \ {p} :
        IF calls[q].at = "done" THEN calls'[q] = NoCall ELSE Alike(calls[q], calls'[q])

\* clear() removes a file that it has listed.
Pointed(c) == c.at = "unlink" /\ c.op = "clear" => c.path \in c.listed
PointedInv == \A p \in Processes : Pointed(calls[p])

\* A lock for reading is that of a process about to read.
ReadersInv ==
    \A f \in Ids : \A q \in files[f].readers : calls[q].at = "slurp" /\ calls[q].file = f

\* A bound on the steps that a call has left: has() goes before the read of
\* increment(), and clear() looks at a file and removes it.
Left(c) ==
    CASE c.at \in {"idle", "done", "dead"} -> 0
      [] c.at = "open"   -> IF c.part = "has" THEN 11 ELSE 7
      [] c.at = "share"  -> IF c.part = "has" THEN 10 ELSE 6
      [] c.at = "slurp"  -> IF c.part = "has" THEN 9 ELSE 5
      [] c.at = "check"  -> IF c.part = "has" THEN 8 ELSE 4
      [] c.at = "create" -> 3
      [] c.at = "lock"   -> 2
      [] c.at = "fill"   -> 1
      [] c.at = "list"   -> 6
      [] c.at = "look"   -> 2 * Cardinality(c.listed) + 1
      [] c.at = "unlink" -> IF c.op = "clear" THEN 2 * Cardinality(c.listed) ELSE 1

LEMMA ListedSize ==
    ASSUME NEW S \in SUBSET Paths
    PROVE  /\ Cardinality(S) \in 0 .. 2
           /\ \A x \in S : Cardinality(S \ {x}) = Cardinality(S) - 1
<1>1. Paths = {"plain"} \cup {"prefixed"}
  BY DEF Paths, Spellings
<1>2. /\ IsFiniteSet({"plain"}) /\ Cardinality({"plain"}) = 1
  BY FS_Singleton
<1>3. IsFiniteSet(Paths) /\ Cardinality(Paths) = 2
  BY <1>1, <1>2, FS_AddElement
<1>4. IsFiniteSet(S) /\ Cardinality(S) <= 2
  BY <1>3, FS_Subset
<1>5. Cardinality(S) \in Nat
  BY <1>4, FS_CardinalityType
<1> QED BY <1>4, <1>5, FS_RemoveElement

LEMMA LeftType == ASSUME NEW c \in CallType PROVE Left(c) \in 0 .. 11
<1>1. Cardinality(c.listed) \in 0 .. 2
  BY ListedSize DEF CallType
<1>2. c.at \in Steps
  BY DEF CallType
<1> QED BY <1>1, <1>2 DEF Left, Steps

LEMMA AlikeLeft ==
    ASSUME NEW c, NEW d, Alike(c, d)
    PROVE  Left(d) = Left(c) /\ (Pointed(c) => Pointed(d))
BY DEF Alike, Left, Pointed

LEMMA SeesAlike ==
    ASSUME NEW c, c \in CallType, NEW e, e \in Entry, NEW t, t \in Nat
    PROVE  Alike(c, Sees(c, e, t))
BY SeesLike DEF Like, Alike

LEMMA BesideAlike ==
    ASSUME NEW q, calls[q] \in CallType, NEW changed \in BOOLEAN
    PROVE  Beside(q, changed) \in CallType /\ Alike(calls[q], Beside(q, changed))
<1> DEFINE alone == IF changed THEN FALSE ELSE calls[q].alone
<1>1. Beside(q, changed) = [calls[q] EXCEPT !.alone = alone]
  BY DEF Beside
<1> HIDE DEF alone
<1>2. Alike(calls[q], Beside(q, changed))
  BY <1>1 DEF CallType, Alike
<1> QED BY <1>2, BesideType

LEMMA GoesAlike ==
    ASSUME Types, store' \in Entry, now' = now, NEW p \in Processes, NEW d \in CallType,
           NEW changed \in BOOLEAN, Goes(p, d, changed)
    PROVE  Alike(d, calls'[p]) /\ Others(p)
<1>1. now \in Nat
  BY DEF Types
<1>2. Alike(d, calls'[p])
  <2>1. calls'[p] = Sees(d, store', now)
    BY DEF Goes
  <2> QED BY <1>1, <2>1, SeesAlike
<1>3. ASSUME NEW q \in Processes \ {p}
      PROVE  IF calls[q].at = "done" THEN calls'[q] = NoCall ELSE Alike(calls[q], calls'[q])
  <2> DEFINE e == Beside(q, changed)
  <2>1. calls[q] \in CallType
    BY DEF Types
  <2>2. e \in CallType /\ Alike(calls[q], e)
    BY <2>1, BesideAlike
  <2>3. CASE Active(q)
    <3>1. calls'[q] = Sees(e, store', now)
      BY <2>3 DEF Goes
    <3> HIDE DEF e
    <3>2. Alike(e, calls'[q])
      BY <1>1, <2>2, <3>1, SeesAlike
    <3> QED BY <2>2, <2>3, <3>2 DEF Active, Alike
  <2>4. CASE ~Active(q)
    <3>1. calls'[q] = Returned(q)
      BY <2>4 DEF Goes
    <3> QED BY <3>1 DEF Returned, Alike
  <2> QED BY <2>3, <2>4
<1> QED BY <1>2, <1>3 DEF Others

\* p goes on as a call that is nearer to its end.
Nearer(p) ==
    \E d \in CallType, changed \in BOOLEAN :
        Goes(p, d, changed) /\ Left(d) < Left(calls[p]) /\ Pointed(d)

LEMMA AfterReadLeft ==
    ASSUME now \in Nat, NEW c \in CallType, NEW found \in Nat \cup {Nothing}, c.op \in Readers
    PROVE  LET d == AfterRead(c, found)
           IN  /\ d \in CallType /\ Pointed(d)
               /\ Left(d) <= IF c.part = "has" THEN 7 ELSE 3
<1> DEFINE d == [c EXCEPT !.file = 0, !.found = found,
                          !.read = IF found = Nothing THEN @ ELSE Nothing]
           sum == Stamped((IF found = Nothing THEN 0 ELSE found) + 1, Lifetime)
           e == AfterRead(c, found)
<1>1. /\ d \in CallType /\ d.op = c.op /\ d.part = c.part
  BY DEF CallType
<1>2. e \in CallType /\ e.op = c.op
  BY AfterReadType
<1> HIDE DEF d, sum
<1>3. CASE c.op = "get"
  <2>1. e = [d EXCEPT !.at = "done", !.file = 0, !.ok = (found # Nothing)]
    BY <1>3 DEF AfterRead, d, Ends
  <2> HIDE DEF e
  <2>2. e.at = "done"
    BY <1>1, <2>1 DEF CallType
  <2> QED BY <1>2, <2>2 DEF Left, Pointed, e
<1>4. CASE c.op = "delete" /\ found # Nothing
  <2>1. e = [d EXCEPT !.at = "unlink"]
    BY <1>4 DEF AfterRead, d
  <2> HIDE DEF e
  <2>2. e.at = "unlink" /\ e.op = "delete"
    BY <1>1, <1>4, <2>1 DEF CallType
  <2> QED BY <1>2, <2>2 DEF Left, Pointed, e
<1>5. CASE c.op = "increment" /\ c.part = "get"
  <2>1. e = [d EXCEPT !.at = "create", !.part = "write", !.payload = sum]
    BY <1>5 DEF AfterRead, d, sum
  <2> HIDE DEF e
  <2>2. e.at = "create"
    BY <1>1, <2>1 DEF CallType
  <2> QED BY <1>2, <2>2 DEF Left, Pointed, e
<1>6. CASE c.op = "increment" /\ c.part = "has" /\ found # Nothing
  <2>1. e = [d EXCEPT !.at = "open", !.part = "get"]
    BY <1>6 DEF AfterRead, d
  <2> HIDE DEF e
  <2>2. e.at = "open" /\ e.part = "get"
    BY <1>1, <2>1 DEF CallType
  <2> QED BY <1>2, <1>6, <2>2 DEF Left, Pointed, e
<1>7. CASE ~ \/ c.op = "get"
             \/ c.op = "delete" /\ found # Nothing
             \/ c.op = "increment" /\ c.part = "get"
             \/ c.op = "increment" /\ c.part = "has" /\ found # Nothing
  <2>1. e = [d EXCEPT !.at = "done", !.file = 0, !.ok = FALSE]
    BY <1>7 DEF AfterRead, d, Ends
  <2> HIDE DEF e
  <2>2. e.at = "done"
    BY <1>1, <2>1 DEF CallType
  <2> QED BY <1>2, <2>2 DEF Left, Pointed, e
<1> QED
  BY <1>3, <1>4, <1>5, <1>6, <1>7

\* A step that reads, or asks the file system.
LEMMA ReadNearer ==
    ASSUME Inv, NEW p \in Processes, Open(p) \/ LockShared(p) \/ Slurp(p) \/ Check(p)
    PROVE  Nearer(p)
<1> DEFINE c == calls[p]
           f == paths["plain"]
<1>1. c \in CallType /\ now \in Nat /\ f \in Ids \cup {0} /\ files \in [Ids -> FileType]
  BY DEF Inv, Types, Paths, Spellings, FileType
<1>2. c.at \in {"open", "share", "slurp", "check"}
  BY DEF Open, LockShared, Slurp, Check
<1>3. c.op \in Readers
  BY <1>2 DEF Inv, CallInv, CallOk
<1>4. FALSE \in BOOLEAN
  OBVIOUS
<1>5. CASE Open(p)
  <2> DEFINE none == [c EXCEPT !.read = Nothing]
             held == [c EXCEPT !.at = "share", !.file = f]
  <2>1. c.at = "open" /\ Goes(p, IF f = 0 THEN AfterRead(none, Nothing) ELSE held, FALSE)
    BY <1>5 DEF Open, ReadPath
  <2>2. none \in CallType /\ none.op = c.op /\ none.part = c.part
    BY <1>1 DEF CallType
  <2> HIDE DEF none
  <2>3. CASE f = 0
    <3> DEFINE d == AfterRead(none, Nothing)
    <3>1. d \in CallType /\ Pointed(d) /\ Left(d) <= IF c.part = "has" THEN 7 ELSE 3
      BY <1>1, <1>3, <2>2, AfterReadLeft
    <3>2. Left(d) \in 0 .. 11
      BY <3>1, LeftType
    <3>3. Left(c) = IF c.part = "has" THEN 11 ELSE 7
      BY <2>1 DEF Left
    <3> HIDE DEF d
    <3>4. Left(d) < Left(c)
      BY <3>1, <3>2, <3>3
    <3>5. Goes(p, d, FALSE)
      BY <2>1, <2>3 DEF d
    <3> QED BY <1>4, <3>1, <3>4, <3>5 DEF Nearer
  <2>4. CASE f # 0
    <3>1. /\ held \in CallType /\ held.at = "share" /\ held.part = c.part
      BY <1>1, <2>4 DEF CallType, Steps
    <3>2. Goes(p, held, FALSE)
      BY <2>1, <2>4
    <3> HIDE DEF held
    <3>3. Left(held) < Left(c) /\ Pointed(held)
      BY <2>1, <3>1 DEF Left, Pointed
    <3> QED BY <1>4, <3>1, <3>2, <3>3 DEF Nearer
  <2> QED BY <2>3, <2>4
<1>6. CASE LockShared(p)
  <2> DEFINE d == [c EXCEPT !.at = "slurp"]
  <2>1. c.at = "share" /\ Goes(p, d, FALSE)
    BY <1>6 DEF LockShared
  <2>2. d \in CallType /\ d.at = "slurp" /\ d.part = c.part
    BY <1>1 DEF CallType, Steps
  <2> HIDE DEF d
  <2>3. Left(d) < Left(c) /\ Pointed(d)
    BY <2>1, <2>2 DEF Left, Pointed
  <2> QED BY <1>4, <2>1, <2>2, <2>3 DEF Nearer
<1>7. CASE Slurp(p)
  <2> DEFINE freed == [c EXCEPT !.file = 0]
             none == [freed EXCEPT !.read = Nothing]
             missed == f = 0 \/ files[f].content = Torn
             full == [freed EXCEPT !.at = "check", !.read = files[f].content]
  <2>1. c.at = "slurp" /\ Goes(p, IF missed THEN AfterRead(none, Nothing) ELSE full, FALSE)
    BY <1>7 DEF Slurp, ReadPath
  <2>2. freed \in CallType /\ freed.op = c.op /\ freed.part = c.part
    BY <1>1 DEF CallType
  <2> HIDE DEF freed
  <2>3. none \in CallType /\ none.op = c.op /\ none.part = c.part
    BY <2>2 DEF CallType
  <2> HIDE DEF none
  <2>4. CASE missed
    <3> DEFINE d == AfterRead(none, Nothing)
    <3>1. d \in CallType /\ Pointed(d) /\ Left(d) <= IF c.part = "has" THEN 7 ELSE 3
      BY <1>1, <1>3, <2>3, AfterReadLeft
    <3>2. Left(d) \in 0 .. 11
      BY <3>1, LeftType
    <3>3. Left(c) = IF c.part = "has" THEN 9 ELSE 5
      BY <2>1 DEF Left
    <3> HIDE DEF d
    <3>4. Left(d) < Left(c)
      BY <3>1, <3>2, <3>3
    <3>5. Goes(p, d, FALSE)
      BY <2>1, <2>4 DEF d
    <3> QED BY <1>4, <3>1, <3>4, <3>5 DEF Nearer
  <2>5. CASE ~missed
    <3>1. files[f].content \in Payload
      BY <1>1, <2>5 DEF FileType, Contents
    <3>2. full \in CallType /\ full.at = "check" /\ full.part = c.part
      BY <2>2, <3>1 DEF CallType, Steps
    <3>3. Goes(p, full, FALSE)
      BY <2>1, <2>5
    <3> HIDE DEF full
    <3>4. Left(full) < Left(c) /\ Pointed(full)
      BY <2>1, <3>2 DEF Left, Pointed
    <3> QED BY <1>4, <3>2, <3>3, <3>4 DEF Nearer
  <2> QED BY <2>4, <2>5
<1>8. CASE Check(p)
  <2> DEFINE w == Worth(c.read, now)
             d == AfterRead(c, w)
  <2>1. c.at = "check" /\ Goes(p, d, FALSE)
    BY <1>8 DEF Check
  <2>2. c.read \in Entry
    BY <1>1 DEF CallType, Entry
  <2>3. w \in Nat \cup {Nothing}
    BY <1>1, <2>2, WorthType
  <2> HIDE DEF w
  <2>4. d \in CallType /\ Pointed(d) /\ Left(d) <= IF c.part = "has" THEN 7 ELSE 3
    BY <1>1, <1>3, <2>3, AfterReadLeft
  <2>5. Left(d) \in 0 .. 11
    BY <2>4, LeftType
  <2>6. Left(c) = IF c.part = "has" THEN 8 ELSE 4
    BY <2>1 DEF Left
  <2> HIDE DEF d
  <2>7. Left(d) < Left(c)
    BY <2>4, <2>5, <2>6
  <2> QED BY <1>4, <2>1, <2>4, <2>7 DEF Nearer
<1> QED BY <1>5, <1>6, <1>7, <1>8

\* A step that writes.
LEMMA WriteNearer ==
    ASSUME Inv, NEW p \in Processes, Create(p) \/ LockAndTruncate(p) \/ Fill(p)
    PROVE  Nearer(p)
<1> DEFINE c == calls[p]
<1>1. c \in CallType /\ TRUE \in BOOLEAN /\ paths \in [Paths -> Ids \cup {0}]
  BY DEF Inv, Types
<1>2. CASE Create(p)
  <2> DEFINE f == IF paths[c.path] = 0 THEN NewId ELSE paths[c.path]
             d == [c EXCEPT !.at = "lock", !.file = f]
  <2>1. c.at = "create" /\ Goes(p, d, TRUE) /\ (paths[c.path] = 0 => Free # {})
    BY <1>2 DEF Create
  <2>2. paths[c.path] = 0 => NewId \in Ids
    <3>1. Free # {} => NewId \in Free
      BY DEF NewId
    <3> QED BY <2>1, <3>1 DEF Free
  <2>3. f \in Ids \cup {0}
    BY <1>1, <2>2 DEF CallType
  <2> HIDE DEF f
  <2>4. d \in CallType /\ d.at = "lock"
    BY <1>1, <2>3 DEF CallType, Steps
  <2> HIDE DEF d
  <2>5. Left(d) < Left(c) /\ Pointed(d)
    BY <2>1, <2>4 DEF Left, Pointed
  <2> QED BY <1>1, <2>1, <2>4, <2>5 DEF Nearer
<1>3. CASE LockAndTruncate(p)
  <2> DEFINE d == [c EXCEPT !.at = "fill"]
  <2>1. c.at = "lock" /\ Goes(p, d, TRUE)
    BY <1>3 DEF LockAndTruncate
  <2>2. d \in CallType /\ d.at = "fill"
    BY <1>1 DEF CallType, Steps
  <2> HIDE DEF d
  <2>3. Left(d) < Left(c) /\ Pointed(d)
    BY <2>1, <2>2 DEF Left, Pointed
  <2> QED BY <1>1, <2>1, <2>2, <2>3 DEF Nearer
<1>4. CASE Fill(p)
  <2> DEFINE d == Ends(c, TRUE)
  <2>1. c.at = "fill" /\ Goes(p, d, TRUE)
    BY <1>4 DEF Fill
  <2>2. d \in CallType /\ d.at = "done"
    BY <1>1 DEF CallType, Steps, Ends
  <2> HIDE DEF d
  <2>3. Left(d) < Left(c) /\ Pointed(d)
    BY <2>1, <2>2 DEF Left, Pointed
  <2> QED BY <1>1, <2>1, <2>2, <2>3 DEF Nearer
<1> QED BY <1>2, <1>3, <1>4

\* A step that removes files: clear() goes on to a file it has listed, and
\* takes it off the list.
LEMMA RemoveNearer ==
    ASSUME Inv, PointedInv, NEW p \in Processes, Delete(p) \/ List(p) \/ Look(p) \/ ClearOne(p)
    PROVE  Nearer(p)
<1> DEFINE c == calls[p]
           size == Cardinality(c.listed)
<1>1. /\ c \in CallType /\ c.listed \in SUBSET Paths /\ Pointed(c)
      /\ TRUE \in BOOLEAN /\ FALSE \in BOOLEAN
  BY DEF Inv, Types, CallType, PointedInv
<1>2. /\ size \in 0 .. 2
      /\ \A x \in c.listed : Cardinality(c.listed \ {x}) = size - 1
  BY <1>1, ListedSize
<1> HIDE DEF size
<1>3. CASE Delete(p)
  <2> DEFINE there == paths["plain"] # 0
             d == Ends(c, there)
  <2>1. c.at = "unlink" /\ c.op = "delete" /\ Goes(p, d, there)
    BY <1>3 DEF Delete, Unlink, ReadPath
  <2>2. there \in BOOLEAN
    OBVIOUS
  <2> HIDE DEF there
  <2>3. d \in CallType /\ d.at = "done"
    BY <1>1, <2>2 DEF CallType, Steps, Ends
  <2> HIDE DEF d
  <2>4. Left(d) < Left(c) /\ Pointed(d)
    BY <2>1, <2>3 DEF Left, Pointed
  <2> QED BY <2>1, <2>2, <2>3, <2>4 DEF Nearer
<1>4. CASE List(p)
  <2> DEFINE found == {x \in Paths : paths[x] # 0}
             d == [c EXCEPT !.at = "look", !.listed = found, !.ok = TRUE]
  <2>1. c.at = "list" /\ Goes(p, d, FALSE)
    BY <1>4 DEF List
  <2>2. found \in SUBSET Paths
    OBVIOUS
  <2> HIDE DEF found
  <2>3. d \in CallType /\ d.at = "look" /\ d.listed = found
    BY <1>1, <2>2 DEF CallType, Steps
  <2>4. Cardinality(found) \in 0 .. 2
    BY <2>2, ListedSize
  <2> HIDE DEF d
  <2>5. Left(d) < Left(c) /\ Pointed(d)
    BY <2>1, <2>3, <2>4 DEF Left, Pointed
  <2> QED BY <1>1, <2>1, <2>3, <2>5 DEF Nearer
<1>5. CASE Look(p)
  <2>1. c.at = "look" /\ Left(c) = 2 * size + 1 /\ c.op = "clear"
    BY <1>5 DEF Look, Left, size, Inv, CallInv, CallOk
  <2>2. CASE Goes(p, Ends(c, c.ok), FALSE)
    <3> DEFINE d == Ends(c, c.ok)
    <3>1. d \in CallType /\ d.at = "done"
      BY <1>1 DEF CallType, Steps, Ends
    <3>2. Goes(p, d, FALSE)
      BY <2>2
    <3> HIDE DEF d
    <3>3. Left(d) = 0 /\ Pointed(d)
      BY <3>1 DEF Left, Pointed
    <3>4. Left(d) < Left(c)
      BY <1>2, <2>1, <3>3
    <3> QED BY <1>1, <3>1, <3>2, <3>3, <3>4 DEF Nearer
  <2>3. ASSUME NEW x \in c.listed, paths[x] = 0, Goes(p, [c EXCEPT !.listed = @ \ {x}], FALSE)
        PROVE  Nearer(p)
    <3> DEFINE rest == c.listed \ {x}
               d == [c EXCEPT !.listed = rest]
    <3>1. Goes(p, d, FALSE) /\ rest \in SUBSET Paths /\ Cardinality(rest) = size - 1
      BY <1>1, <1>2, <2>3
    <3> HIDE DEF rest
    <3>2. d \in CallType /\ d.at = "look" /\ d.listed = rest
      BY <1>1, <2>1, <3>1 DEF CallType
    <3> HIDE DEF d
    <3>3. Left(d) = 2 * (size - 1) + 1 /\ Pointed(d)
      BY <3>1, <3>2 DEF Left, Pointed
    <3>4. Left(d) < Left(c)
      BY <1>2, <2>1, <3>3
    <3> QED BY <1>1, <3>1, <3>2, <3>3, <3>4 DEF Nearer
  <2>4. ASSUME NEW x \in c.listed, Goes(p, [c EXCEPT !.at = "unlink", !.path = x], FALSE)
        PROVE  Nearer(p)
    <3> DEFINE d == [c EXCEPT !.at = "unlink", !.path = x]
    <3>1. /\ d \in CallType /\ d.at = "unlink" /\ d.op = "clear" /\ d.path = x
          /\ d.listed = c.listed
      BY <1>1, <2>1 DEF CallType, Steps
    <3>2. Goes(p, d, FALSE)
      BY <2>4
    <3> HIDE DEF d
    <3>3. Left(d) = 2 * size /\ Pointed(d)
      BY <3>1 DEF Left, Pointed, size
    <3>4. Left(d) < Left(c)
      BY <1>2, <2>1, <3>3
    <3> QED BY <1>1, <3>1, <3>2, <3>3, <3>4 DEF Nearer
  <2> QED BY <1>5, <2>2, <2>3, <2>4 DEF Look
<1>6. CASE ClearOne(p)
  <2> DEFINE there == paths[c.path] # 0
             rest == c.listed \ {c.path}
             ok == c.ok /\ there
             d == [c EXCEPT !.at = "look", !.listed = rest, !.ok = ok]
  <2>1. c.at = "unlink" /\ c.op = "clear" /\ Goes(p, d, there)
    BY <1>6 DEF ClearOne, Unlink
  <2>2. /\ there \in BOOLEAN /\ ok \in BOOLEAN /\ rest \in SUBSET Paths
        /\ Cardinality(rest) = size - 1
    BY <1>1, <1>2, <2>1 DEF Pointed, CallType
  <2> HIDE DEF there, ok, rest
  <2>3. d \in CallType /\ d.at = "look" /\ d.listed = rest
    BY <1>1, <2>2 DEF CallType, Steps
  <2> HIDE DEF d
  <2>4. Left(c) = 2 * size /\ Left(d) = 2 * (size - 1) + 1 /\ Pointed(d)
    BY <2>1, <2>2, <2>3 DEF Left, Pointed, size
  <2>5. Left(d) < Left(c)
    BY <1>2, <2>4
  <2> QED BY <2>1, <2>2, <2>3, <2>4, <2>5 DEF Nearer
<1> QED BY <1>3, <1>4, <1>5, <1>6

LEMMA FileStepNearer ==
    ASSUME Inv, PointedInv, NEW p \in Processes, FileStep(p)
    PROVE  Nearer(p) /\ Active(p)
<1>1. Nearer(p)
  BY ReadNearer, WriteNearer, RemoveNearer DEF FileStep
<1>2. Active(p)
  BY DEF FileStep, Active, Open, LockShared, Slurp, Check, Create, LockAndTruncate, Fill,
         Delete, List, Look, ClearOne
<1> QED BY <1>1, <1>2

LEMMA FileStepTime == ASSUME NEW p, FileStep(p) PROVE now' = now
BY DEF FileStep, Open, LockShared, Slurp, Check, Create, LockAndTruncate, Fill,
       Delete, List, Look, ClearOne, Unlink

LEMMA CallAlike ==
    ASSUME Inv, Inv', NEW p \in Processes, NEW op \in Operations, NEW s \in Spellings,
           NEW v \in Nat, NEW t \in Nat, Call(p, op, s, v, t)
    PROVE  Others(p) /\ Pointed(calls'[p])
<1> DEFINE w == Worth(store, now)
           alone == op # "get"
           start == [NoCall EXCEPT !.op = op, !.before = w, !.alone = alone]
           c == CASE op = "set" ->
                        [start EXCEPT !.at = "create", !.path = WritePath(s),
                                      !.payload = Stamped(v, t)]
                  [] op = "clear" -> [start EXCEPT !.at = "list"]
                  [] op = "increment" ->
                        [start EXCEPT !.at = "open", !.part = "has", !.path = WritePath(s)]
                  [] OTHER -> [start EXCEPT !.at = "open"]
<1>1. now' = now /\ Goes(p, c, FALSE)
  BY DEF Call
<1>2. w \in Nat \cup {Nothing} /\ Stamped(v, t) \in Payload /\ store' \in Entry
  BY WorthType DEF Inv, Types, Stamped, Payload
<1> alone \in BOOLEAN /\ FALSE \in BOOLEAN
  OBVIOUS
<1> HIDE DEF w, alone
<1>3. start \in CallType
  BY <1>2, NoCallType DEF CallType
<1> HIDE DEF start
<1>4. c \in CallType /\ c.at \in {"create", "list", "open"}
  <2>1. CASE op = "set"
    BY <1>2, <1>3, <2>1 DEF CallType, Steps, WritePath, Spellings, Paths
  <2>2. CASE op = "clear"
    BY <1>3, <2>2 DEF CallType, Steps
  <2>3. CASE op = "increment"
    BY <1>3, <2>3 DEF CallType, Steps, WritePath, Spellings, Paths
  <2>4. CASE op \in {"get", "delete"}
    BY <1>3, <2>4 DEF CallType, Steps
  <2> QED
    BY <2>1, <2>2, <2>3, <2>4 DEF Operations
<1> HIDE DEF c
<1>5. Alike(c, calls'[p]) /\ Others(p)
  BY <1>1, <1>2, <1>4, GoesAlike DEF Inv
<1>6. Pointed(calls'[p])
  BY <1>4, <1>5 DEF Alike, Pointed
<1> QED BY <1>5, <1>6

LEMMA FileStepAlike ==
    ASSUME Inv, Inv', PointedInv, NEW p \in Processes, FileStep(p)
    PROVE  Others(p) /\ Pointed(calls'[p]) /\ Left(calls'[p]) < Left(calls[p])
<1>1. PICK d \in CallType, changed \in BOOLEAN :
          Goes(p, d, changed) /\ Left(d) < Left(calls[p]) /\ Pointed(d)
  BY FileStepNearer DEF Nearer
<1>2. now' = now /\ store' \in Entry
  BY FileStepTime DEF Inv, Types
<1>3. Alike(d, calls'[p]) /\ Others(p)
  BY <1>1, <1>2, GoesAlike DEF Inv
<1> QED BY <1>1, <1>3, AlikeLeft

LEMMA DieAlike ==
    ASSUME Inv, Inv', NEW p \in Processes, Die(p)
    PROVE  Others(p) /\ Pointed(calls'[p]) /\ calls'[p].at = "dead"
<1> DEFINE d == [NoCall EXCEPT !.at = "dead"]
           torn == calls[p].at = "fill"
<1>1. now' = now /\ Goes(p, d, torn) /\ torn \in BOOLEAN
  BY DEF Die
<1>2. d \in CallType /\ d.at = "dead"
  BY NoCallType DEF CallType, Steps
<1> HIDE DEF d, torn
<1>3. Alike(d, calls'[p]) /\ Others(p)
  BY <1>1, <1>2, GoesAlike DEF Inv, Types
<1> QED BY <1>2, <1>3 DEF Alike, Pointed

LEMMA WriteFailedAlike ==
    ASSUME Inv, Inv', NEW p \in Processes, WriteFailed(p)
    PROVE  Others(p) /\ Pointed(calls'[p]) /\ calls'[p].at = "done"
<1> DEFINE d == Ends(calls[p], FALSE)
           torn == calls[p].at = "fill"
<1>1. now' = now /\ Goes(p, d, torn) /\ torn \in BOOLEAN
  BY DEF WriteFailed
<1>2. d \in CallType /\ d.at = "done"
  <2>1. calls[p] \in CallType
    BY DEF Inv, Types
  <2> QED BY <2>1 DEF CallType, Steps, Ends
<1> HIDE DEF d, torn
<1>3. Alike(d, calls'[p]) /\ Others(p)
  BY <1>1, <1>2, GoesAlike DEF Inv, Types
<1> QED BY <1>2, <1>3 DEF Alike, Pointed

LEMMA TickAlike ==
    ASSUME Inv, Inv', Tick, NEW q \in Processes
    PROVE  IF calls[q].at = "done" THEN calls'[q] = NoCall ELSE Alike(calls[q], calls'[q])
<1>1. calls[q] \in CallType /\ store \in Entry /\ now' \in Nat /\ TRUE \in BOOLEAN
  BY DEF Inv, Types
<1>2. CASE Active(q)
  <2> DEFINE e == Beside(q, TRUE)
  <2>1. calls'[q] = Sees(e, store, now')
    BY <1>2 DEF Tick
  <2>2. e \in CallType /\ Alike(calls[q], e)
    BY <1>1, BesideAlike
  <2> HIDE DEF e
  <2>3. Alike(e, calls'[q])
    BY <1>1, <2>1, <2>2, SeesAlike
  <2> QED BY <1>2, <2>2, <2>3 DEF Active, Alike
<1>3. CASE ~Active(q)
  <2>1. calls'[q] = Returned(q)
    BY <1>3 DEF Tick
  <2> QED BY <2>1 DEF Returned, Alike
<1> QED BY <1>2, <1>3

LEMMA OthersPointed ==
    ASSUME PointedInv, NEW p \in Processes, Others(p), Pointed(calls'[p])
    PROVE  PointedInv'
<1> SUFFICES ASSUME NEW q \in Processes, q # p PROVE Pointed(calls'[q])
  BY DEF PointedInv
<1>1. Pointed(calls[q]) /\ Pointed(NoCall)
  BY DEF PointedInv, Pointed, NoCall
<1> QED BY <1>1, AlikeLeft DEF Others

LEMMA PointedStep == Inv /\ Inv' /\ PointedInv /\ [Next]_vars => PointedInv'
<1> SUFFICES ASSUME Inv, Inv', PointedInv, [Next]_vars PROVE PointedInv'
  OBVIOUS
<1>1. CASE UNCHANGED vars
  BY <1>1 DEF vars, PointedInv
<1>2. ASSUME NEW p \in Processes, NEW op \in Operations \ {"set"}, NEW s \in Spellings,
             Call(p, op, s, 0, 0)
      PROVE  PointedInv'
  BY <1>2, CallAlike, OthersPointed
<1>3. ASSUME NEW p \in Processes, NEW s \in Spellings, NEW v \in Values, NEW t \in Ttls,
             Call(p, "set", s, v, t)
      PROVE  PointedInv'
  <2>1. v \in Nat /\ t \in Nat /\ "set" \in Operations
    BY NumbersAssumption DEF Operations
  <2> QED BY <1>3, <2>1, CallAlike, OthersPointed
<1>4. ASSUME NEW p \in Processes, FileStep(p) PROVE PointedInv'
  BY <1>4, FileStepAlike, OthersPointed
<1>5. ASSUME NEW p \in Processes, Die(p) PROVE PointedInv'
  BY <1>5, DieAlike, OthersPointed
<1>7. ASSUME NEW p \in Processes, WriteFailed(p) PROVE PointedInv'
  BY <1>7, WriteFailedAlike, OthersPointed
<1>6. CASE Tick
  <2>1. Pointed(NoCall)
    BY DEF Pointed, NoCall
  <2> QED BY <1>6, <2>1, TickAlike, AlikeLeft DEF PointedInv
<1> QED
  BY <1>1, <1>2, <1>3, <1>4, <1>5, <1>6, <1>7 DEF Next

\* What any step leaves of the steps ahead of a call in progress.
LEMMA LeftStep ==
    ASSUME Inv, Inv', PointedInv, Next, NEW p \in Processes, Active(p)
    PROVE  Left(calls'[p]) <= Left(calls[p])
<1>1. Left(calls[p]) \in 0 .. 11 /\ calls[p].at # "done"
  BY LeftType DEF Inv, Types, Active
<1>2. ASSUME NEW q \in Processes, q # p, Others(q) PROVE Left(calls'[p]) <= Left(calls[p])
  BY <1>1, <1>2, AlikeLeft DEF Others
<1>3. ASSUME NEW q \in Processes, NEW op \in Operations \ {"set"}, NEW s \in Spellings,
             Call(q, op, s, 0, 0)
      PROVE  Left(calls'[p]) <= Left(calls[p])
  <2>1. q # p
    BY <1>3 DEF Call, Active
  <2> QED BY <1>2, <1>3, <2>1, CallAlike
<1>4. ASSUME NEW q \in Processes, NEW s \in Spellings, NEW v \in Values, NEW t \in Ttls,
             Call(q, "set", s, v, t)
      PROVE  Left(calls'[p]) <= Left(calls[p])
  <2>1. v \in Nat /\ t \in Nat /\ "set" \in Operations /\ q # p
    BY <1>4, NumbersAssumption DEF Operations, Call, Active
  <2> QED BY <1>2, <1>4, <2>1, CallAlike
<1>5. ASSUME NEW q \in Processes, FileStep(q) PROVE Left(calls'[p]) <= Left(calls[p])
  <2>1. CASE q = p
    <3>1. Left(calls'[p]) < Left(calls[p]) /\ Left(calls'[p]) \in 0 .. 11
      BY <1>5, <2>1, FileStepAlike, LeftType DEF Inv, Types
    <3> QED BY <1>1, <3>1
  <2>2. CASE q # p
    BY <1>2, <1>5, <2>2, FileStepAlike
  <2> QED BY <2>1, <2>2
<1>6. ASSUME NEW q \in Processes, Die(q) PROVE Left(calls'[p]) <= Left(calls[p])
  <2>1. CASE q = p
    <3>1. Left(calls'[p]) = 0
      BY <1>6, <2>1, DieAlike DEF Left
    <3> QED BY <1>1, <3>1
  <2>2. CASE q # p
    BY <1>2, <1>6, <2>2, DieAlike
  <2> QED BY <2>1, <2>2
<1>8. ASSUME NEW q \in Processes, WriteFailed(q) PROVE Left(calls'[p]) <= Left(calls[p])
  <2>1. CASE q = p
    <3>1. Left(calls'[p]) = 0
      BY <1>8, <2>1, WriteFailedAlike DEF Left
    <3> QED BY <1>1, <3>1
  <2>2. CASE q # p
    BY <1>2, <1>8, <2>2, WriteFailedAlike
  <2> QED BY <2>1, <2>2
<1>7. CASE Tick
  <2>1. Left(calls'[p]) = Left(calls[p])
    BY <1>1, <1>7, TickAlike, AlikeLeft
  <2> QED BY <1>1, <2>1
<1> QED
  BY <1>3, <1>4, <1>5, <1>6, <1>7, <1>8 DEF Next

\* No call of the Stream adapter runs on: each file operation takes one at
\* least from a natural number that starts at 11 or less, and that nothing
\* the others do, no removal, no write and no death, ever raises.
THEOREM CallsRunOut ==
    Spec => /\ [](\A p \in Processes : Left(calls[p]) \in 0 .. 11)
            /\ [][\A p \in Processes :
                     /\ Active(p) => Left(calls'[p]) <= Left(calls[p])
                     /\ FileStep(p) => Left(calls'[p]) < Left(calls[p])]_vars
<1>1. Init => PointedInv
  BY DEF Init, PointedInv, Pointed, NoCall
<1>2. Inv => \A p \in Processes : Left(calls[p]) \in 0 .. 11
  BY LeftType DEF Inv, Types
<1>3. Inv /\ Inv' /\ PointedInv /\ [Next]_vars =>
          [\A p \in Processes :
              /\ Active(p) => Left(calls'[p]) <= Left(calls[p])
              /\ FileStep(p) => Left(calls'[p]) < Left(calls[p])]_vars
  BY LeftStep, FileStepAlike
<1> QED
  BY <1>1, <1>2, <1>3, StartInv, InvStep, PointedStep, PTL DEF Spec

LEMMA ReadersKept ==
    ASSUME Inv, ReadersInv, NEW p \in Processes, Others(p),
           \A f \in Ids : files'[f].readers \subseteq files[f].readers \cup {p},
           \A f \in Ids : p \in files'[f].readers =>
               calls'[p].at = "slurp" /\ calls'[p].file = f
    PROVE  ReadersInv'
<1> SUFFICES ASSUME NEW f \in Ids, NEW q \in files'[f].readers
             PROVE  calls'[q].at = "slurp" /\ calls'[q].file = f
  BY DEF ReadersInv
<1>1. CASE q = p
  BY <1>1
<1>2. CASE q # p
  <2>1. q \in files[f].readers /\ q \in Processes
    BY <1>2 DEF Inv, Types
  <2>2. calls[q].at = "slurp" /\ calls[q].file = f
    BY <2>1 DEF ReadersInv
  <2> QED BY <1>2, <2>1, <2>2 DEF Others, Alike
<1> QED BY <1>1, <1>2

\* A step after which files have no reader they had not, and p reads none.
LEMMA ReadersFewer ==
    ASSUME Inv, ReadersInv, NEW p \in Processes, Others(p),
           \A f \in Ids : files'[f].readers \subseteq files[f].readers,
           \/ calls[p].at # "slurp"
           \/ \A f \in Ids : p \notin files'[f].readers
    PROVE  ReadersInv'
<1>1. \A f \in Ids : p \notin files'[f].readers
  BY DEF ReadersInv
<1> QED BY <1>1, ReadersKept

\* Files that are closed, or fall out of use.
LEMMA ReadersClosed ==
    ASSUME NEW fs \in [Ids -> FileType], NEW p \in Processes, NEW ps, NEW cs, NEW f \in Ids
    PROVE  /\ Kept(fs, ps, cs)[f].readers \subseteq fs[f].readers
           /\ Kept(Closed(fs, p), ps, cs)[f].readers \subseteq fs[f].readers \ {p}
<1>1. NewFile.readers = {}
  BY DEF NewFile
<1>2. Closed(fs, p) \in [Ids -> FileType] /\ Closed(fs, p)[f].readers = fs[f].readers \ {p}
  BY ClosedType
<1>3. Kept(fs, ps, cs)[f].readers \subseteq fs[f].readers
  BY <1>1, KeptType
<1>4. Kept(Closed(fs, p), ps, cs)[f].readers \subseteq Closed(fs, p)[f].readers
  BY <1>1, <1>2, KeptType
<1> QED BY <1>2, <1>3, <1>4

LEMMA FileStepReaders ==
    ASSUME Inv, Inv', PointedInv, ReadersInv, NEW p \in Processes, FileStep(p)
    PROVE  ReadersInv'
<1> DEFINE c == calls[p]
<1>1. Others(p)
  BY FileStepAlike
<1>2. /\ c \in CallType /\ files \in [Ids -> FileType]
      /\ now' = now /\ store' \in Entry
  BY FileStepTime DEF Inv, Types, FileType
<1>3. CASE Open(p) \/ Check(p) \/ Create(p) \/ List(p) \/ Look(p)
  <2>1. files' = files /\ c.at # "slurp"
    BY <1>3 DEF Open, Check, Create, List, Look
  <2> QED BY <1>1, <2>1, ReadersFewer
<1>4. CASE LockShared(p)
  <2> DEFINE d == [c EXCEPT !.at = "slurp"]
  <2>1. /\ c.at = "share" /\ Goes(p, d, FALSE) /\ FALSE \in BOOLEAN
        /\ files' = [files EXCEPT ![c.file].readers = @ \cup {p}]
    BY <1>4 DEF LockShared
  <2>2. d \in CallType /\ d.at = "slurp" /\ d.file = c.file
    BY <1>2 DEF CallType, Steps
  <2> HIDE DEF d
  <2>3. calls'[p].at = "slurp" /\ calls'[p].file = c.file
    BY <1>2, <2>1, <2>2, GoesAlike DEF Alike, Inv
  <2>4. \A f \in Ids :
            files'[f].readers = IF f = c.file THEN files[f].readers \cup {p} ELSE files[f].readers
    BY <1>2, <2>1 DEF FileType
  <2>5. \A f \in Ids : p \notin files[f].readers
    BY <2>1 DEF ReadersInv
  <2> QED BY <1>1, <2>3, <2>4, <2>5, ReadersKept
<1>5. CASE Slurp(p)
  <2>1. files' = Kept(Closed(files, p), paths, calls')
    BY <1>5 DEF Slurp
  <2>2. \A f \in Ids : files'[f].readers \subseteq files[f].readers \ {p}
    BY <1>2, <2>1, ReadersClosed
  <2> QED BY <1>1, <2>2, ReadersFewer
<1>6. CASE LockAndTruncate(p)
  <2>1. c.at = "lock" /\ files' = [files EXCEPT ![c.file].writer = p, ![c.file].content = Torn]
    BY <1>6 DEF LockAndTruncate
  <2>2. \A f \in Ids : files'[f].readers = files[f].readers
    BY <1>2, <2>1 DEF FileType
  <2> QED BY <1>1, <2>1, <2>2, ReadersFewer
<1>7. CASE Fill(p)
  <2> DEFINE written == [files EXCEPT ![c.file].content = c.payload]
  <2>1. files' = Kept(Closed(written, p), paths', calls')
    BY <1>7 DEF Fill
  <2>2. c.file \in Ids /\ c.payload \in Payload
    BY <1>2, <1>7 DEF Fill, Inv, CallInv, CallOk, Holding, CallType
  <2>3. written \in [Ids -> FileType] /\ \A f \in Ids : written[f].readers = files[f].readers
    BY <1>2, <2>2 DEF FileType, Contents
  <2> HIDE DEF written
  <2>4. \A f \in Ids : files'[f].readers \subseteq files[f].readers \ {p}
    BY <2>1, <2>3, ReadersClosed
  <2> QED BY <1>1, <2>4, ReadersFewer
<1>8. CASE Delete(p) \/ ClearOne(p)
  <2>1. c.at = "unlink" /\ files' = Kept(files, paths', calls')
    BY <1>8 DEF Delete, ClearOne, Unlink
  <2>2. \A f \in Ids : files'[f].readers \subseteq files[f].readers
    BY <1>2, <2>1, ReadersClosed
  <2> QED BY <1>1, <2>1, <2>2, ReadersFewer
<1> QED
  BY <1>3, <1>4, <1>5, <1>6, <1>7, <1>8 DEF FileStep

LEMMA ReadersStep == Inv /\ Inv' /\ PointedInv /\ ReadersInv /\ [Next]_vars => ReadersInv'
<1> SUFFICES ASSUME Inv, Inv', PointedInv, ReadersInv, [Next]_vars PROVE ReadersInv'
  OBVIOUS
<1>1. CASE UNCHANGED vars
  BY <1>1 DEF vars, ReadersInv
<1>2. ASSUME NEW p \in Processes, NEW op \in Operations, NEW s \in Spellings,
             NEW v \in Nat, NEW t \in Nat, Call(p, op, s, v, t)
      PROVE  ReadersInv'
  <2>1. files' = files /\ calls[p].at # "slurp"
    BY <1>2 DEF Call
  <2> QED BY <1>2, <2>1, CallAlike, ReadersFewer
<1>3. ASSUME NEW p \in Processes, NEW s \in Spellings, NEW v \in Values, NEW t \in Ttls,
             Call(p, "set", s, v, t)
      PROVE  ReadersInv'
  <2>1. v \in Nat /\ t \in Nat /\ "set" \in Operations
    BY NumbersAssumption DEF Operations
  <2> QED BY <1>2, <1>3, <2>1
<1>4. ASSUME NEW p \in Processes, FileStep(p) PROVE ReadersInv'
  BY <1>4, FileStepReaders
<1>5. ASSUME NEW p \in Processes, Die(p) PROVE ReadersInv'
  <2>1. files' = Kept(Closed(files, p), paths, calls') /\ files \in [Ids -> FileType]
    BY <1>5 DEF Die, Inv, Types, FileType
  <2>2. \A f \in Ids : files'[f].readers \subseteq files[f].readers \ {p}
    BY <2>1, ReadersClosed
  <2> QED BY <1>5, <2>2, DieAlike, ReadersFewer
<1>7. ASSUME NEW p \in Processes, WriteFailed(p) PROVE ReadersInv'
  <2>1. files' = Kept(Closed(files, p), paths, calls') /\ files \in [Ids -> FileType]
    BY <1>7 DEF WriteFailed, Inv, Types, FileType
  <2>2. \A f \in Ids : files'[f].readers \subseteq files[f].readers \ {p}
    BY <2>1, ReadersClosed
  <2> QED BY <1>7, <2>2, WriteFailedAlike, ReadersFewer
<1>6. CASE Tick
  <2> SUFFICES ASSUME NEW f \in Ids, NEW q \in files[f].readers
               PROVE  calls'[q].at = "slurp" /\ calls'[q].file = f
    BY <1>6 DEF ReadersInv, Tick
  <2>1. q \in Processes /\ calls[q].at = "slurp" /\ calls[q].file = f
    BY DEF Inv, Types, ReadersInv
  <2> QED BY <1>6, <2>1, TickAlike DEF Alike
<1> QED
  BY <1>1, <1>2, <1>3, <1>4, <1>5, <1>6, <1>7 DEF Next

\* q has a lock that p needs.
WaitsFor(p, q) ==
    \/ calls[p].at = "share" /\ files[calls[p].file].writer = q
    \/ calls[p].at = "lock" /\ files[calls[p].file].writer = q
    \/ calls[p].at = "lock" /\ q \in files[calls[p].file].readers

\* Locks are never waited for in turn: the process that holds the one that
\* another needs is about to read or to write that very file, which takes no
\* lock, and lets go of it then.
THEOREM HoldersGoOn ==
    Spec => [](\A p, q \in Processes : WaitsFor(p, q) =>
                  /\ calls[q].at \in {"slurp", "fill"} /\ calls[q].file = calls[p].file
                  /\ \A r \in Processes : ~WaitsFor(q, r))
<1>1. Init => PointedInv /\ ReadersInv
  BY DEF Init, PointedInv, Pointed, NoCall, ReadersInv, NewFile
<1>2. ASSUME Inv, ReadersInv, NEW p \in Processes, NEW q \in Processes, WaitsFor(p, q)
      PROVE  /\ calls[q].at \in {"slurp", "fill"} /\ calls[q].file = calls[p].file
             /\ \A r \in Processes : ~WaitsFor(q, r)
  <2>1. calls[p].file \in Ids
    BY <1>2 DEF WaitsFor, Inv, CallInv, CallOk, Holding
  <2>2. calls[q].at \in {"slurp", "fill"} /\ calls[q].file = calls[p].file
    BY <1>2, <2>1, NamesAssumption DEF WaitsFor, Inv, Locks, ReadersInv
  <2> QED BY <2>2 DEF WaitsFor
<1>3. Inv /\ ReadersInv =>
          \A p, q \in Processes : WaitsFor(p, q) =>
              /\ calls[q].at \in {"slurp", "fill"} /\ calls[q].file = calls[p].file
              /\ \A r \in Processes : ~WaitsFor(q, r)
  BY <1>2
<1> QED
  BY <1>1, <1>3, StartInv, InvStep, PointedStep, ReadersStep, PTL DEF Spec

============================================================================
