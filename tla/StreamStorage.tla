--------------------------- MODULE StreamStorage ---------------------------
(***************************************************************************)
(* Phalcon\Storage\Adapter\Stream: values with a time to live, one file    *)
(* for each, used by processes (PHP requests) that know nothing of one     *)
(* another and may be killed at any moment.  A call is a sequence of file  *)
(* operations; other processes run between any two of them.                *)
(*                                                                         *)
(* The model has one entry.  Callers may spell its key in two ways, as     *)
(* "key" and, as getKeys() answers it, as "ph-strmkey": the methods that   *)
(* read and remove take the prefix off the name of the file, set() takes   *)
(* it off the name of the directory only.  has() is the read of get(), so  *)
(* get stands for both; decrement() is increment() with another sum.       *)
(*                                                                         *)
(* Files (external): a path leads to a file; a file that was unlinked      *)
(* lives on while a process has it open.  fopen() and flock() act on the   *)
(* file, file_get_contents() on whatever file the path leads to.           *)
(* file_put_contents(LOCK_EX) opens the file, or makes it, waits for the   *)
(* lock, truncates the file and writes.  The locks of a process end with   *)
(* it.                                                                     *)
(***************************************************************************)
EXTENDS Naturals, FiniteSets

CONSTANTS Processes,
          Nobody,       \* no process
          Nothing,      \* no value
          Torn,         \* what is in a file between its truncation and its writing
          Values,       \* numbers callers store
          Ttls,         \* times to live callers give
          Lifetime,     \* this->lifetime, the time to live of increment()
          MaxCalls,     \* bound: calls made
          MaxTime,      \* bound: the clock
          MaxFiles      \* bound: files alive at the same time

ASSUME NamesAssumption ==
    /\ Nobody \notin Processes
    /\ Nothing \notin Nat /\ Nothing \notin [value : Nat, created : Nat, ttl : Nat]
    /\ Torn \notin [value : Nat, created : Nat, ttl : Nat]
ASSUME NumbersAssumption ==
    /\ Values \subseteq Nat /\ Ttls \subseteq Nat /\ Lifetime \in Nat
    /\ MaxCalls \in Nat /\ MaxTime \in Nat /\ MaxFiles \in Nat \ {0}

VARIABLES paths,    \* path -> file, 0 for none
          files,    \* what the files contain, and who has locked them
          calls,    \* the call each process is in
          now,      \* time()
          made,     \* calls counted by MaxCalls
          store     \* the entry as the last completed write, or the last
                    \* removal, left it (history)

vars == <<paths, files, calls, now, made, store>>

Spellings == {"plain", "prefixed"}
Paths     == Spellings         \* the file called "key" and the one called "ph-strmkey"
Ids       == 1 .. MaxFiles
Payload   == [value : Nat, created : Nat, ttl : Nat]
NoPayload == [value |-> 0, created |-> 0, ttl |-> 0]

\* getFilepath(), and the path set() writes to.
ReadPath(spelling)  == "plain"
WritePath(spelling) == spelling

Expired(payload, time) == payload.created + payload.ttl < time

\* What the entry is worth to a reader at a time.
Worth(entry, time) ==
    IF entry = Nothing \/ Expired(entry, time) THEN Nothing ELSE entry.value

----------------------------------------------------------------------------
(* Files *)

NewFile == [content |-> Torn, readers |-> {}, writer |-> Nobody]

InUse(ps, cs) == {ps[x] : x \in Paths} \cup {cs[p].file : p \in Processes}
Free  == Ids \ InUse(paths, calls)
NewId == CHOOSE f \in Free : TRUE

\* Files nobody refers to are gone.
Kept(fs, ps, cs) == [f \in Ids |-> IF f \in InUse(ps, cs) THEN fs[f] ELSE NewFile]

\* fclose(), or the end of the process: its locks are released.
Closed(fs, p) ==
    [f \in Ids |-> [fs[f] EXCEPT !.readers = @ \ {p},
                                 !.writer  = IF @ = p THEN Nobody ELSE @]]

----------------------------------------------------------------------------
(* Calls.  at: the next file operation.  part: which read or write of      *)
(* increment() this is.  read: the payload of the last read.  found: what  *)
(* that read made of it.  ok: the boolean answer.  The rest is history:    *)
(* seen, what the entry was worth at some moment of the call; before, what *)
(* it was worth at the start; alone, no time has passed and nobody else    *)
(* has changed a file since.                                               *)

Readers    == {"get", "delete", "increment"}
Operations == {"get", "delete", "increment", "set", "clear"}

NoCall ==
    [op |-> "none", at |-> "idle", part |-> "only", payload |-> NoPayload,
     path |-> "plain", listed |-> {}, file |-> 0, read |-> Nothing,
     found |-> Nothing, ok |-> FALSE,
     seen |-> {}, before |-> Nothing, alone |-> FALSE]

Stamped(value, ttl) == [value |-> value, created |-> now, ttl |-> ttl]

\* Earlier requests may have left the entry behind.
Init ==
    /\ now = 0 /\ made = 0
    /\ calls = [p \in Processes |-> NoCall]
    /\ store \in {Nothing} \cup {Stamped(v, t) : v \in Values, t \in Ttls}
    /\ paths = [x \in Paths |-> IF x = ReadPath("plain") /\ store # Nothing THEN 1 ELSE 0]
    /\ files = [f \in Ids |-> IF f = 1 /\ store # Nothing
                              THEN [NewFile EXCEPT !.content = store] ELSE NewFile]

Active(p) == calls[p].at \notin {"idle", "done", "dead"}

\* A call that reads sees what the entry is worth; what it was worth at the
\* start matters to a call that is alone.
Sees(c, entry, time) ==
    [c EXCEPT !.seen   = IF c.op \in Readers THEN @ \cup {Worth(entry, time)} ELSE @,
              !.before = IF c.alone /\ c.op \in Readers THEN @ ELSE Nothing]

\* A call that is done has returned by the next step of anybody.
Returned(q) == IF calls[q].at = "done" THEN NoCall ELSE calls[q]

\* The call of q, once another process has taken a step.
Beside(q, changed) == [calls[q] EXCEPT !.alone = IF changed THEN FALSE ELSE @]

\* The call of p goes on as c.  Every call in progress sees what the entry is
\* worth now.  changed: p has written or removed a file.
Goes(p, c, changed) ==
    calls' = [q \in Processes |->
        IF q = p THEN Sees(c, store', now)
        ELSE IF Active(q) THEN Sees(Beside(q, changed), store', now)
        ELSE Returned(q)]

Ends(c, ok) == [c EXCEPT !.at = "done", !.file = 0, !.ok = ok]

\* A process calls a method, its first or its next.
Call(p, op, spelling, value, ttl) ==
    LET start == [NoCall EXCEPT !.op = op, !.before = Worth(store, now), !.alone = op # "get"]
    IN  /\ calls[p].at \in {"idle", "done"}
        /\ made < MaxCalls
        /\ made' = made + 1
        /\ UNCHANGED <<paths, files, now, store>>
        /\ Goes(p, CASE op = "set" ->
                        [start EXCEPT !.at = "create", !.path = WritePath(spelling),
                                      !.payload = Stamped(value, ttl)]
                     [] op = "clear" -> [start EXCEPT !.at = "list"]
                     [] op = "increment" ->
                        [start EXCEPT !.at = "open", !.part = "has",
                                      !.path = WritePath(spelling)]
                     [] OTHER -> [start EXCEPT !.at = "open"],
                FALSE)

\* A second passes.
Tick ==
    /\ now < MaxTime
    /\ now' = now + 1
    /\ calls' = [q \in Processes |->
          IF Active(q) THEN Sees(Beside(q, TRUE), store, now')
          ELSE Returned(q)]
    /\ UNCHANGED <<paths, files, made, store>>

----------------------------------------------------------------------------
(* Reading: get(), and the first halves of delete() and increment()        *)

\* Mutant: increment() does not ask has() before it reads and writes.
AfterReadUnasked(c, found) ==
    LET d == [c EXCEPT !.file = 0, !.found = found,
                       !.read = IF found = Nothing THEN @ ELSE Nothing]
    IN  CASE c.op = "get" -> Ends(d, found # Nothing)
          [] c.op = "delete" /\ found # Nothing -> [d EXCEPT !.at = "unlink"]
          [] c.op = "increment" ->
                [d EXCEPT !.at = "create", !.part = "write",
                          !.payload = Stamped((IF found = Nothing THEN 0 ELSE found) + 1,
                                              Lifetime)]
          [] OTHER -> Ends(d, FALSE)

\* What the method does with the outcome of its read.  increment() reads
\* twice, and counts from 0 when its second read finds nothing.
AfterRead(c, found) ==
    LET d == [c EXCEPT !.file = 0, !.found = found,
                       !.read = IF found = Nothing THEN @ ELSE Nothing]
    IN  CASE c.op = "get" -> Ends(d, found # Nothing)
          [] c.op = "delete" /\ found # Nothing -> [d EXCEPT !.at = "unlink"]
          [] c.op = "increment" /\ c.part = "get" ->
                [d EXCEPT !.at = "create", !.part = "write",
                          !.payload = Stamped((IF found = Nothing THEN 0 ELSE found) + 1,
                                              Lifetime)]
          [] c.op = "increment" /\ c.part = "has" /\ found # Nothing ->
                [d EXCEPT !.at = "open", !.part = "get"]
          [] OTHER -> Ends(d, FALSE)

\* file_exists() and fopen().  A file that is gone between the two makes
\* getPayload() answer [], which comes to the same as none at all; so the
\* moment of the call that decides is one.
Open(p) ==
    LET c == calls[p]
        f == paths[ReadPath("plain")]
    IN  /\ c.at = "open"
        /\ UNCHANGED <<paths, files, now, made, store>>
        /\ Goes(p, IF f = 0 THEN AfterRead([c EXCEPT !.read = Nothing], Nothing)
                            ELSE [c EXCEPT !.at = "share", !.file = f], FALSE)

\* Mutant: the lock of the writer is not waited for.
LockSharedUnasked(p) ==
    /\ calls[p].at = "share"
    /\ UNCHANGED <<paths, files, now, made, store>>
    /\ Goes(p, [calls[p] EXCEPT !.at = "slurp"], FALSE)

\* flock(LOCK_SH) waits for the writer of the file.
LockShared(p) ==
    LET c == calls[p]
    IN  /\ c.at = "share"
        /\ files[c.file].writer = Nobody
        /\ files' = [files EXCEPT ![c.file].readers = @ \cup {p}]
        /\ UNCHANGED <<paths, now, made, store>>
        /\ Goes(p, [c EXCEPT !.at = "slurp"], FALSE)

\* Mutant: the pointer stays open.
SlurpKeeping(p) ==
    LET c == calls[p]
        f == paths[ReadPath("plain")]
    IN  /\ c.at = "slurp"
        /\ UNCHANGED <<paths, files, now, made, store>>
        /\ Goes(p, IF f = 0 \/ files[f].content = Torn
                   THEN AfterRead([c EXCEPT !.read = Nothing], Nothing)
                   ELSE [c EXCEPT !.at = "check", !.read = files[f].content], FALSE)

\* file_get_contents(filepath), then fclose(): the contents are those of the
\* file the path leads to now, which need not be the one that is locked.
Slurp(p) ==
    LET c == calls[p]
        f == paths[ReadPath("plain")]
        d == [c EXCEPT !.file = 0]
    IN  /\ c.at = "slurp"
        /\ UNCHANGED <<paths, now, made, store>>
        /\ Goes(p, IF f = 0 \/ files[f].content = Torn
                   THEN AfterRead([d EXCEPT !.read = Nothing], Nothing)
                   ELSE [d EXCEPT !.at = "check", !.read = files[f].content], FALSE)
        /\ files' = Kept(Closed(files, p), paths, calls')

\* isExpired() looks at the clock after the file was read.
Check(p) ==
    /\ calls[p].at = "check"
    /\ UNCHANGED <<paths, files, now, made, store>>
    /\ Goes(p, AfterRead(calls[p], Worth(calls[p].read, now)), FALSE)

----------------------------------------------------------------------------
(* Writing: file_put_contents(..., LOCK_EX) of set() and increment()       *)

Create(p) ==
    LET c == calls[p]
        f == IF paths[c.path] = 0 THEN NewId ELSE paths[c.path]
    IN  /\ c.at = "create"
        /\ paths[c.path] = 0 => Free # {}
        /\ paths' = [paths EXCEPT ![c.path] = f]
        /\ UNCHANGED <<files, now, made, store>>
        /\ Goes(p, [c EXCEPT !.at = "lock", !.file = f], TRUE)

\* Mutant: the lock is taken beside those of others.
LockAndTruncateAtOnce(p) ==
    LET c == calls[p]
    IN  /\ c.at = "lock"
        /\ files' = [files EXCEPT ![c.file].writer = p, ![c.file].content = Torn]
        /\ UNCHANGED <<paths, now, made, store>>
        /\ Goes(p, [c EXCEPT !.at = "fill"], TRUE)

\* The file is truncated as soon as it is locked.
LockAndTruncate(p) ==
    LET c == calls[p]
    IN  /\ c.at = "lock"
        /\ files[c.file].writer = Nobody /\ files[c.file].readers = {}
        /\ files' = [files EXCEPT ![c.file].writer = p, ![c.file].content = Torn]
        /\ UNCHANGED <<paths, now, made, store>>
        /\ Goes(p, [c EXCEPT !.at = "fill"], TRUE)

\* A file that was removed in the meantime is written all the same.
Fill(p) ==
    LET c == calls[p]
    IN  /\ c.at = "fill"
        /\ store' = IF paths[ReadPath("plain")] = c.file THEN c.payload ELSE store
        /\ Goes(p, Ends(c, TRUE), TRUE)
        /\ files' = Kept(Closed([files EXCEPT ![c.file].content = c.payload], p),
                         paths, calls')
        /\ UNCHANGED <<paths, now, made>>

----------------------------------------------------------------------------
(* Removing: the second half of delete(), and clear()                      *)

\* unlink(); c is the call once the file is gone.
Unlink(p, x, c) ==
    /\ paths' = [paths EXCEPT ![x] = 0]
    /\ store' = IF x = ReadPath("plain") THEN Nothing ELSE store
    /\ Goes(p, c, paths[x] # 0)
    /\ files' = Kept(files, paths', calls')
    /\ UNCHANGED <<now, made>>

Delete(p) ==
    /\ calls[p].at = "unlink"
    /\ calls[p].op = "delete"
    /\ Unlink(p, ReadPath("plain"), Ends(calls[p], paths[ReadPath("plain")] # 0))

\* The iterator lists the directory.
List(p) ==
    LET found == {x \in Paths : paths[x] # 0}
    IN  /\ calls[p].at = "list"
        /\ UNCHANGED <<paths, files, now, made, store>>
        /\ Goes(p, [calls[p] EXCEPT !.at = "look", !.listed = found, !.ok = TRUE], FALSE)

\* isFile() passes over what is gone by now.
Look(p) ==
    LET c == calls[p]
    IN  /\ c.at = "look"
        /\ UNCHANGED <<paths, files, now, made, store>>
        /\ \/ c.listed = {} /\ Goes(p, Ends(c, c.ok), FALSE)
           \/ \E x \in c.listed :
                Goes(p, IF paths[x] = 0 THEN [c EXCEPT !.listed = @ \ {x}]
                        ELSE [c EXCEPT !.at = "unlink", !.path = x], FALSE)

\* What vanished between isFile() and unlink() makes clear() answer false.
ClearOne(p) ==
    LET c == calls[p]
    IN  /\ c.at = "unlink"
        /\ c.op = "clear"
        /\ Unlink(p, c.path, [c EXCEPT !.at = "look", !.listed = @ \ {c.path},
                                       !.ok = @ /\ paths[c.path] # 0])

----------------------------------------------------------------------------
(* A process is killed in the middle of a call: its locks are released, and *)
(* the file it was writing stays as it is.                                  *)

Die(p) ==
    LET c == calls[p]
    IN  /\ Active(p)
        /\ store' = IF c.at = "fill" /\ paths[ReadPath("plain")] = c.file
                    THEN Nothing ELSE store
        /\ Goes(p, [NoCall EXCEPT !.at = "dead"], c.at = "fill")
        /\ files' = Kept(Closed(files, p), paths, calls')
        /\ UNCHANGED <<paths, now, made>>

\* file_put_contents() fails: it cannot open the file and nothing has changed,
\* or it cannot write it all (the disk is full) and leaves it as a killed
\* process does.  set() answers false; increment() answers what set() does.
WriteFailed(p) ==
    LET c == calls[p]
    IN  /\ c.at \in {"create", "fill"}
        /\ store' = IF c.at = "fill" /\ paths[ReadPath("plain")] = c.file
                    THEN Nothing ELSE store
        /\ Goes(p, Ends(c, FALSE), c.at = "fill")
        /\ files' = Kept(Closed(files, p), paths, calls')
        /\ UNCHANGED <<paths, now, made>>

FileStep(p) ==
    \/ Open(p) \/ LockShared(p) \/ Slurp(p) \/ Check(p)
    \/ Create(p) \/ LockAndTruncate(p) \/ Fill(p)
    \/ Delete(p) \/ List(p) \/ Look(p) \/ ClearOne(p)

Next ==
    \/ \E p \in Processes :
        \/ \E op \in Operations \ {"set"} : \E s \in Spellings :
              (op # "increment" => s = "plain") /\ Call(p, op, s, 0, 0)
        \/ \E s \in Spellings, v \in Values, t \in Ttls : Call(p, "set", s, v, t)
        \/ FileStep(p)
        \/ Die(p)
        \/ WriteFailed(p)
    \/ Tick

\* A running request goes on with its call.
Fairness == \A p \in Processes : WF_vars(FileStep(p))

Spec == Init /\ [][Next]_vars /\ Fairness

----------------------------------------------------------------------------
(* Properties *)

Steps == {"idle", "open", "share", "slurp", "check", "create", "lock",
          "fill", "unlink", "list", "look", "done", "dead"}

CallType ==
    [op : Operations \cup {"none"}, at : Steps, part : {"only", "has", "get", "write"},
     payload : Payload, path : Paths, listed : SUBSET Paths, file : Ids \cup {0},
     read : Payload \cup {Nothing}, found : Nat \cup {Nothing}, ok : BOOLEAN,
     seen : SUBSET (Nat \cup {Nothing}), before : Nat \cup {Nothing}, alone : BOOLEAN]

\* The types, and that locks exclude one another: who writes a file is alone
\* with it, and holds the lock of the file it has open (flock() as getPayload()
\* and set() use it).
TypeOK ==
    /\ paths \in [Paths -> Ids \cup {0}]
    /\ files \in [Ids -> [content : Payload \cup {Torn}, readers : SUBSET Processes,
                          writer : Processes \cup {Nobody}]]
    /\ calls \in [Processes -> CallType]
    /\ now \in Nat /\ made \in Nat
    /\ store \in Payload \cup {Nothing}
    /\ \A f \in Ids : files[f].writer # Nobody =>
          /\ files[f].readers = {}
          /\ calls[files[f].writer].at = "fill" /\ calls[files[f].writer].file = f

RanOut(c) == c.read # Nothing /\ Expired(c.read, now)

\* What a method answers of the entry was true at some moment of the call,
\* whatever other processes wrote, removed or left half written meanwhile:
\* get() answers a value the entry had; get(), delete() and increment() answer
\* that there is none when there was none, or the one they read has run out
\* (get, has, delete, increment with getPayload, though getPayload() locks one
\* file and may read another).  An increment() whose own write failed answers
\* that, and nothing of the entry.
AnswersAreCurrent ==
    \A p \in Processes :
        LET c == calls[p]
        IN  c.at = "done" /\ c.op \in Readers =>
                /\ c.ok /\ c.op = "get" => c.found \in c.seen
                /\ ~c.ok /\ c.part # "write" => Nothing \in c.seen \/ RanOut(c)

\* A call nobody disturbs does what it says: set() stores what it answers true
\* for, delete() removes what get() then would not find, increment() adds one
\* to what there was, and refuses when there was nothing or its write fails,
\* clear() leaves no file, torn ones and those of prefixed keys included.
AloneMeansDone ==
    \A p \in Processes :
        LET c == calls[p]
        IN  c.at = "done" /\ c.alone =>
                /\ c.op = "set" /\ c.path = "plain" /\ c.ok => store = c.payload
                /\ c.op = "delete" => c.ok = (c.before # Nothing) /\ Worth(store, now) = Nothing
                /\ c.op = "increment" /\ c.path = "plain" =>
                      /\ c.ok => c.before # Nothing /\ Worth(store, now) = c.before + 1
                      /\ ~c.ok => c.before = Nothing \/ c.part = "write"
                /\ c.op = "clear" => c.ok /\ \A x \in Paths : paths[x] = 0

\* Every call comes to its end, or its process is killed: nobody waits for a
\* lock that is never released, whoever dies (fclose() in getPayload(), and
\* the locks of a process that is gone).
CallsReturn == \A p \in Processes : Active(p) ~> ~Active(p)

============================================================================
