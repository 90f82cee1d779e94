------------------------------- MODULE QueryLog -------------------------------
(***************************************************************************)
(* The query log: package internal/querylog, files qlog.go (adding and     *)
(* clearing), querylogfile.go (flushing and rotating) and search.go.       *)
(*                                                                         *)
(* DNS goroutines push entries into a ring buffer under bufferLock.  When  *)
(* it is full, a goroutine is started that takes fileFlushLock, encodes    *)
(* the buffer and appends it to the log file.  Clearing takes the same     *)
(* lock; rotating, which renames the file, and searching take none.        *)
(*                                                                         *)
(* An entry is its number in the order of the pushes and the time at which *)
(* newLogEntry made it.  A file is the sequence of its entries.            *)
(***************************************************************************)
EXTENDS Integers, Sequences

CONSTANTS
    Worker,      \* goroutines serving DNS queries
    FileEnabled, \* conf.FileEnabled
    MemSize,     \* conf.MemSize
    Ivls,        \* rotation intervals
    Bad,         \* numbers of the entries that cannot be encoded
    None,        \* no file, no file descriptor
    MaxEntries,  \* bound on the number of entries made
    MaxTime,     \* bound on the clock
    MaxUse,      \* bound on the changes of the configuration and the searches
    MaxClear,    \* bound on the requests to clear the log
    MaxShutdown, \* bound on the calls of Shutdown
    MaxRestart   \* bound on the crashes and restarts

\* The capacity of the ring buffer, see newQueryLog.
Capacity == IF MemSize = 0 THEN 1 ELSE MemSize

Entry == [n: 1..MaxEntries, t: 0..MaxTime]

ASSUME QueryLogAssumption ==
    /\ FileEnabled \in BOOLEAN
    /\ MemSize \in Nat
    /\ Ivls \subseteq Nat /\ Ivls # {}
    /\ None \notin Seq(Entry) \cup (0..MaxTime) \cup {"cur", "old", "gone"}
    /\ {MaxEntries, MaxTime, MaxUse, MaxClear, MaxShutdown, MaxRestart} \subseteq Nat

VARIABLES
    enabled, ivl,   \* conf.Enabled and conf.RotationIvl
    now,            \* the clock
    made,           \* the number of entries made
    pushed,         \* the number of entries pushed
    pending,        \* for each worker, the time of the entry it is adding, or None
    buffer,         \* the ring buffer, the oldest entry first
    flushPending,
    waiting,        \* the number of goroutines about to call flushLogBuffer
    holder,         \* who holds fileFlushLock
    at,             \* where the holder is
    bytes,          \* the entries encoded but not written yet
    fd,             \* the file that flushToFile has open
    old, cur,       \* the files querylog.json.1 and querylog.json
    rpc,            \* where checkAndRotate is
    spc, sseen, sfound, \* where a search is, what was logged when it started,
                    \* and what it has found
    count,          \* numbers of the bounded events
    cutoff,         \* history: the entries pushed before the last clear
    crossed,        \* history: the log was rotated in the middle of a clear
    overwritten     \* history: the entries dropped from the full buffer

conf == <<enabled, ivl>>
mem == <<made, pushed, pending, buffer, flushPending, waiting>>
lock == <<holder, at, bytes, fd>>
disk == <<old, cur>>
search == <<spc, sseen, sfound>>
history == <<cutoff, crossed, overwritten>>
vars == <<conf, now, mem, lock, disk, rpc, search, count, history>>

Bounds ==
    [use |-> MaxUse, clear |-> MaxClear, shutdown |-> MaxShutdown, restart |-> MaxRestart]

\* A bounded event happens.
Counted(e) == count[e] < Bounds[e] /\ count' = [count EXCEPT ![e] = @ + 1]

Content(f) == IF f = None THEN <<>> ELSE f
Numbers(s) == {s[i].n : i \in 1..Len(s)}
Logged == Numbers(buffer) \cup Numbers(bytes) \cup Numbers(Content(cur)) \cup Numbers(Content(old))

Init ==
    /\ enabled \in BOOLEAN /\ ivl \in Ivls
    /\ now = 0 /\ made = 0 /\ pushed = 0
    /\ pending = [w \in Worker |-> None]
    /\ buffer = <<>> /\ flushPending = FALSE /\ waiting = 0
    /\ holder = "none" /\ at = "none" /\ bytes = <<>> /\ fd = None
    /\ old = None /\ cur = None
    /\ rpc = "check"
    /\ spc = "idle" /\ sseen = {} /\ sfound = {}
    /\ count = [e \in DOMAIN Bounds |-> 0]
    /\ cutoff = 0 /\ crossed = FALSE /\ overwritten = {}

Tick ==
    /\ now < MaxTime
    /\ now' = now + 1
    /\ UNCHANGED <<conf, mem, lock, disk, rpc, search, count, history>>

\* handleQueryLogConfig and applyQueryLogConfig.
SetConfig(e, i) ==
    /\ holder # "clear"   \* home's controlLock
    /\ Counted("use")
    /\ enabled' = e /\ ivl' = i
    /\ UNCHANGED <<now, mem, lock, disk, rpc, search, history>>

------------------------------------------------------------------------------
(***************************************************************************)
(* Add.                                                                    *)
(***************************************************************************)
\* The configuration is read and the entry made, without bufferLock.
newLogEntry(w) ==
    /\ pending[w] = None
    /\ enabled
    /\ made < MaxEntries
    /\ made' = made + 1
    /\ pending' = [pending EXCEPT ![w] = now]
    /\ UNCHANGED <<conf, now, pushed, buffer, flushPending, waiting, lock, disk, rpc,
                   search, count, history>>

\* Mutant: the buffer is not a ring.
PushMore(s, e) == Append(s, e)

\* Push drops the oldest entry of a full buffer.
Push(s, e) == Append(IF Len(s) = Capacity THEN Tail(s) ELSE s, e)

FlushDue(n) == n >= MemSize

Add(w) ==
    LET e == [n |-> pushed + 1, t |-> pending[w]]
        full == Push(buffer, e)
        flush == ~flushPending /\ FileEnabled /\ FlushDue(Len(full))
    IN  /\ pending[w] # None
        /\ pushed' = e.n
        /\ buffer' = full
        /\ flushPending' = (flushPending \/ flush)
        /\ waiting' = IF flush THEN waiting + 1 ELSE waiting
        /\ pending' = [pending EXCEPT ![w] = None]
        /\ overwritten' = IF Len(buffer) = Capacity
                          THEN overwritten \cup {Head(buffer).n} ELSE overwritten
        /\ UNCHANGED <<conf, now, made, lock, disk, rpc, search, count, cutoff, crossed>>

------------------------------------------------------------------------------
(***************************************************************************)
(* flushLogBuffer.                                                         *)
(***************************************************************************)
Release == holder' = "none" /\ at' = "none" /\ bytes' = <<>> /\ fd' = None

\* A goroutine started by Add gets fileFlushLock.
FlushLock ==
    /\ waiting > 0 /\ holder = "none"
    /\ waiting' = waiting - 1
    /\ holder' = "flush" /\ at' = "encode"
    /\ UNCHANGED <<conf, now, made, pushed, pending, buffer, flushPending, bytes, fd, disk,
                   rpc, search, count, history>>

\* Shutdown gets it.
Shutdown ==
    /\ FileEnabled /\ holder = "none"
    /\ Counted("shutdown")
    /\ holder' = "shutdown" /\ at' = "encode"
    /\ UNCHANGED <<conf, now, mem, bytes, fd, disk, rpc, search, history>>

\* Mutant: fileFlushLock is not unlocked when there is an error.
EncodeFailsLocked ==
    /\ at = "encode"
    /\ buffer = <<>> \/ Numbers(buffer) \cap Bad # {}
    /\ UNCHANGED vars

\* There is nothing to write, or an entry cannot be encoded: the buffer and
\* flushPending stay as they are.
EncodeFails ==
    /\ at = "encode"
    /\ buffer = <<>> \/ Numbers(buffer) \cap Bad # {}
    /\ Release
    /\ UNCHANGED <<conf, now, mem, disk, rpc, search, count, history>>

\* Mutant: the buffer is not cleared.
TakeBufferKept == UNCHANGED buffer /\ flushPending' = FALSE

\* Mutant: flushPending is not reset.
TakeBufferPending == buffer' = <<>> /\ UNCHANGED flushPending

TakeBuffer == buffer' = <<>> /\ flushPending' = FALSE

encodeEntries ==
    /\ at = "encode"
    /\ buffer # <<>> /\ Numbers(buffer) \cap Bad = {}
    /\ bytes' = buffer
    /\ TakeBuffer
    /\ at' = "open"
    /\ UNCHANGED <<conf, now, made, pushed, pending, waiting, holder, fd, disk, rpc,
                   search, count, history>>

\* flushToFile: the file is opened, and created if it does not exist.
OpenFile ==
    /\ at = "open"
    /\ cur' = Content(cur)
    /\ fd' = "cur"
    /\ at' = "write"
    /\ UNCHANGED <<conf, now, mem, holder, bytes, old, rpc, search, count, history>>

OpenFails ==
    /\ at = "open"
    /\ Release
    /\ UNCHANGED <<conf, now, mem, disk, rpc, search, count, history>>

\* The entries in s are appended to the file that is open, wherever a rotation
\* has moved it meanwhile.
WriteTo(s) ==
    /\ cur' = IF fd = "cur" THEN cur \o s ELSE cur
    /\ old' = IF fd = "old" THEN old \o s ELSE old

WriteFile ==
    /\ at = "write"
    /\ WriteTo(bytes)
    /\ Release
    /\ UNCHANGED <<conf, now, mem, rpc, search, count, history>>

\* A part of the entries is written; the rest is lost.
WriteFails ==
    /\ at = "write"
    /\ \E k \in 0..(Len(bytes) - 1) : WriteTo(SubSeq(bytes, 1, k))
    /\ Release
    /\ UNCHANGED <<conf, now, mem, rpc, search, count, history>>

------------------------------------------------------------------------------
(***************************************************************************)
(* clear.                                                                  *)
(***************************************************************************)
ClearLock ==
    /\ holder = "none"
    /\ Counted("clear")
    /\ holder' = "clear" /\ at' = "buffer"
    /\ cutoff' = pushed
    /\ crossed' = FALSE
    /\ UNCHANGED <<conf, now, mem, bytes, fd, disk, rpc, search, overwritten>>

ClearBuffer ==
    /\ at = "buffer"
    /\ buffer' = <<>> /\ flushPending' = FALSE
    /\ at' = "old"
    /\ UNCHANGED <<conf, now, made, pushed, pending, waiting, holder, bytes, fd, disk, rpc,
                   search, count, history>>

\* Mutant: the rotated file is forgotten.
RemovedOldKept == old

RemovedOld == None

ClearOld ==
    /\ at = "old"
    /\ old' = RemovedOld
    /\ at' = "cur"
    /\ UNCHANGED <<conf, now, mem, holder, bytes, fd, cur, rpc, search, count, history>>

ClearCur ==
    /\ at = "cur"
    /\ cur' = None
    /\ Release
    /\ UNCHANGED <<conf, now, mem, old, rpc, search, count, history>>

------------------------------------------------------------------------------
(***************************************************************************)
(* checkAndRotate, called at the start and then every hour.  The first     *)
(* entry is read in one step and the file renamed in another.              *)
(***************************************************************************)
\* A file that does not exist counts as old; an empty one is an error.
Due == cur # None => cur # <<>> /\ cur[1].t + ivl <= now

checkAndRotate ==
    /\ rpc = "check"
    /\ Due
    /\ rpc' = "rename"
    /\ UNCHANGED <<conf, now, mem, lock, disk, search, count, history>>

\* The early returns: the file is recent, or its first entry unreadable.
NotRotating ==
    /\ rpc = "check"
    /\ ~Due
    /\ UNCHANGED vars

rotate ==
    /\ rpc = "rename"
    /\ rpc' = "check"
    /\ IF cur = None
       THEN UNCHANGED <<disk, fd, crossed>>
       ELSE /\ old' = cur /\ cur' = None
            /\ fd' = CASE fd = "cur" -> "old" [] fd = "old" -> "gone" [] OTHER -> fd
            /\ crossed' = (crossed \/ at \in {"old", "cur"})
    /\ UNCHANGED <<conf, now, mem, holder, at, bytes, search, count, cutoff, overwritten>>

------------------------------------------------------------------------------
(***************************************************************************)
(* search: the buffer, then the rotated file, then the current one.        *)
(***************************************************************************)
searchMemory ==
    /\ spc = "idle"
    /\ Counted("use")
    /\ sseen' = Logged
    /\ sfound' = Numbers(buffer)
    /\ spc' = "old"
    /\ UNCHANGED <<conf, now, mem, lock, disk, rpc, history>>

SearchOld ==
    /\ spc = "old"
    /\ sfound' = sfound \cup Numbers(Content(old))
    /\ spc' = "cur"
    /\ UNCHANGED <<conf, now, mem, lock, disk, rpc, sseen, count, history>>

SearchCur ==
    /\ spc = "cur"
    /\ sfound' = sfound \cup Numbers(Content(cur))
    /\ spc' = "done"
    /\ UNCHANGED <<conf, now, mem, lock, disk, rpc, sseen, count, history>>

SearchEnd ==
    /\ spc = "done"
    /\ spc' = "idle" /\ sseen' = {} /\ sfound' = {}
    /\ UNCHANGED <<conf, now, mem, lock, disk, rpc, count, history>>

------------------------------------------------------------------------------
\* The process ends, in the middle of anything, and is started again.
Restart ==
    /\ Counted("restart")
    /\ pending' = [w \in Worker |-> None]
    /\ buffer' = <<>> /\ flushPending' = FALSE /\ waiting' = 0
    /\ Release
    /\ rpc' = "check"
    /\ spc' = "idle" /\ sseen' = {} /\ sfound' = {}
    /\ cutoff' = IF holder = "clear" THEN 0 ELSE cutoff
    /\ UNCHANGED <<conf, now, made, pushed, disk, crossed, overwritten>>

FlushStep == FlushLock \/ EncodeFails \/ encodeEntries \/ OpenFile \/ WriteFile
ClearStep == ClearBuffer \/ ClearOld \/ ClearCur

Next ==
    \/ Tick
    \/ \E e \in BOOLEAN, i \in Ivls : SetConfig(e, i)
    \/ \E w \in Worker : newLogEntry(w) \/ Add(w)
    \/ Shutdown \/ ClearLock \/ OpenFails \/ WriteFails
    \/ FlushStep \/ ClearStep
    \/ checkAndRotate \/ NotRotating \/ rotate
    \/ searchMemory \/ SearchOld \/ SearchCur \/ SearchEnd
    \/ Restart

Spec == Init /\ [][Next]_vars

\* Goroutines that can run do run; fileFlushLock is granted in the end.
FairSpec ==
    /\ Spec
    /\ SF_vars(FlushLock)
    /\ WF_vars(EncodeFails \/ encodeEntries \/ OpenFile \/ WriteFile)
    /\ WF_vars(ClearStep)

------------------------------------------------------------------------------
(***************************************************************************)
(* Properties.                                                             *)
(***************************************************************************)
MemoryOK ==
    /\ enabled \in BOOLEAN /\ ivl \in Ivls
    /\ now \in 0..MaxTime
    /\ made \in 0..MaxEntries /\ pushed \in 0..made
    /\ pending \in [Worker -> (0..MaxTime) \cup {None}]
    /\ buffer \in Seq(Entry) /\ Len(buffer) <= Capacity
    /\ flushPending \in BOOLEAN /\ waiting \in Nat

HolderOK ==
    /\ <<holder, at>> \in ({"flush", "shutdown"} \X {"encode", "open", "write"})
                          \cup ({"clear"} \X {"buffer", "old", "cur"})
                          \cup {<<"none", "none">>}
    /\ bytes \in Seq(Entry) /\ (bytes # <<>> <=> at \in {"open", "write"})

FilesOK ==
    /\ fd \in {None, "cur", "old", "gone"} /\ (fd # None <=> at = "write")
    /\ old \in Seq(Entry) \cup {None} /\ cur \in Seq(Entry) \cup {None}
    /\ fd = "cur" => cur # None
    /\ fd = "old" => old # None

RestOK ==
    /\ rpc \in {"check", "rename"}
    /\ spc \in {"idle", "old", "cur", "done"}
    /\ sseen \subseteq 1..MaxEntries /\ sfound \subseteq 1..MaxEntries
    /\ cutoff \in 0..MaxEntries /\ crossed \in BOOLEAN
    /\ overwritten \subseteq 1..MaxEntries

\* Types, and what the holder of fileFlushLock has in hand at each point.
TypeOK == MemoryOK /\ HolderOK /\ FilesOK /\ RestOK

\* The files, the entries being written and the buffer, one after the other.
Whole == Content(old) \o Content(cur) \o bytes \o buffer

\* Every entry is in one place, and the entries are in the order in which they
\* were pushed, across the files and the buffer: no flush, rotation, failed
\* write or restart duplicates or reorders them.
LogOrdered == \A i, j \in 1..Len(Whole) : i < j => Whole[i].n < Whole[j].n

\* A clear leaves no entry that was there before, unless the log was rotated in
\* the middle of it: see ClearRemoves.
ClearComplete ==
    holder # "clear" /\ ~crossed => \A n \in Logged : n > cutoff

\* A flush that was triggered happens, however many flushes, clears and
\* rotations compete with it; an entry that cannot be encoded is the exception.
FlushHappens == flushPending ~> ~flushPending \/ Numbers(buffer) \cap Bad # {}

\* fileFlushLock is always released.
LockReleased == (holder # "none") ~> (holder = "none")

\* "When this array is filled to a particular amount of entries (e.g. 5000), we
\* flush this data to a file and clear the array" (AGHTechDoc.md:1532).
NothingOverwritten == FileEnabled => overwritten = {}

\* "Clear memory buffer and remove log files" (qlog.go:160): when clear is done,
\* nothing that was logged before it is left.
ClearRemoves == holder # "clear" => \A n \in Logged : n > cutoff

\* "checkAndRotate rotates log files if those are older than the specified
\* rotation interval" (querylogfile.go:170).
RotatesOnlyOld ==
    [][cur # None /\ cur' = None /\ old' = cur => cur # <<>> /\ cur[1].t + ivl <= now]_vars

\* "server reads the newest entries from memory array and the file"
\* (AGHTechDoc.md:1537): an entry that is in the log from the beginning to the
\* end of a search is found by it.
SearchComplete == spc = "done" => sseen \cap Logged \subseteq sfound
==============================================================================
