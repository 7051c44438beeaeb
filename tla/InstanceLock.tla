---------------------------- MODULE InstanceLock ----------------------------
(***************************************************************************)
(* The lock file of a BOT account and the processes that want it.  Every   *)
(* InstanceLock is used once: acquired for a session, released after it.   *)
(* Each step is one call of node:fs/promises; between two of them every    *)
(* other process may run.  open creates or empties a file, a later write   *)
(* fills the file that was opened, also if its name is gone meanwhile.     *)
(***************************************************************************)
EXTENDS Integers, Sequences

CONSTANTS
  Owners,       \* InstanceLock objects, each in a process of its own
  NoRecord,     \* the content of an empty file, which #read cannot parse
  StaleAfter,   \* 30_000 ms in ticks; a tick is the heartbeat's 5_000 ms
  MaxTime,      \* bound: the clock stops there
  MaxFiles      \* bound: files created altogether

ASSUME LockAssumption ==
  /\ StaleAfter \in Nat \ {0, 1}
  /\ MaxTime \in Nat
  /\ MaxFiles \in Nat
  /\ NoRecord \notin [owner : Owners, heartbeat : Nat]

NoFile == 0   \* files are numbered from 1

VARIABLES
  now,
  files,   \* the contents of all files, the renamed and removed ones too
  file,    \* the one that has the lock's name, or NoFile
  stage,   \* where the owner is: "idle", "reading", "renaming", "recreating",
           \* "filling", "held", "leaving", "unlinking", "released", "refused"
           \* (acquire threw) or "crashed"
  handle,  \* the file an owner has open for writing, or NoFile
  beaten,  \* the owners that wrote since the last tick
  raced    \* did operations on the lock file ever overlap?

lockVars == <<now, files, file, stage, handle, beaten, raced>>

LockInit ==
  /\ now = 0
  /\ files = <<>>
  /\ file = NoFile
  /\ stage = [o \in Owners |-> "idle"]
  /\ handle = [o \in Owners |-> NoFile]
  /\ beaten = {}
  /\ raced = FALSE

----------------------------------------------------------------------------
(* Opening and reading                                                     *)

Ended(o) == stage[o] \in {"released", "refused", "crashed"}

Busy(o) == ~(Ended(o) \/ stage[o] \in {"idle", "held"}) \/ handle[o] # NoFile

\* Operations of two owners, or a heartbeat and the release of its own lock.
Overlapping ==
  \/ \E o, p \in Owners : o # p /\ Busy(o) /\ Busy(p)
  \/ \E o \in Owners : stage[o] \in {"leaving", "unlinking"} /\ handle[o] # NoFile

\* The history variable follows every action.
Watched == raced' = (raced \/ Overlapping')

Goes(o, to) == stage' = [stage EXCEPT ![o] = to]

OpensNew(o) ==
  /\ Len(files) < MaxFiles
  /\ files' = Append(files, NoRecord)
  /\ file' = Len(files) + 1
  /\ handle' = [handle EXCEPT ![o] = Len(files) + 1]

OpensOld(o) ==
  /\ files' = [files EXCEPT ![file] = NoRecord]
  /\ handle' = [handle EXCEPT ![o] = file]
  /\ UNCHANGED file

\* #read
Content == IF file = NoFile THEN NoRecord ELSE files[file]

Record(o) == [owner |-> o, heartbeat |-> now]

\* Seeded faults: a lock that cannot be read is somebody's for ever, and one
\* that was not refreshed for a tick is nobody's.
FreshUnlessRead(content) ==
  content = NoRecord \/ now - content.heartbeat < StaleAfter

FreshForATick(content) == content # NoRecord /\ now - content.heartbeat < 1

Fresh(content) ==
  content # NoRecord /\ now - content.heartbeat < StaleAfter

----------------------------------------------------------------------------
(* acquire() and release()                                                 *)

\* #create, at first and after the rename.
Create(o) ==
  /\ stage[o] \in {"idle", "recreating"}
  /\ \/ file = NoFile /\ OpensNew(o) /\ Goes(o, "filling")
     \/ /\ file # NoFile
        /\ Goes(o, IF stage[o] = "idle" THEN "reading" ELSE "refused")
        /\ UNCHANGED <<files, file, handle>>
  /\ UNCHANGED <<now, beaten>>
  /\ Watched

Read(o) ==
  /\ stage[o] = "reading"
  /\ Goes(o, IF Fresh(Content) THEN "refused" ELSE "renaming")
  /\ UNCHANGED <<now, files, file, handle, beaten>>
  /\ Watched

\* rename fails when the name is gone.
Rename(o) ==
  /\ stage[o] = "renaming"
  /\ Goes(o, IF file = NoFile THEN "refused" ELSE "recreating")
  /\ file' = NoFile
  /\ UNCHANGED <<now, files, handle, beaten>>
  /\ Watched

\* The heartbeat's #write, as far as open.
Beat(o) ==
  /\ stage[o] = "held" /\ handle[o] = NoFile /\ o \notin beaten
  /\ IF file = NoFile THEN OpensNew(o) ELSE OpensOld(o)
  /\ UNCHANGED <<now, stage, beaten>>
  /\ Watched

\* The write of #create or #write.
Write(o) ==
  /\ handle[o] # NoFile
  /\ files' = [files EXCEPT ![handle[o]] = Record(o)]
  /\ handle' = [handle EXCEPT ![o] = NoFile]
  /\ beaten' = beaten \cup {o}
  /\ IF stage[o] = "filling" THEN Goes(o, "held") ELSE UNCHANGED stage
  /\ UNCHANGED <<now, file>>
  /\ Watched

\* The heartbeat ends, one that is under way does not.
Release(o) ==
  /\ stage[o] = "held"
  /\ Goes(o, "leaving")
  /\ UNCHANGED <<now, files, file, handle, beaten>>
  /\ Watched

IsOwn(o) == Content # NoRecord /\ Content.owner = o

ReadOwn(o) ==
  /\ stage[o] = "leaving"
  /\ Goes(o, IF IsOwn(o) THEN "unlinking" ELSE "released")
  /\ UNCHANGED <<now, files, file, handle, beaten>>
  /\ Watched

Unlink(o) ==
  /\ stage[o] = "unlinking"
  /\ Goes(o, "released")
  /\ file' = NoFile
  /\ UNCHANGED <<now, files, handle, beaten>>
  /\ Watched

----------------------------------------------------------------------------
(* Processes and time                                                      *)

Crash(o) ==
  /\ stage[o] # "idle"
  /\ ~Ended(o) \/ handle[o] # NoFile
  /\ Goes(o, "crashed")
  /\ handle' = [handle EXCEPT ![o] = NoFile]
  /\ UNCHANGED <<now, files, file, beaten>>
  /\ Watched

\* A write takes less than a tick, and no heartbeat is left out.
Tick ==
  /\ now < MaxTime
  /\ \A o \in Owners : handle[o] = NoFile /\ (stage[o] = "held" => o \in beaten)
  /\ now' = now + 1
  /\ beaten' = {}
  /\ UNCHANGED <<files, file, stage, handle>>
  /\ Watched

Own(o) ==
  \/ Create(o) \/ Read(o) \/ Rename(o) \/ Write(o)
  \/ Beat(o) \/ ReadOwn(o) \/ Unlink(o)

LockNext ==
  \/ \E o \in Owners : Own(o) \/ Release(o) \/ Crash(o)
  \/ Tick

LockSpec == LockInit /\ [][LockNext]_lockVars

\* Who is there starts, a call that was made returns, and heartbeats go on.
FairLockSpec ==
  LockSpec /\ \A o \in Owners : WF_lockVars(Own(o))

----------------------------------------------------------------------------
(* Properties                                                              *)

\* The variables have their types, and no record is of a time to come.
LockTypeOK ==
  /\ now \in 0..MaxTime
  /\ files \in Seq([owner : Owners, heartbeat : 0..now] \cup {NoRecord})
  /\ file \in 0..Len(files)
  /\ stage \in [Owners -> {"idle", "reading", "renaming", "recreating", "filling",
                        "held", "leaving", "unlinking", "released", "refused",
                        "crashed"}]
  /\ handle \in [Owners -> 0..Len(files)]
  /\ beaten \subseteq Owners
  /\ raced \in BOOLEAN

OneHolder == \A o, p \in Owners : stage[o] = "held" /\ stage[p] = "held" => o = p

\* As long as no operation on the lock file overlaps another one, two processes
\* never work for the same account, whatever crashes leave behind; the lock of
\* the holder is its own and readable as fresh, except in the moment of a
\* heartbeat; and once release() has returned the lock is gone.
OneVisibleHolder ==
  ~raced =>
    /\ OneHolder
    /\ \A o \in Owners :
         /\ stage[o] = "held" /\ handle[o] = NoFile =>
              IsOwn(o) /\ now - Content.heartbeat < StaleAfter
         /\ stage[o] = "released" => ~IsOwn(o)

\* Two processes never work for the same account.  (The requirement; the file
\* operations of the code do not give it.)
OneProcessPerAccount == OneHolder

OnlyLeftovers(o) ==
  /\ \A p \in Owners \ {o} : Ended(p) /\ handle[p] = NoFile
  /\ Content = NoRecord \/ now - Content.heartbeat >= StaleAfter

\* Nothing that dead processes left behind, an empty file of a crashed #create
\* included, keeps the last process from its start when no lock is fresh.
LeftoversDoNotBlock ==
  \A o \in Owners :
    stage[o] = "idle" /\ OnlyLeftovers(o) ~> stage[o] \in {"held", "crashed"}
=============================================================================
