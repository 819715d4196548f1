-------------------------- MODULE MCClientsProofs --------------------------
(***************************************************************************)
(* Proofs about the clients of the library: the programs of 7_tasks for    *)
(* any number of files and workers, the program of 6_data_ingress, the     *)
(* callbacks that use this_contract and the benchmark of the signal tree,  *)
(* for any number of threads.                                              *)
(***************************************************************************)
EXTENDS MCClients, SequenceTheorems, FiniteSetTheorems, TLAPS

-----------------------------------------------------------------------------
(* 7_tasks                                                                 *)

Files   == tasks!Files
Workers == tasks!Workers

(* The main thread has not come to the file yet. *)
Uncreated(f) == (main = "create" /\ f >= item) \/ (main = "schedule" /\ f > item)

FileTypes ==
  /\ phase \in [Files -> {"free", "idle", "queued", "running", "releasing"}]
  /\ again \in [Files -> BOOLEAN] /\ dying \in [Files -> BOOLEAN]
  /\ valid \in [Files -> BOOLEAN] /\ callable \subseteq Files
  /\ state \in [Files -> {"load", "process", "done"}]
  /\ blocks \in [Files -> Nat] /\ read \in [Files -> Nat]
  /\ count \in [Files -> Nat] /\ reports \in [Files -> {0, 1}]
  /\ aborted \subseteq Files

ThreadTypes ==
  /\ visit \in [Workers -> Files \cup {0}]
  /\ at \in [Workers -> {"loop", "pass", "again", "return",
                         "release", "orphan", "free", "ended"}]
  /\ main \in {"create", "schedule", "join", "stop", "join_thread", "returned"}
  /\ main \in {"create", "schedule", "join"} => item \in 1 .. numFiles
  /\ main \in {"stop", "join_thread"} => item \in 1 .. numThreads

(* What a worker knows of the contract that it executes. *)
VisitInv(w) ==
  /\ visit[w] = 0 <=> at[w] \in {"loop", "ended"}
  /\ at[w] \in {"pass", "again", "return"} => phase[visit[w]] = "running"
  /\ at[w] \in {"release", "orphan", "free"} => phase[visit[w]] = "releasing"
  /\ at[w] \in {"orphan", "free"} => visit[w] \notin callable
  /\ at[w] = "free" => ~valid[visit[w]]
  /\ at[w] = "pass" => reports[visit[w]] = 0

(* It is the only worker that executes it. *)
Apart(u, v) == u # v /\ visit[u] # 0 => visit[u] # visit[v]

(* Every block that was read is counted, and all of them when the task is  *)
(* done; a task that has reported is not run again.                        *)
CountInv(f) ==
  /\ read[f] <= blocks[f]
  /\ read[f] = IF state[f] = "process" THEN count[f] + 1 ELSE count[f]
  /\ state[f] = "done" => read[f] = blocks[f]
  /\ reports[f] = 1 => state[f] = "done" /\ (dying[f] \/ phase[f] \in {"releasing", "free"})

(* A task exists while its contract can be run; it goes, unless it was     *)
(* aborted, with its result reported.                                      *)
LifeInv(f) ==
  /\ Uncreated(f) => phase[f] = "free" /\ ~dying[f] /\ f \notin callable /\ reports[f] = 0
  /\ ~Uncreated(f) /\ phase[f] = "free" => f \notin callable /\ ~valid[f]
  /\ phase[f] \in {"idle", "queued", "running"} => f \in callable
  /\ f \notin aborted =>
       /\ dying[f] => reports[f] = 1
       /\ phase[f] = "releasing" => reports[f] = 1
       /\ phase[f] = "free" => Uncreated(f) \/ reports[f] = 1
       /\ valid[f] \/ Uncreated(f) \/ (f \notin callable /\ reports[f] = 1)
  /\ tasks!Joined(f) => ~valid[f]

TasksInv ==
  /\ FileTypes /\ ThreadTypes
  /\ \A w \in Workers : VisitInv(w)
  /\ \A u, v \in Workers : Apart(u, v)
  /\ \A f \in Files : CountInv(f) /\ LifeInv(f)

LEMMA FilesAre ==
  /\ Files \subseteq Nat \ {0} /\ 0 \notin Files
  /\ \A f \in 1 .. numFiles : f \in Files
  /\ \A w \in 1 .. numThreads : w \in Workers
  BY ClientsAssumption DEF Files, Workers, tasks!Files, tasks!Workers

LEMMA TasksInit == tasks!Init => TasksInv
<1> SUFFICES ASSUME tasks!Init PROVE TasksInv
  OBVIOUS
<1> USE ClientsAssumption, FilesAre
    DEF tasks!Init, tasks!Life!Init, Files, Workers, tasks!None
<1>1. blocks \in [Files -> Nat]
  OBVIOUS
<1>2. FileTypes /\ ThreadTypes
  BY <1>1 DEF FileTypes, ThreadTypes
<1>3. \A w \in Workers : VisitInv(w) /\ \A u \in Workers : Apart(u, w)
  BY DEF VisitInv, Apart
<1>4. \A f \in Files : CountInv(f) /\ LifeInv(f)
  BY <1>1 DEF CountInv, LifeInv, Uncreated, tasks!Joined
<1> QED
  BY <1>2, <1>3, <1>4 DEF TasksInv

(* What the parts of the invariant say at one worker and one file. *)
LEMMA AtWorker ==
  ASSUME TasksInv, NEW w \in Workers
  PROVE  /\ visit[w] \in Files \cup {0} /\ VisitInv(w)
         /\ at[w] \in {"loop", "pass", "again", "return",
                       "release", "orphan", "free", "ended"}
         /\ visit[w] # 0 => visit[w] \in Files
  BY DEF TasksInv, ThreadTypes

LEMMA AtFile ==
  ASSUME TasksInv, NEW f \in Files
  PROVE  /\ phase[f] \in {"free", "idle", "queued", "running", "releasing"}
         /\ blocks[f] \in Nat /\ read[f] \in Nat /\ count[f] \in Nat
         /\ reports[f] \in {0, 1} /\ state[f] \in {"load", "process", "done"}
         /\ CountInv(f) /\ LifeInv(f)
  BY DEF TasksInv, FileTypes

LEMMA TasksExecute ==
  ASSUME TasksInv, NEW w \in Workers, NEW f \in Files, tasks!Execute(w, f)
  PROVE  TasksInv'
<1>1. /\ at[w] = "loop" /\ visit[w] = 0 /\ phase[f] = "queued"
      /\ UNCHANGED <<valid, callable, state, blocks, read, count, reports, aborted, main, item, again>>
  BY AtWorker DEF VisitInv, tasks!Execute, tasks!Life!Serve, tasks!Life!Start, tasks!Life!StartRelease,
     tasks!task, tasks!prog
<1>2. /\ phase' = [phase EXCEPT ![f] = IF dying[f] THEN "releasing" ELSE "running"]
      /\ dying' = [dying EXCEPT ![f] = FALSE]
      /\ visit' = [visit EXCEPT ![w] = f]
      /\ at' = [at EXCEPT ![w] = IF dying[f] THEN "release" ELSE "pass"]
  <2>1. dying \in [Files -> BOOLEAN] 
    BY DEF TasksInv, FileTypes
  <2>2. CASE tasks!Life!Start(f)
    BY <2>1, <2>2 DEF tasks!Execute, tasks!Life!Start
  <2>3. CASE tasks!Life!StartRelease(f)
    BY <2>1, <2>3 DEF tasks!Execute, tasks!Life!StartRelease
  <2> QED
    BY <2>2, <2>3 DEF tasks!Execute, tasks!Life!Serve
<1>3. FileTypes' /\ ThreadTypes'
  BY <1>1, <1>2 DEF TasksInv, FileTypes, ThreadTypes
<1>4. /\ \A g \in Files : /\ phase'[g] = IF g = f THEN (IF dying[f] THEN "releasing" ELSE "running") ELSE phase[g]
                          /\ dying'[g] = IF g = f THEN FALSE ELSE dying[g]
      /\ \A u \in Workers : /\ visit'[u] = IF u = w THEN f ELSE visit[u]
                            /\ at'[u] = IF u = w THEN (IF dying[f] THEN "release" ELSE "pass") ELSE at[u]
  BY <1>2 DEF TasksInv, FileTypes, ThreadTypes
<1>5. ASSUME NEW g \in Files PROVE CountInv(g)' /\ LifeInv(g)'
  BY <1>1, <1>4, AtFile DEF CountInv, LifeInv, Uncreated, tasks!Joined
<1>6. f # 0
  BY FilesAre
<1>7. ASSUME NEW v \in Workers PROVE visit[v] # f
  BY <1>1, <1>6, AtWorker DEF VisitInv
<1>8. ASSUME NEW u \in Workers PROVE VisitInv(u)'
  <2>1. CASE u = w
    BY <1>1, <1>4, <1>6, <2>1, AtFile DEF VisitInv, CountInv
  <2>2. CASE u # w
    <3>1. visit'[u] = visit[u] /\ at'[u] = at[u] /\ VisitInv(u)
      BY <1>4, <2>2, AtWorker
    <3>2. visit[u] # 0 => phase'[visit[u]] = phase[visit[u]]
      BY <1>4, <1>7, AtWorker
    <3> QED
      BY <1>1, <3>1, <3>2 DEF VisitInv
  <2> QED
    BY <2>1, <2>2
<1>9. ASSUME NEW u \in Workers, NEW v \in Workers PROVE Apart(u, v)'
  BY <1>4, <1>7 DEF Apart, TasksInv
<1> QED
  BY <1>3, <1>5, <1>8, <1>9 DEF TasksInv

(* A step leaves a file alone. *)
Untouched(g) ==
  /\ phase'[g] = phase[g] /\ dying'[g] = dying[g] /\ valid'[g] = valid[g]
  /\ (g \in callable' <=> g \in callable) /\ (g \in aborted' <=> g \in aborted)
  /\ state'[g] = state[g] /\ blocks'[g] = blocks[g] /\ read'[g] = read[g]
  /\ count'[g] = count[g] /\ reports'[g] = reports[g]

(* A worker's step disturbs neither the files nor the workers that it is   *)
(* not about.                                                              *)
LEMMA StepOfWorker ==
  ASSUME TasksInv, NEW w \in Workers, NEW f \in Files, visit[w] = f,
         FileTypes', ThreadTypes', main' = main, item' = item,
         \A g \in Files \ {f} : Untouched(g),
         \A u \in Workers \ {w} : visit'[u] = visit[u] /\ at'[u] = at[u],
         visit'[w] \in {0, f}, VisitInv(w)', CountInv(f)', LifeInv(f)'
  PROVE  TasksInv'
<1>1. f # 0
  BY FilesAre
<1>2. ASSUME NEW g \in Files PROVE CountInv(g)' /\ LifeInv(g)'
  BY AtFile DEF Untouched, CountInv, LifeInv, Uncreated, tasks!Joined
<1>3. ASSUME NEW u \in Workers PROVE VisitInv(u)'
  <2>1. CASE u # w
    <3>1. visit[u] # f /\ VisitInv(u) /\ visit'[u] = visit[u] /\ at'[u] = at[u]
      BY <1>1, <2>1 DEF TasksInv, Apart
    <3>2. visit[u] # 0 => Untouched(visit[u])
      BY <3>1, AtWorker
    <3>3. visit[u] = 0 => VisitInv(u)'
      BY <3>1, AtWorker DEF VisitInv
    <3> QED
      BY <3>1, <3>2, <3>3 DEF VisitInv, Untouched
  <2> QED
    BY <2>1
<1>4. ASSUME NEW u \in Workers, NEW v \in Workers PROVE Apart(u, v)'
  BY <1>1 DEF Apart, TasksInv
<1> QED
  BY <1>2, <1>3, <1>4 DEF TasksInv

LEMMA TasksLoad ==
  ASSUME TasksInv, NEW w \in Workers, NEW f \in Files, visit[w] = f, tasks!Pass(w), tasks!Load(f)
  PROVE  TasksInv'
<1> USE DEF tasks!Pass, tasks!Load, tasks!life, tasks!task, tasks!pool, tasks!prog
<1>1. /\ at[w] = "pass" /\ phase[f] = "running" /\ VisitInv(w) /\ CountInv(f) /\ LifeInv(f)
      /\ f # 0 /\ dying[f] \in BOOLEAN /\ valid[f] \in BOOLEAN
  BY FilesAre, AtFile, AtWorker DEF VisitInv, TasksInv, FileTypes
<1>2. FileTypes'
  <2>1. /\ phase' \in [Files -> {"free", "idle", "queued", "running", "releasing"}]
        /\ again' \in [Files -> BOOLEAN] /\ dying' \in [Files -> BOOLEAN]
    BY <1>1 DEF TasksInv, FileTypes
  <2>2. /\ valid' = valid /\ callable' = callable /\ aborted' = aborted /\ blocks' = blocks
    OBVIOUS
  <2>3. state' \in [Files -> {"load", "process", "done"}]
    BY DEF TasksInv, FileTypes
  <2>4. read' \in [Files -> Nat] /\ count' \in [Files -> Nat]
    BY DEF TasksInv, FileTypes
  <2>5. reports' \in [Files -> {0, 1}]
    BY <1>1 DEF TasksInv, FileTypes, VisitInv
  <2> QED
    BY <2>1, <2>2, <2>3, <2>4, <2>5 DEF TasksInv, FileTypes
<1>3. ThreadTypes'
  BY DEF TasksInv, ThreadTypes
<1>4. \A g \in Files \ {f} : Untouched(g)
  BY DEF TasksInv, FileTypes, Untouched
<1>5. /\ \A u \in Workers \ {w} : visit'[u] = visit[u] /\ at'[u] = at[u]
      /\ visit'[w] \in {0, f} /\ main' = main /\ item' = item
  BY DEF TasksInv, ThreadTypes
<1>6. VisitInv(w)'
  BY <1>1 DEF TasksInv, FileTypes, ThreadTypes, VisitInv
<1>7. CountInv(f)'
  BY <1>1, AtFile DEF TasksInv, FileTypes, CountInv, VisitInv
<1>8. LifeInv(f)'
  BY <1>1, AtFile DEF TasksInv, FileTypes, LifeInv, VisitInv, CountInv, Uncreated, tasks!Joined
<1> HIDE DEF tasks!Pass, tasks!Load
<1> QED
  BY <1>2, <1>3, <1>4, <1>5, <1>6, <1>7, <1>8, StepOfWorker

LEMMA TasksProcess ==
  ASSUME TasksInv, NEW w \in Workers, NEW f \in Files, visit[w] = f, tasks!Pass(w), tasks!Process(f)
  PROVE  TasksInv'
<1> USE DEF tasks!Pass, tasks!Process, tasks!life, tasks!task, tasks!pool, tasks!prog
<1>1. /\ at[w] = "pass" /\ phase[f] = "running" /\ VisitInv(w) /\ CountInv(f) /\ LifeInv(f)
      /\ f # 0 /\ dying[f] \in BOOLEAN /\ valid[f] \in BOOLEAN
  BY FilesAre, AtFile, AtWorker DEF VisitInv, TasksInv, FileTypes
<1>2. FileTypes'
  <2>1. /\ phase' \in [Files -> {"free", "idle", "queued", "running", "releasing"}]
        /\ again' \in [Files -> BOOLEAN] /\ dying' \in [Files -> BOOLEAN]
    BY <1>1 DEF TasksInv, FileTypes
  <2>2. /\ valid' = valid /\ callable' = callable /\ aborted' = aborted /\ blocks' = blocks
    OBVIOUS
  <2>3. state' \in [Files -> {"load", "process", "done"}]
    BY DEF TasksInv, FileTypes
  <2>4. read' \in [Files -> Nat] /\ count' \in [Files -> Nat]
    BY DEF TasksInv, FileTypes
  <2>5. reports' \in [Files -> {0, 1}]
    BY <1>1 DEF TasksInv, FileTypes, VisitInv
  <2> QED
    BY <2>1, <2>2, <2>3, <2>4, <2>5 DEF TasksInv, FileTypes
<1>3. ThreadTypes'
  BY DEF TasksInv, ThreadTypes
<1>4. \A g \in Files \ {f} : Untouched(g)
  BY DEF TasksInv, FileTypes, Untouched
<1>5. /\ \A u \in Workers \ {w} : visit'[u] = visit[u] /\ at'[u] = at[u]
      /\ visit'[w] \in {0, f} /\ main' = main /\ item' = item
  BY DEF TasksInv, ThreadTypes
<1>6. VisitInv(w)'
  BY <1>1 DEF TasksInv, FileTypes, ThreadTypes, VisitInv
<1>7. CountInv(f)'
  BY <1>1, AtFile DEF TasksInv, FileTypes, CountInv, VisitInv
<1>8. LifeInv(f)'
  BY <1>1, AtFile DEF TasksInv, FileTypes, LifeInv, VisitInv, CountInv, Uncreated, tasks!Joined
<1> HIDE DEF tasks!Pass, tasks!Process
<1> QED
  BY <1>2, <1>3, <1>4, <1>5, <1>6, <1>7, <1>8, StepOfWorker

LEMMA TasksDone ==
  ASSUME TasksInv, NEW w \in Workers, NEW f \in Files, visit[w] = f, tasks!Pass(w), tasks!Done(f)
  PROVE  TasksInv'
<1> USE DEF tasks!Pass, tasks!Done, tasks!Life!Release, tasks!Life!Enqueue, tasks!life, tasks!task, tasks!pool, tasks!prog
<1>1. /\ at[w] = "pass" /\ phase[f] = "running" /\ VisitInv(w) /\ CountInv(f) /\ LifeInv(f)
      /\ f # 0 /\ dying[f] \in BOOLEAN /\ valid[f] \in BOOLEAN
  BY FilesAre, AtFile, AtWorker DEF VisitInv, TasksInv, FileTypes
<1>2. FileTypes'
  <2>1. /\ phase' \in [Files -> {"free", "idle", "queued", "running", "releasing"}]
        /\ again' \in [Files -> BOOLEAN] /\ dying' \in [Files -> BOOLEAN]
    BY <1>1 DEF TasksInv, FileTypes
  <2>2. /\ valid' = valid /\ callable' = callable /\ aborted' = aborted /\ blocks' = blocks
    OBVIOUS
  <2>3. state' \in [Files -> {"load", "process", "done"}]
    BY DEF TasksInv, FileTypes
  <2>4. read' \in [Files -> Nat] /\ count' \in [Files -> Nat]
    BY DEF TasksInv, FileTypes
  <2>5. reports' \in [Files -> {0, 1}]
    BY <1>1 DEF TasksInv, FileTypes, VisitInv
  <2> QED
    BY <2>1, <2>2, <2>3, <2>4, <2>5 DEF TasksInv, FileTypes
<1>3. ThreadTypes'
  BY DEF TasksInv, ThreadTypes
<1>4. \A g \in Files \ {f} : Untouched(g)
  BY DEF TasksInv, FileTypes, Untouched
<1>5. /\ \A u \in Workers \ {w} : visit'[u] = visit[u] /\ at'[u] = at[u]
      /\ visit'[w] \in {0, f} /\ main' = main /\ item' = item
  BY DEF TasksInv, ThreadTypes
<1>6. VisitInv(w)'
  BY <1>1 DEF TasksInv, FileTypes, ThreadTypes, VisitInv
<1>7. CountInv(f)'
  BY <1>1, AtFile DEF TasksInv, FileTypes, CountInv, VisitInv
<1>8. LifeInv(f)'
  BY <1>1, AtFile DEF TasksInv, FileTypes, LifeInv, VisitInv, CountInv, Uncreated, tasks!Joined
<1> HIDE DEF tasks!Pass, tasks!Done, tasks!Life!Release, tasks!Life!Enqueue
<1> QED
  BY <1>2, <1>3, <1>4, <1>5, <1>6, <1>7, <1>8, StepOfWorker

LEMMA TasksScheduleAgain ==
  ASSUME TasksInv, NEW w \in Workers, NEW f \in Files, visit[w] = f, tasks!ScheduleAgain(w)
  PROVE  TasksInv'
<1> USE DEF tasks!ScheduleAgain, tasks!Life!Schedule, tasks!Life!Enqueue, tasks!life, tasks!task, tasks!pool, tasks!prog
<1>1. /\ at[w] = "again" /\ phase[f] = "running" /\ VisitInv(w) /\ CountInv(f) /\ LifeInv(f)
      /\ f # 0 /\ dying[f] \in BOOLEAN /\ valid[f] \in BOOLEAN
  BY FilesAre, AtFile, AtWorker DEF VisitInv, TasksInv, FileTypes
<1>2. FileTypes'
  BY <1>1 DEF TasksInv, FileTypes, ThreadTypes, VisitInv
<1>3. ThreadTypes'
  BY DEF TasksInv, ThreadTypes
<1>4. \A g \in Files \ {f} : Untouched(g)
  BY DEF TasksInv, FileTypes, Untouched
<1>5. /\ \A u \in Workers \ {w} : visit'[u] = visit[u] /\ at'[u] = at[u]
      /\ visit'[w] \in {0, f} /\ main' = main /\ item' = item
  BY DEF TasksInv, ThreadTypes
<1>6. VisitInv(w)'
  BY <1>1 DEF TasksInv, FileTypes, ThreadTypes, VisitInv
<1>7. CountInv(f)'
  BY <1>1, AtFile DEF TasksInv, FileTypes, CountInv, VisitInv
<1>8. LifeInv(f)'
  BY <1>1, AtFile DEF TasksInv, FileTypes, LifeInv, VisitInv, CountInv, Uncreated, tasks!Joined
<1> HIDE DEF tasks!ScheduleAgain, tasks!Life!Schedule, tasks!Life!Enqueue
<1> QED
  BY <1>2, <1>3, <1>4, <1>5, <1>6, <1>7, <1>8, StepOfWorker

LEMMA TasksReturn ==
  ASSUME TasksInv, NEW w \in Workers, NEW f \in Files, visit[w] = f, tasks!Return(w)
  PROVE  TasksInv'
<1> USE DEF tasks!Return, tasks!Life!Finish, tasks!Leave, tasks!None, tasks!life, tasks!task, tasks!pool, tasks!prog
<1>1. /\ at[w] = "return" /\ phase[f] = "running" /\ VisitInv(w) /\ CountInv(f) /\ LifeInv(f)
      /\ f # 0 /\ dying[f] \in BOOLEAN /\ valid[f] \in BOOLEAN
  BY FilesAre, AtFile, AtWorker DEF VisitInv, TasksInv, FileTypes
<1>2. FileTypes'
  BY <1>1 DEF TasksInv, FileTypes, ThreadTypes, VisitInv
<1>3. ThreadTypes'
  BY DEF TasksInv, ThreadTypes
<1>4. \A g \in Files \ {f} : Untouched(g)
  BY DEF TasksInv, FileTypes, Untouched
<1>5. /\ \A u \in Workers \ {w} : visit'[u] = visit[u] /\ at'[u] = at[u]
      /\ visit'[w] \in {0, f} /\ main' = main /\ item' = item
  BY DEF TasksInv, ThreadTypes
<1>6. VisitInv(w)'
  BY <1>1 DEF TasksInv, FileTypes, ThreadTypes, VisitInv
<1>7. CountInv(f)'
  BY <1>1, AtFile DEF TasksInv, FileTypes, CountInv, VisitInv
<1>8. LifeInv(f)'
  BY <1>1, AtFile DEF TasksInv, FileTypes, LifeInv, VisitInv, CountInv, Uncreated, tasks!Joined
<1> HIDE DEF tasks!Return, tasks!Life!Finish, tasks!Leave, tasks!None
<1> QED
  BY <1>2, <1>3, <1>4, <1>5, <1>6, <1>7, <1>8, StepOfWorker

LEMMA TasksDestroyTask ==
  ASSUME TasksInv, NEW w \in Workers, NEW f \in Files, visit[w] = f, tasks!DestroyTask(w)
  PROVE  TasksInv'
<1> USE DEF tasks!DestroyTask, tasks!life, tasks!task, tasks!pool, tasks!prog
<1>1. /\ at[w] = "release" /\ phase[f] = "releasing" /\ VisitInv(w) /\ CountInv(f) /\ LifeInv(f)
      /\ f # 0 /\ dying[f] \in BOOLEAN /\ valid[f] \in BOOLEAN
  BY FilesAre, AtFile, AtWorker DEF VisitInv, TasksInv, FileTypes
<1>2. FileTypes'
  BY <1>1 DEF TasksInv, FileTypes, ThreadTypes, VisitInv
<1>3. ThreadTypes'
  BY DEF TasksInv, ThreadTypes
<1>4. \A g \in Files \ {f} : Untouched(g)
  BY DEF TasksInv, FileTypes, Untouched
<1>5. /\ \A u \in Workers \ {w} : visit'[u] = visit[u] /\ at'[u] = at[u]
      /\ visit'[w] \in {0, f} /\ main' = main /\ item' = item
  BY DEF TasksInv, ThreadTypes
<1>6. VisitInv(w)'
  BY <1>1 DEF TasksInv, FileTypes, ThreadTypes, VisitInv
<1>7. CountInv(f)'
  BY <1>1, AtFile DEF TasksInv, FileTypes, CountInv, VisitInv
<1>8. LifeInv(f)'
  BY <1>1, AtFile DEF TasksInv, FileTypes, LifeInv, VisitInv, CountInv, Uncreated, tasks!Joined
<1> HIDE DEF tasks!DestroyTask
<1> QED
  BY <1>2, <1>3, <1>4, <1>5, <1>6, <1>7, <1>8, StepOfWorker

LEMMA TasksOrphan ==
  ASSUME TasksInv, NEW w \in Workers, NEW f \in Files, visit[w] = f, tasks!Orphan(w)
  PROVE  TasksInv'
<1> USE DEF tasks!Orphan, tasks!life, tasks!task, tasks!pool, tasks!prog
<1>1. /\ at[w] = "orphan" /\ phase[f] = "releasing" /\ VisitInv(w) /\ CountInv(f) /\ LifeInv(f)
      /\ f # 0 /\ dying[f] \in BOOLEAN /\ valid[f] \in BOOLEAN
  BY FilesAre, AtFile, AtWorker DEF VisitInv, TasksInv, FileTypes
<1>2. FileTypes'
  BY <1>1 DEF TasksInv, FileTypes, ThreadTypes, VisitInv
<1>3. ThreadTypes'
  BY DEF TasksInv, ThreadTypes
<1>4. \A g \in Files \ {f} : Untouched(g)
  BY DEF TasksInv, FileTypes, Untouched
<1>5. /\ \A u \in Workers \ {w} : visit'[u] = visit[u] /\ at'[u] = at[u]
      /\ visit'[w] \in {0, f} /\ main' = main /\ item' = item
  BY DEF TasksInv, ThreadTypes
<1>6. VisitInv(w)'
  BY <1>1 DEF TasksInv, FileTypes, ThreadTypes, VisitInv
<1>7. CountInv(f)'
  BY <1>1, AtFile DEF TasksInv, FileTypes, CountInv, VisitInv
<1>8. LifeInv(f)'
  BY <1>1, AtFile DEF TasksInv, FileTypes, LifeInv, VisitInv, CountInv, Uncreated, tasks!Joined
<1> HIDE DEF tasks!Orphan
<1> QED
  BY <1>2, <1>3, <1>4, <1>5, <1>6, <1>7, <1>8, StepOfWorker

LEMMA TasksFree ==
  ASSUME TasksInv, NEW w \in Workers, NEW f \in Files, visit[w] = f, tasks!Free(w)
  PROVE  TasksInv'
<1> USE DEF tasks!Free, tasks!Life!Free, tasks!Leave, tasks!None, tasks!life, tasks!task, tasks!pool, tasks!prog
<1>1. /\ at[w] = "free" /\ phase[f] = "releasing" /\ VisitInv(w) /\ CountInv(f) /\ LifeInv(f)
      /\ f # 0 /\ dying[f] \in BOOLEAN /\ valid[f] \in BOOLEAN
  BY FilesAre, AtFile, AtWorker DEF VisitInv, TasksInv, FileTypes
<1>2. FileTypes'
  BY <1>1 DEF TasksInv, FileTypes, ThreadTypes, VisitInv
<1>3. ThreadTypes'
  BY DEF TasksInv, ThreadTypes
<1>4. \A g \in Files \ {f} : Untouched(g)
  BY DEF TasksInv, FileTypes, Untouched
<1>5. /\ \A u \in Workers \ {w} : visit'[u] = visit[u] /\ at'[u] = at[u]
      /\ visit'[w] \in {0, f} /\ main' = main /\ item' = item
  BY DEF TasksInv, ThreadTypes
<1>6. VisitInv(w)'
  BY <1>1 DEF TasksInv, FileTypes, ThreadTypes, VisitInv
<1>7. CountInv(f)'
  BY <1>1, AtFile DEF TasksInv, FileTypes, CountInv, VisitInv
<1>8. LifeInv(f)'
  BY <1>1, AtFile DEF TasksInv, FileTypes, LifeInv, VisitInv, CountInv, Uncreated, tasks!Joined
<1> HIDE DEF tasks!Free, tasks!Life!Free, tasks!Leave, tasks!None
<1> QED
  BY <1>2, <1>3, <1>4, <1>5, <1>6, <1>7, <1>8, StepOfWorker

LEMMA TasksEndThread ==
  ASSUME TasksInv, NEW w \in Workers, tasks!EndThread(w)
  PROVE  TasksInv'
<1> USE DEF tasks!EndThread, tasks!life, tasks!task, tasks!prog
<1>1. FileTypes' /\ ThreadTypes'
  BY DEF TasksInv, FileTypes, ThreadTypes
<1>2. \A u \in Workers : at'[u] = IF u = w THEN "ended" ELSE at[u]
  BY DEF TasksInv, ThreadTypes
<1>3. ASSUME NEW u \in Workers PROVE VisitInv(u)'
  <2>1. at[w] = "loop" /\ UNCHANGED <<visit, phase, callable, valid, reports>>
    OBVIOUS
  <2> HIDE DEF tasks!EndThread, tasks!life, tasks!task, tasks!prog
  <2>2. CASE u = w
    BY <1>2, <2>1, <2>2, AtWorker DEF VisitInv
  <2>3. CASE u # w
    BY <1>2, <2>1, <2>3, AtWorker DEF VisitInv
  <2> QED
    BY <2>2, <2>3
<1>4. \A g \in Files : CountInv(g)' /\ LifeInv(g)'
  BY DEF TasksInv, CountInv, LifeInv, Uncreated, tasks!Joined
<1>5. \A u, v \in Workers : Apart(u, v)'
  BY DEF TasksInv, Apart
<1> QED
  BY <1>1, <1>3, <1>4, <1>5 DEF TasksInv

(* The steps of the main thread that only move it. *)
LEMMA TasksMainMoves ==
  ASSUME TasksInv, tasks!Join \/ tasks!RequestStop \/ tasks!JoinThread
  PROVE  TasksInv'
<1>1. UNCHANGED <<phase, again, dying, valid, callable, state, blocks, read, count,
                  reports, aborted, visit, at>>
  BY DEF tasks!Join, tasks!RequestStop, tasks!JoinThread, tasks!life, tasks!task, tasks!pool
<1>2. \/ /\ main = "join" /\ item \in 1 .. numFiles /\ ~valid[item]
         /\ \/ item < numFiles /\ main' = "join" /\ item' = item + 1
            \/ item = numFiles /\ main' = "stop" /\ item' = 1
      \/ /\ main = "stop" /\ item \in 1 .. numThreads
         /\ main' = "join_thread" /\ item' = item
      \/ /\ main = "join_thread" /\ item \in 1 .. numThreads
         /\ \/ item < numThreads /\ main' = "stop" /\ item' = item + 1
            \/ main' = "returned"
  <2>1. CASE tasks!Join
    BY <2>1, ClientsAssumption DEF tasks!Join, tasks!Loop, TasksInv, ThreadTypes
  <2>2. CASE tasks!RequestStop
    BY <2>2 DEF tasks!RequestStop, tasks!Goto, TasksInv, ThreadTypes
  <2>3. CASE tasks!JoinThread
    BY <2>3, ClientsAssumption DEF tasks!JoinThread, tasks!Loop, TasksInv, ThreadTypes
  <2> QED
    BY <2>1, <2>2, <2>3
<1>3. FileTypes' /\ ThreadTypes'
  <2>1. FileTypes'
    BY <1>1 DEF TasksInv, FileTypes
  <2>2. main' \in {"join", "stop", "join_thread", "returned"}
    BY <1>2
  <2>3. main' = "join" => item' \in 1 .. numFiles
    BY <1>2, ClientsAssumption
  <2>4. main' \in {"stop", "join_thread"} => item' \in 1 .. numThreads
    BY <1>2, ClientsAssumption
  <2> QED
    BY <1>1, <2>1, <2>2, <2>3, <2>4 DEF TasksInv, ThreadTypes
<1>4. \A u \in Workers : VisitInv(u)'
  BY <1>1 DEF TasksInv, VisitInv
<1>5. ASSUME NEW g \in Files PROVE CountInv(g)' /\ LifeInv(g)'
  <2>1. ~Uncreated(g) /\ ~Uncreated(g)'
    BY <1>2 DEF Uncreated
  <2>2. g \in 1 .. numFiles
    BY DEF Files, tasks!Files
  <2>3. tasks!Joined(g)' => tasks!Joined(g) \/ (g = item /\ ~valid[item])
    BY <1>2, <2>2, ClientsAssumption DEF tasks!Joined
  <2> QED
    BY <1>1, <2>1, <2>3, AtFile DEF CountInv, LifeInv
<1>6. \A u, v \in Workers : Apart(u, v)'
  BY <1>1 DEF TasksInv, Apart
<1> QED
  BY <1>3, <1>4, <1>5, <1>6 DEF TasksInv

(* A step that is about a file whose contract no worker executes, or that  *)
(* changes nothing that a worker counts on.                                *)
LEMMA WorkersKeep ==
  ASSUME TasksInv, NEW f \in Files,
         visit' = visit, at' = at, reports' = reports,
         \A g \in Files \ {f} :
           phase'[g] = phase[g] /\ valid'[g] = valid[g] /\ (g \in callable' <=> g \in callable),
         \/ phase[f] \notin {"running", "releasing"}
         \/ /\ phase'[f] = phase[f] /\ (valid'[f] => valid[f])
            /\ (f \in callable' <=> f \in callable)
  PROVE  (\A u \in Workers : VisitInv(u)') /\ (\A u, v \in Workers : Apart(u, v)')
<1>1. ASSUME NEW u \in Workers PROVE VisitInv(u)'
  <2>1. visit[u] \in Files \cup {0} /\ VisitInv(u)
    BY AtWorker
  <2>2. CASE visit[u] = 0
    BY <2>1, <2>2, AtWorker DEF VisitInv
  <2>3. CASE visit[u] = f /\ f # 0
    BY <2>1, <2>3, AtWorker DEF VisitInv
  <2>4. CASE visit[u] # 0 /\ visit[u] # f
    BY <2>1, <2>4, AtWorker DEF VisitInv
  <2> QED
    BY <2>2, <2>3, <2>4
<1>2. \A u, v \in Workers : Apart(u, v)'
  BY DEF TasksInv, Apart
<1> QED
  BY <1>1, <1>2

LEMMA TasksCreate ==
  ASSUME TasksInv, tasks!Create
  PROVE  TasksInv'
<1>1. PICK f \in Files : f = item
  BY FilesAre DEF tasks!Create, TasksInv, ThreadTypes
<1> USE <1>1 DEF tasks!Create, tasks!Life!Create, tasks!Goto, tasks!task, tasks!pool
<1>2. /\ main = "create" /\ main' = "schedule" /\ item' = f /\ f \in Nat
      /\ phase[f] = "free" /\ reports[f] = 0 /\ ~dying[f]
  BY AtFile, FilesAre DEF LifeInv, Uncreated
<1>3. FileTypes'
  BY DEF TasksInv, FileTypes
<1>4. ThreadTypes'
  BY DEF TasksInv, ThreadTypes
<1>5. /\ phase'[f] = "idle" /\ valid'[f] /\ f \in callable'
      /\ \A g \in Files \ {f} :
           phase'[g] = phase[g] /\ valid'[g] = valid[g] /\ (g \in callable' <=> g \in callable)
  BY DEF TasksInv, FileTypes
<1>6. /\ visit' = visit /\ at' = at /\ dying' = dying /\ aborted' = aborted
      /\ state' = state /\ read' = read /\ blocks' = blocks /\ count' = count
      /\ reports' = reports
  OBVIOUS
<1> HIDE DEF tasks!Create, tasks!Life!Create, tasks!Goto, tasks!task, tasks!pool
<1>7. (\A u \in Workers : VisitInv(u)') /\ (\A u, v \in Workers : Apart(u, v)')
  BY <1>2, <1>5, <1>6, WorkersKeep
<1>8. ASSUME NEW g \in Files PROVE CountInv(g)' /\ LifeInv(g)'
  <2>1. Uncreated(g)' <=> g > f
    BY <1>2 DEF Uncreated
  <2>2. Uncreated(g) <=> g >= f
    BY <1>2 DEF Uncreated
  <2>3. ~tasks!Joined(g)'
    BY <1>2 DEF tasks!Joined
  <2>4. g \in Nat
    BY FilesAre
  <2>5. CASE g = f
    BY <1>2, <1>5, <1>6, <2>1, <2>2, <2>3, <2>4, <2>5, AtFile DEF CountInv, LifeInv
  <2>6. CASE g # f
    BY <1>2, <1>5, <1>6, <2>1, <2>2, <2>3, <2>4, <2>6, AtFile DEF CountInv, LifeInv
  <2> QED
    BY <2>5, <2>6
<1> QED
  BY <1>3, <1>4, <1>7, <1>8 DEF TasksInv

LEMMA TasksScheduleNew ==
  ASSUME TasksInv, tasks!ScheduleNew
  PROVE  TasksInv'
<1>1. PICK f \in Files : f = item
  BY FilesAre DEF tasks!ScheduleNew, TasksInv, ThreadTypes
<1> USE <1>1 DEF tasks!ScheduleNew, tasks!Life!Schedule, tasks!Life!Enqueue, tasks!Loop,
                 tasks!task, tasks!pool
<1>2. /\ main = "schedule" /\ main' = IF f < numFiles THEN "create" ELSE "join"
      /\ item' = IF f < numFiles THEN f + 1 ELSE 1
      /\ f \in Nat
  BY FilesAre
<1>3. FileTypes'
  BY DEF TasksInv, FileTypes
<1>4. ThreadTypes'
  BY <1>2, ClientsAssumption DEF TasksInv, ThreadTypes
<1>5. /\ \A g \in Files \ {f} : phase'[g] = phase[g]
      /\ \/ phase[f] \in {"idle", "queued"} /\ phase'[f] = "queued"
         \/ phase[f] = "running" /\ phase'[f] = "running"
  BY DEF TasksInv, FileTypes
<1>6. /\ visit' = visit /\ at' = at /\ dying' = dying /\ aborted' = aborted
      /\ state' = state /\ read' = read /\ blocks' = blocks /\ count' = count
      /\ reports' = reports /\ valid' = valid /\ callable' = callable
  OBVIOUS
<1> HIDE DEF tasks!ScheduleNew, tasks!Life!Schedule, tasks!Life!Enqueue, tasks!Loop,
             tasks!task, tasks!pool
<1>7. (\A u \in Workers : VisitInv(u)') /\ (\A u, v \in Workers : Apart(u, v)')
  BY <1>5, <1>6, WorkersKeep
<1>8. ASSUME NEW g \in Files PROVE CountInv(g)' /\ LifeInv(g)'
  <2>1. g \in Nat /\ g <= numFiles /\ numFiles \in Nat
    BY FilesAre, ClientsAssumption DEF Files, tasks!Files
  <2>2. Uncreated(g)' <=> g > f
    BY <1>2, <2>1 DEF Uncreated
  <2>3. Uncreated(g) <=> g > f
    BY <1>2 DEF Uncreated
  <2>4. ~tasks!Joined(g)'
    BY <1>2, <2>1 DEF tasks!Joined, Files, tasks!Files
  <2> QED
    BY <1>2, <1>5, <1>6, <2>1, <2>2, <2>3, <2>4, AtFile DEF CountInv, LifeInv
<1> QED
  BY <1>3, <1>4, <1>7, <1>8 DEF TasksInv

LEMMA TasksAbort ==
  ASSUME TasksInv, NEW f \in Files, tasks!Abort(f)
  PROVE  TasksInv'
<1> USE DEF tasks!Abort, tasks!Life!Release, tasks!Life!Enqueue, tasks!life,
            tasks!task, tasks!pool, tasks!prog
<1>1. /\ main = "join" /\ main' = main /\ item' = item /\ valid[f]
      /\ visit' = visit /\ at' = at /\ state' = state /\ read' = read
      /\ blocks' = blocks /\ count' = count /\ reports' = reports /\ callable' = callable
  OBVIOUS
<1>2. FileTypes'
  BY DEF TasksInv, FileTypes
<1>3. ThreadTypes'
  BY DEF TasksInv, ThreadTypes
<1>4. /\ \A g \in Files \ {f} :
           phase'[g] = phase[g] /\ valid'[g] = valid[g] /\ dying'[g] = dying[g]
      /\ \A g \in Files : g \in aborted' <=> g = f \/ g \in aborted
      /\ ~valid'[f]
  BY DEF TasksInv, FileTypes
<1>5. \/ phase[f] \in {"idle", "queued"} /\ phase'[f] = "queued" /\ dying'[f] = TRUE
      \/ phase[f] = "running" /\ phase'[f] = "running" /\ dying'[f] = TRUE
      \/ phase[f] = "releasing" /\ phase'[f] = "releasing" /\ dying'[f] = dying[f]
  BY DEF TasksInv, FileTypes
<1> HIDE DEF tasks!Abort, tasks!Life!Release, tasks!Life!Enqueue, tasks!life,
             tasks!task, tasks!pool, tasks!prog
<1>6. (\A u \in Workers : VisitInv(u)') /\ (\A u, v \in Workers : Apart(u, v)')
  BY <1>1, <1>4, <1>5, WorkersKeep
<1>7. ASSUME NEW g \in Files PROVE CountInv(g)' /\ LifeInv(g)'
  <2>1. ~Uncreated(g) /\ ~Uncreated(g)'
    BY <1>1 DEF Uncreated
  <2>2. CASE g = f
    BY <1>1, <1>4, <1>5, <2>1, <2>2, AtFile DEF CountInv, LifeInv, tasks!Joined
  <2>3. CASE g # f
    BY <1>1, <1>4, <2>1, <2>3, AtFile DEF CountInv, LifeInv, tasks!Joined
  <2> QED
    BY <2>2, <2>3
<1> QED
  BY <1>2, <1>3, <1>6, <1>7 DEF TasksInv

LEMMA TasksStep ==
  ASSUME TasksInv, tasks!Next
  PROVE  TasksInv'
<1>1. ASSUME NEW w \in Workers, NEW f \in Files, tasks!Execute(w, f)
      PROVE  TasksInv'
  BY <1>1, TasksExecute
<1>2. ASSUME NEW w \in Workers, tasks!Run(w)
      PROVE  TasksInv'
  <2>1. CASE tasks!EndThread(w)
    BY <2>1, TasksEndThread
  <2>2. CASE ~tasks!EndThread(w)
    <3>1. at[w] \notin {"loop", "ended"}
      BY <1>2, <2>2 DEF tasks!Run, tasks!Pass, tasks!ScheduleAgain, tasks!Return,
        tasks!DestroyTask, tasks!Orphan, tasks!Free
    <3>2. PICK f \in Files : visit[w] = f
      BY <3>1, AtWorker DEF VisitInv
    <3>3. CASE tasks!Pass(w)
      <4>1. tasks!Load(f) \/ tasks!Process(f) \/ tasks!Done(f)
        BY <3>2, <3>3 DEF tasks!Pass
      <4> QED
        BY <3>2, <3>3, <4>1, TasksLoad, TasksProcess, TasksDone
    <3> QED
      BY <1>2, <2>2, <3>2, <3>3, TasksScheduleAgain, TasksReturn, TasksDestroyTask,
        TasksOrphan, TasksFree DEF tasks!Run
  <2> QED
    BY <2>1, <2>2
<1>3. ASSUME tasks!Main
      PROVE  TasksInv'
  BY <1>3, TasksCreate, TasksScheduleNew, TasksMainMoves DEF tasks!Main
<1> QED
  BY <1>1, <1>2, <1>3, TasksAbort DEF tasks!Next, Files, Workers

LEMMA TasksStutter ==
  ASSUME TasksInv, UNCHANGED tasks_vars
  PROVE  TasksInv'
<1> USE DEF tasks_vars
<1>1. FileTypes' /\ ThreadTypes'
  BY DEF TasksInv, FileTypes, ThreadTypes
<1>2. \A w \in Workers : VisitInv(w)'
  BY DEF TasksInv, VisitInv
<1>3. \A u, v \in Workers : Apart(u, v)'
  BY DEF TasksInv, Apart
<1>4. \A f \in Files : CountInv(f)' /\ LifeInv(f)'
  BY DEF TasksInv, CountInv, LifeInv, Uncreated, tasks!Joined
<1> QED
  BY <1>1, <1>2, <1>3, <1>4 DEF TasksInv

LEMMA TasksInvariant == FairSpec => []TasksInv
<1>1. Init => TasksInv
  BY TasksInit DEF Init
<1>2. TasksInv /\ [Next]_vars => TasksInv'
  BY TasksStep, TasksStutter
     DEF Next, vars, InThisContract, InTasks, InIngress, InBenchmark
<1> QED
  BY <1>1, <1>2, PTL DEF FairSpec

(* When a task that was not aborted has been joined, it has printed its    *)
(* result and has been destroyed; no task prints twice, or a result that   *)
(* lacks a block: for any number of files and workers (task::operator()    *)
(* and join() of 7_tasks).                                                 *)
THEOREM JoinedHasReported == FairSpec => []JoinedMeansReported
<1>1. TasksInv => JoinedMeansReported
  <2> SUFFICES ASSUME TasksInv PROVE JoinedMeansReported
    OBVIOUS
  <2>1. ASSUME NEW f \in Files \ aborted, tasks!Joined(f)
        PROVE  reports[f] = 1 /\ f \notin callable
    BY <2>1, AtFile DEF LifeInv, Uncreated, tasks!Joined
  <2>2. ASSUME NEW f \in Files
        PROVE  reports[f] <= 1 /\ (reports[f] = 1 => count[f] = blocks[f])
    BY AtFile DEF CountInv
  <2> QED
    BY <2>1, <2>2 DEF JoinedMeansReported, tasks!JoinedMeansReported, Files
<1> QED
  BY <1>1, TasksInvariant, PTL

(* No pass runs on a task that is gone, or on one that another worker runs *)
(* a pass of, be it aborted meanwhile: for any number of files and workers *)
(* (task::operator() and abort() of 7_tasks).                              *)
THEOREM TasksOutliveTheirPasses == FairSpec => []PassesHaveTheTask
<1>1. TasksInv => PassesHaveTheTask
  <2> SUFFICES ASSUME TasksInv, NEW w \in Workers, at[w] \in {"pass", "again"}
      PROVE  visit[w] \in callable /\ \A u \in Workers \ {w} : visit[u] # visit[w]
    BY DEF PassesHaveTheTask, tasks!PassesHaveTheTask, Workers
  <2>1. visit[w] \in Files /\ phase[visit[w]] = "running"
    BY AtWorker DEF VisitInv
  <2>2. visit[w] \in callable
    BY <2>1, AtFile DEF LifeInv
  <2> QED
    BY <2>1, <2>2, FilesAre DEF TasksInv, Apart
<1> QED
  BY <1>1, TasksInvariant, PTL

-----------------------------------------------------------------------------
(* 6_data_ingress                                                          *)

(* How many values have been pushed, and how many have been taken out;     *)
(* value LastValue + 1 is -1, the end.                                     *)
Pushed   == IF i_main = "schedule" THEN i ELSE i - 1
Taken    == Pushed - Len(dataQueue)
Value(v) == IF v <= LastValue THEN v ELSE -1
Ended    == Taken = LastValue + 1

IngressTypes ==
  /\ i_phase \in [{Contract} -> {"free", "idle", "queued", "running", "releasing"}]
  /\ i_again \in [{Contract} -> BOOLEAN] /\ i_dying \in [{Contract} -> BOOLEAN]
  /\ i_valid \in BOOLEAN
  /\ i \in 1 .. LastValue + 2
  /\ dataQueue \in Seq(Int) /\ processed \in Seq(Int)
  /\ worker \in {"loop", "pop", "release", "look", "schedule", "return",
                 "erase", "free", "ended"}
  /\ i_main \in {"create", "push", "schedule", "wait", "join", "returned"}
  /\ i_main \in {"wait", "join", "returned"} <=> i = LastValue + 2
  /\ i_main = "create" => i = 1

(* What was pushed is what was processed, followed by what is in the queue. *)
QueueInv ==
  /\ Taken \in 0 .. LastValue + 1
  /\ \A j \in 1 .. Len(dataQueue) : dataQueue[j] = Value(Taken + j)
  /\ Len(processed) = IF Ended THEN LastValue ELSE Taken
  /\ \A v \in 1 .. Len(processed) : processed[v] = v

(* The contract is released, and goes, only after the last value. *)
IngressLife ==
  /\ worker \in {"pop", "release", "look", "schedule", "return"} =>
       i_phase[Contract] = "running"
  /\ worker \in {"erase", "free"} => i_phase[Contract] = "releasing"
  /\ worker = "release" => Ended
  /\ i_dying[Contract] => Ended
  /\ i_phase[Contract] = "releasing" => Ended
  /\ i_main # "create" => (i_phase[Contract] = "free" => Ended) /\ (~i_valid => Ended)
  /\ i_main \in {"join", "returned"} => ~i_valid

IngressInv == IngressTypes /\ QueueInv /\ IngressLife /\ NothingStranded

LEMMA IngressInit == ingress!Init => IngressInv
<1> SUFFICES ASSUME ingress!Init PROVE IngressInv
  OBVIOUS
<1> USE ClientsAssumption DEF ingress!Init, ingress!Life!Init
<1>1. /\ dataQueue \in Seq(Int) /\ Len(dataQueue) = 0
      /\ processed \in Seq(Int) /\ Len(processed) = 0
  BY EmptySeq
<1>2. IngressTypes
  <2>1. /\ i_main = "create" /\ i = 1 /\ worker = "loop" /\ i_valid = FALSE
        /\ i_phase = [c \in {Contract} |-> "free"]
        /\ i_again = [c \in {Contract} |-> FALSE] /\ i_dying = [c \in {Contract} |-> FALSE]
    OBVIOUS
  <2> HIDE DEF ingress!Init, ingress!Life!Init
  <2>2. i \in 1 .. LastValue + 2 /\ i # LastValue + 2
    BY <2>1, ClientsAssumption
  <2>3. /\ i_phase \in [{Contract} -> {"free", "idle", "queued", "running", "releasing"}]
        /\ i_again \in [{Contract} -> BOOLEAN] /\ i_dying \in [{Contract} -> BOOLEAN]
    BY <2>1
  <2> QED
    BY <1>1, <2>1, <2>2, <2>3 DEF IngressTypes
<1>3. Taken = 0
  <2>1. i_main = "create" /\ i = 1
    OBVIOUS
  <2> HIDE DEF ingress!Init, ingress!Life!Init
  <2> QED
    BY <1>1, <2>1 DEF Taken, Pushed
<1>4. QueueInv /\ IngressLife
  BY <1>1, <1>3 DEF QueueInv, IngressLife, Ended
<1>5. NothingStranded
  BY DEF NothingStranded, ingress!NothingStranded
<1> QED
  BY <1>2, <1>4, <1>5 DEF IngressInv

(* A step that neither pushes nor takes a value keeps the queue as it is. *)
LEMMA QueueKept ==
  ASSUME QueueInv, dataQueue' = dataQueue, processed' = processed, Pushed' = Pushed
  PROVE  QueueInv' /\ Taken' = Taken /\ Ended' = Ended
  BY DEF QueueInv, Taken, Ended, Value

LEMMA IngressExecute ==
  ASSUME IngressInv, ingress!Execute
  PROVE  IngressInv'
<1> USE ClientsAssumption DEF ingress!Execute, ingress!Life!Serve, ingress!Life!Start, ingress!Life!StartRelease, ingress!life
<1>1. IngressTypes /\ QueueInv /\ IngressLife /\ NothingStranded
  BY DEF IngressInv
<1>2. IngressTypes'
  BY <1>1 DEF IngressTypes, IngressLife
<1>3. dataQueue' = dataQueue /\ processed' = processed /\ Pushed' = Pushed
  BY <1>1 DEF Pushed, IngressTypes
<1>4. QueueInv' /\ Taken' = Taken /\ Ended' = Ended
  BY <1>1, <1>3, QueueKept
<1>5. Ended => dataQueue = <<>>
  BY <1>1, EmptySeq DEF Ended, Taken, Pushed, IngressTypes
<1>6. IngressLife'
  BY <1>1, <1>4 DEF IngressTypes, IngressLife
<1>7. NothingStranded'
  BY <1>1, <1>5 DEF NothingStranded, ingress!NothingStranded, IngressTypes, IngressLife
<1> QED
  BY <1>2, <1>4, <1>6, <1>7 DEF IngressInv

LEMMA IngressRelease ==
  ASSUME IngressInv, ingress!Release
  PROVE  IngressInv'
<1> USE ClientsAssumption DEF ingress!Release, ingress!Life!Release, ingress!Life!Enqueue, ingress!life
<1>1. IngressTypes /\ QueueInv /\ IngressLife /\ NothingStranded
  BY DEF IngressInv
<1>2. IngressTypes'
  BY <1>1 DEF IngressTypes, IngressLife
<1>3. dataQueue' = dataQueue /\ processed' = processed /\ Pushed' = Pushed
  BY <1>1 DEF Pushed, IngressTypes
<1>4. QueueInv' /\ Taken' = Taken /\ Ended' = Ended
  BY <1>1, <1>3, QueueKept
<1>5. Ended => dataQueue = <<>>
  BY <1>1, EmptySeq DEF Ended, Taken, Pushed, IngressTypes
<1>6. IngressLife'
  BY <1>1, <1>4 DEF IngressTypes, IngressLife
<1>7. NothingStranded'
  BY <1>1, <1>5 DEF NothingStranded, ingress!NothingStranded, IngressTypes, IngressLife
<1> QED
  BY <1>2, <1>4, <1>6, <1>7 DEF IngressInv

LEMMA IngressLook ==
  ASSUME IngressInv, ingress!Look
  PROVE  IngressInv'
<1> USE ClientsAssumption DEF ingress!Look, ingress!life
<1>1. IngressTypes /\ QueueInv /\ IngressLife /\ NothingStranded
  BY DEF IngressInv
<1>2. IngressTypes'
  BY <1>1 DEF IngressTypes, IngressLife
<1>3. dataQueue' = dataQueue /\ processed' = processed /\ Pushed' = Pushed
  BY <1>1 DEF Pushed, IngressTypes
<1>4. QueueInv' /\ Taken' = Taken /\ Ended' = Ended
  BY <1>1, <1>3, QueueKept
<1>5. Ended => dataQueue = <<>>
  BY <1>1, EmptySeq DEF Ended, Taken, Pushed, IngressTypes
<1>6. IngressLife'
  BY <1>1, <1>4 DEF IngressTypes, IngressLife
<1>7. NothingStranded'
  BY <1>1, <1>5 DEF NothingStranded, ingress!NothingStranded, IngressTypes, IngressLife
<1> QED
  BY <1>2, <1>4, <1>6, <1>7 DEF IngressInv

LEMMA IngressReschedule ==
  ASSUME IngressInv, ingress!Reschedule
  PROVE  IngressInv'
<1> USE ClientsAssumption DEF ingress!Reschedule, ingress!Life!Schedule, ingress!Life!Enqueue, ingress!life
<1>1. IngressTypes /\ QueueInv /\ IngressLife /\ NothingStranded
  BY DEF IngressInv
<1>2. IngressTypes'
  BY <1>1 DEF IngressTypes, IngressLife
<1>3. dataQueue' = dataQueue /\ processed' = processed /\ Pushed' = Pushed
  BY <1>1 DEF Pushed, IngressTypes
<1>4. QueueInv' /\ Taken' = Taken /\ Ended' = Ended
  BY <1>1, <1>3, QueueKept
<1>5. Ended => dataQueue = <<>>
  BY <1>1, EmptySeq DEF Ended, Taken, Pushed, IngressTypes
<1>6. IngressLife'
  BY <1>1, <1>4 DEF IngressTypes, IngressLife
<1>7. NothingStranded'
  BY <1>1, <1>5 DEF NothingStranded, ingress!NothingStranded, IngressTypes, IngressLife
<1> QED
  BY <1>2, <1>4, <1>6, <1>7 DEF IngressInv

LEMMA IngressReturn ==
  ASSUME IngressInv, ingress!Return
  PROVE  IngressInv'
<1> USE ClientsAssumption DEF ingress!Return, ingress!Life!Finish, ingress!life
<1>1. IngressTypes /\ QueueInv /\ IngressLife /\ NothingStranded
  BY DEF IngressInv
<1>2. IngressTypes'
  BY <1>1 DEF IngressTypes, IngressLife
<1>3. dataQueue' = dataQueue /\ processed' = processed /\ Pushed' = Pushed
  BY <1>1 DEF Pushed, IngressTypes
<1>4. QueueInv' /\ Taken' = Taken /\ Ended' = Ended
  BY <1>1, <1>3, QueueKept
<1>5. Ended => dataQueue = <<>>
  BY <1>1, EmptySeq DEF Ended, Taken, Pushed, IngressTypes
<1>6. IngressLife'
  BY <1>1, <1>4 DEF IngressTypes, IngressLife
<1>7. NothingStranded'
  BY <1>1, <1>5 DEF NothingStranded, ingress!NothingStranded, IngressTypes, IngressLife
<1> QED
  BY <1>2, <1>4, <1>6, <1>7 DEF IngressInv

LEMMA IngressOrphan ==
  ASSUME IngressInv, ingress!Orphan
  PROVE  IngressInv'
<1> USE ClientsAssumption DEF ingress!Orphan, ingress!life
<1>1. IngressTypes /\ QueueInv /\ IngressLife /\ NothingStranded
  BY DEF IngressInv
<1>2. IngressTypes'
  BY <1>1 DEF IngressTypes, IngressLife
<1>3. dataQueue' = dataQueue /\ processed' = processed /\ Pushed' = Pushed
  BY <1>1 DEF Pushed, IngressTypes
<1>4. QueueInv' /\ Taken' = Taken /\ Ended' = Ended
  BY <1>1, <1>3, QueueKept
<1>5. Ended => dataQueue = <<>>
  BY <1>1, EmptySeq DEF Ended, Taken, Pushed, IngressTypes
<1>6. IngressLife'
  BY <1>1, <1>4 DEF IngressTypes, IngressLife
<1>7. NothingStranded'
  BY <1>1, <1>5 DEF NothingStranded, ingress!NothingStranded, IngressTypes, IngressLife
<1> QED
  BY <1>2, <1>4, <1>6, <1>7 DEF IngressInv

LEMMA IngressFree ==
  ASSUME IngressInv, ingress!Free
  PROVE  IngressInv'
<1> USE ClientsAssumption DEF ingress!Free, ingress!Life!Free, ingress!life
<1>1. IngressTypes /\ QueueInv /\ IngressLife /\ NothingStranded
  BY DEF IngressInv
<1>2. IngressTypes'
  BY <1>1 DEF IngressTypes, IngressLife
<1>3. dataQueue' = dataQueue /\ processed' = processed /\ Pushed' = Pushed
  BY <1>1 DEF Pushed, IngressTypes
<1>4. QueueInv' /\ Taken' = Taken /\ Ended' = Ended
  BY <1>1, <1>3, QueueKept
<1>5. Ended => dataQueue = <<>>
  BY <1>1, EmptySeq DEF Ended, Taken, Pushed, IngressTypes
<1>6. IngressLife'
  BY <1>1, <1>4 DEF IngressTypes, IngressLife
<1>7. NothingStranded'
  BY <1>1, <1>5 DEF NothingStranded, ingress!NothingStranded, IngressTypes, IngressLife
<1> QED
  BY <1>2, <1>4, <1>6, <1>7 DEF IngressInv

LEMMA IngressEndThread ==
  ASSUME IngressInv, ingress!EndThread
  PROVE  IngressInv'
<1> USE ClientsAssumption DEF ingress!EndThread, ingress!life
<1>1. IngressTypes /\ QueueInv /\ IngressLife /\ NothingStranded
  BY DEF IngressInv
<1>2. IngressTypes'
  BY <1>1 DEF IngressTypes, IngressLife
<1>3. dataQueue' = dataQueue /\ processed' = processed /\ Pushed' = Pushed
  BY <1>1 DEF Pushed, IngressTypes
<1>4. QueueInv' /\ Taken' = Taken /\ Ended' = Ended
  BY <1>1, <1>3, QueueKept
<1>5. Ended => dataQueue = <<>>
  BY <1>1, EmptySeq DEF Ended, Taken, Pushed, IngressTypes
<1>6. IngressLife'
  BY <1>1, <1>4 DEF IngressTypes, IngressLife
<1>7. NothingStranded'
  BY <1>1, <1>5 DEF NothingStranded, ingress!NothingStranded, IngressTypes, IngressLife
<1> QED
  BY <1>2, <1>4, <1>6, <1>7 DEF IngressInv

LEMMA IngressCreate ==
  ASSUME IngressInv, ingress!Create
  PROVE  IngressInv'
<1> USE ClientsAssumption DEF ingress!Create, ingress!Life!Create, ingress!life
<1>1. IngressTypes /\ QueueInv /\ IngressLife /\ NothingStranded
  BY DEF IngressInv
<1>2. IngressTypes'
  BY <1>1 DEF IngressTypes, IngressLife
<1>3. dataQueue' = dataQueue /\ processed' = processed /\ Pushed' = Pushed
  BY <1>1 DEF Pushed, IngressTypes
<1>4. QueueInv' /\ Taken' = Taken /\ Ended' = Ended
  BY <1>1, <1>3, QueueKept
<1>5. Ended => dataQueue = <<>>
  BY <1>1, EmptySeq DEF Ended, Taken, Pushed, IngressTypes
<1>6. IngressLife'
  BY <1>1, <1>4 DEF IngressTypes, IngressLife
<1>7. NothingStranded'
  BY <1>1, <1>5 DEF NothingStranded, ingress!NothingStranded, IngressTypes, IngressLife
<1> QED
  BY <1>2, <1>4, <1>6, <1>7 DEF IngressInv

LEMMA IngressSchedule ==
  ASSUME IngressInv, ingress!Schedule
  PROVE  IngressInv'
<1> USE ClientsAssumption DEF ingress!Schedule, ingress!Life!Schedule, ingress!Life!Enqueue, ingress!life
<1>1. IngressTypes /\ QueueInv /\ IngressLife /\ NothingStranded
  BY DEF IngressInv
<1>2. IngressTypes'
  <2>1. /\ i_main = "schedule" /\ i \in 1 .. LastValue + 1 /\ i' = i + 1
        /\ i_main' = IF i <= LastValue THEN "push" ELSE "wait"
    BY <1>1 DEF IngressTypes
  <2>2. /\ i' \in 1 .. LastValue + 2 /\ i_main' \in {"push", "wait"}
        /\ i_main' = "wait" <=> i' = LastValue + 2
    BY <2>1
  <2>3. /\ i_phase' \in [{Contract} -> {"free", "idle", "queued", "running", "releasing"}]
        /\ i_again' \in [{Contract} -> BOOLEAN] /\ i_dying' = i_dying
    BY <1>1 DEF IngressTypes
  <2> QED
    BY <1>1, <2>2, <2>3 DEF IngressTypes
<1>3. dataQueue' = dataQueue /\ processed' = processed /\ Pushed' = Pushed
  BY <1>1 DEF Pushed, IngressTypes
<1>4. QueueInv' /\ Taken' = Taken /\ Ended' = Ended
  BY <1>1, <1>3, QueueKept
<1>5. Ended => dataQueue = <<>>
  BY <1>1, EmptySeq DEF Ended, Taken, Pushed, IngressTypes
<1>6. IngressLife'
  BY <1>1, <1>4 DEF IngressTypes, IngressLife
<1>7. NothingStranded'
  BY <1>1, <1>5 DEF NothingStranded, ingress!NothingStranded, IngressTypes, IngressLife
<1> QED
  BY <1>2, <1>4, <1>6, <1>7 DEF IngressInv

LEMMA IngressRequestStop ==
  ASSUME IngressInv, ingress!RequestStop
  PROVE  IngressInv'
<1> USE ClientsAssumption DEF ingress!RequestStop, ingress!life
<1>1. IngressTypes /\ QueueInv /\ IngressLife /\ NothingStranded
  BY DEF IngressInv
<1>2. IngressTypes'
  BY <1>1 DEF IngressTypes, IngressLife
<1>3. dataQueue' = dataQueue /\ processed' = processed /\ Pushed' = Pushed
  BY <1>1 DEF Pushed, IngressTypes
<1>4. QueueInv' /\ Taken' = Taken /\ Ended' = Ended
  BY <1>1, <1>3, QueueKept
<1>5. Ended => dataQueue = <<>>
  BY <1>1, EmptySeq DEF Ended, Taken, Pushed, IngressTypes
<1>6. IngressLife'
  BY <1>1, <1>4 DEF IngressTypes, IngressLife
<1>7. NothingStranded'
  BY <1>1, <1>5 DEF NothingStranded, ingress!NothingStranded, IngressTypes, IngressLife
<1> QED
  BY <1>2, <1>4, <1>6, <1>7 DEF IngressInv

LEMMA IngressJoin ==
  ASSUME IngressInv, ingress!Join
  PROVE  IngressInv'
<1> USE ClientsAssumption DEF ingress!Join, ingress!life
<1>1. IngressTypes /\ QueueInv /\ IngressLife /\ NothingStranded
  BY DEF IngressInv
<1>2. IngressTypes'
  BY <1>1 DEF IngressTypes, IngressLife
<1>3. dataQueue' = dataQueue /\ processed' = processed /\ Pushed' = Pushed
  BY <1>1 DEF Pushed, IngressTypes
<1>4. QueueInv' /\ Taken' = Taken /\ Ended' = Ended
  BY <1>1, <1>3, QueueKept
<1>5. Ended => dataQueue = <<>>
  BY <1>1, EmptySeq DEF Ended, Taken, Pushed, IngressTypes
<1>6. IngressLife'
  BY <1>1, <1>4 DEF IngressTypes, IngressLife
<1>7. NothingStranded'
  BY <1>1, <1>5 DEF NothingStranded, ingress!NothingStranded, IngressTypes, IngressLife
<1> QED
  BY <1>2, <1>4, <1>6, <1>7 DEF IngressInv

LEMMA IngressPop ==
  ASSUME IngressInv, ingress!Pop
  PROVE  IngressInv'
<1> USE ClientsAssumption
<1>1. IngressTypes /\ QueueInv /\ IngressLife /\ NothingStranded
  BY DEF IngressInv
<1>2. /\ worker = "pop" /\ i_phase[Contract] = "running"
      /\ UNCHANGED <<i_phase, i_again, i_dying, i_valid, i_main, i>>
  BY <1>1 DEF ingress!Pop, ingress!life, IngressLife
<1>3. dataQueue \in Seq(Int) /\ Len(dataQueue) \in Nat /\ processed \in Seq(Int)
      /\ Len(processed) \in Nat /\ Pushed \in 0 .. LastValue + 1 /\ Pushed' = Pushed
  BY <1>1, <1>2, LenProperties DEF IngressTypes, Pushed
<1>4. CASE dataQueue = <<>>
  <2>1. dataQueue' = dataQueue /\ processed' = processed /\ worker' = "look"
    BY <1>4 DEF ingress!Pop
  <2>2. QueueInv' /\ Ended' = Ended
    BY <1>1, <1>3, <2>1, QueueKept
  <2>3. IngressTypes'
    BY <1>1, <1>2, <2>1 DEF IngressTypes
  <2>4. IngressLife'
    BY <1>1, <1>2, <2>1, <2>2 DEF IngressLife
  <2>5. NothingStranded'
    BY <2>1 DEF NothingStranded, ingress!NothingStranded
  <2> QED
    BY <2>2, <2>3, <2>4, <2>5 DEF IngressInv
<1>5. CASE dataQueue # <<>>
  <2>1. /\ dataQueue' = Tail(dataQueue) /\ dataQueue' \in Seq(Int)
        /\ Len(dataQueue) \in Nat \ {0} /\ Len(dataQueue') = Len(dataQueue) - 1
        /\ \A j \in 1 .. Len(dataQueue') : dataQueue'[j] = dataQueue[j + 1]
    BY <1>3, <1>5, HeadTailProperties, EmptySeq DEF ingress!Pop
  <2>2. Taken \in 0 .. LastValue /\ Taken' = Taken + 1 /\ ~Ended
    BY <1>1, <1>3, <2>1 DEF Taken, Ended, QueueInv
  <2>3. Head(dataQueue) = Value(Taken + 1)
    <3>1. Head(dataQueue) = dataQueue[1]
      OBVIOUS
    <3> QED
      BY <1>1, <2>1, <3>1 DEF QueueInv
  <2>4. \A j \in 1 .. Len(dataQueue') : dataQueue'[j] = Value(Taken' + j)
    <3> SUFFICES ASSUME NEW j \in 1 .. Len(dataQueue') PROVE dataQueue'[j] = Value(Taken' + j)
      OBVIOUS
    <3>1. j + 1 \in 1 .. Len(dataQueue) /\ Taken + (j + 1) = Taken' + j
      BY <2>1, <2>2
    <3>2. dataQueue[j + 1] = Value(Taken + (j + 1))
      BY <1>1, <3>1 DEF QueueInv
    <3> QED
      BY <2>1, <3>1, <3>2
  <2>5. CASE Taken + 1 <= LastValue
    <3>1. Head(dataQueue) = Taken + 1 /\ Taken + 1 # -1 /\ Taken + 1 \in Int
      BY <2>2, <2>3, <2>5 DEF Value
    <3>2. worker' = "look" /\ processed' = Append(processed, Taken + 1)
      BY <1>5, <3>1 DEF ingress!Pop
    <3>3. /\ processed' \in Seq(Int) /\ Len(processed') = Len(processed) + 1
          /\ \A v \in 1 .. Len(processed) : processed'[v] = processed[v]
          /\ processed'[Len(processed) + 1] = Taken + 1
      BY <1>3, <3>1, <3>2, AppendProperties
    <3>4. Len(processed) = Taken /\ ~Ended'
      BY <1>1, <2>2, <2>5 DEF QueueInv, Ended
    <3>5. \A v \in 1 .. Len(processed') : processed'[v] = v
      BY <1>1, <1>3, <2>2, <3>3, <3>4 DEF QueueInv
    <3>6. QueueInv'
      BY <2>2, <2>4, <2>5, <3>3, <3>4, <3>5 DEF QueueInv
    <3>7. IngressTypes'
      BY <1>1, <1>2, <2>1, <3>2, <3>3 DEF IngressTypes
    <3>8. IngressLife' /\ NothingStranded'
      BY <1>1, <1>2, <2>2, <3>2 DEF IngressLife, NothingStranded, ingress!NothingStranded
    <3> QED
      BY <3>6, <3>7, <3>8 DEF IngressInv
  <2>6. CASE ~(Taken + 1 <= LastValue)
    <3>1. Head(dataQueue) = -1 /\ Taken = LastValue /\ Ended'
      BY <2>2, <2>3, <2>6 DEF Value, Ended
    <3>2. worker' = "release" /\ processed' = processed
      BY <1>5, <3>1 DEF ingress!Pop
    <3>3. QueueInv'
      BY <1>1, <2>2, <2>4, <3>1, <3>2 DEF QueueInv
    <3>4. IngressTypes'
      BY <1>1, <1>2, <2>1, <3>2 DEF IngressTypes
    <3>5. IngressLife' /\ NothingStranded'
      BY <1>1, <1>2, <3>1, <3>2 DEF IngressLife, NothingStranded, ingress!NothingStranded
    <3> QED
      BY <3>3, <3>4, <3>5 DEF IngressInv
  <2> QED
    BY <2>5, <2>6
<1> QED
  BY <1>4, <1>5

LEMMA IngressPush ==
  ASSUME IngressInv, ingress!Push
  PROVE  IngressInv'
<1> USE ClientsAssumption
<1>1. IngressTypes /\ QueueInv /\ IngressLife /\ NothingStranded
  BY DEF IngressInv
<1>2. /\ i_main = "push" /\ i_main' = "schedule"
      /\ UNCHANGED <<i_phase, i_again, i_dying, i_valid, processed, worker, i>>
      /\ dataQueue' = Append(dataQueue, Value(i))
  BY DEF ingress!Push, ingress!push, ingress!life, Value
<1>3. /\ dataQueue \in Seq(Int) /\ Len(dataQueue) \in Nat /\ i \in 1 .. LastValue + 1
      /\ Pushed = i - 1 /\ Pushed' = i /\ Value(i) \in Int
  BY <1>1, <1>2, LenProperties DEF IngressTypes, Pushed, Value
<1>4. /\ dataQueue' \in Seq(Int) /\ Len(dataQueue') = Len(dataQueue) + 1
      /\ \A j \in 1 .. Len(dataQueue) : dataQueue'[j] = dataQueue[j]
      /\ dataQueue'[Len(dataQueue) + 1] = Value(i)
  BY <1>2, <1>3, AppendProperties
<1>5. Taken' = Taken /\ Taken + Len(dataQueue) + 1 = i /\ Taken \in Int
  BY <1>3, <1>4 DEF Taken
<1>6. Ended' = Ended
  BY <1>5 DEF Ended
<1>7. \A j \in 1 .. Len(dataQueue') : dataQueue'[j] = Value(Taken + j)
  <2> SUFFICES ASSUME NEW j \in 1 .. Len(dataQueue') PROVE dataQueue'[j] = Value(Taken + j)
    OBVIOUS
  <2>1. CASE j \in 1 .. Len(dataQueue)
    BY <1>1, <1>4, <2>1 DEF QueueInv
  <2>2. CASE j = Len(dataQueue) + 1
    <3>1. Taken + j = i
      BY <1>3, <1>5, <2>2
    <3> QED
      BY <1>4, <2>2, <3>1
  <2> QED
    BY <1>3, <1>4, <2>1, <2>2
<1>8. QueueInv'
  BY <1>1, <1>2, <1>5, <1>6, <1>7 DEF QueueInv
<1>9. IngressTypes'
  BY <1>1, <1>2, <1>3, <1>4 DEF IngressTypes
<1> QED
  BY <1>1, <1>2, <1>6, <1>8, <1>9
     DEF IngressInv, IngressLife, NothingStranded, ingress!NothingStranded

LEMMA IngressStep ==
  ASSUME IngressInv, ingress!Next
  PROVE  IngressInv'
  BY IngressExecute, IngressPop, IngressRelease, IngressLook, IngressReschedule,
     IngressReturn, IngressOrphan, IngressFree, IngressEndThread,
     IngressCreate, IngressPush, IngressSchedule, IngressRequestStop, IngressJoin
     DEF ingress!Next, ingress!Worker, ingress!Main

LEMMA IngressStutter ==
  ASSUME IngressInv, UNCHANGED ingress_vars
  PROVE  IngressInv'
<1> USE DEF ingress_vars, IngressInv
<1>1. QueueInv' /\ Ended' = Ended
  BY QueueKept DEF Pushed
<1>2. IngressTypes'
  BY DEF IngressTypes
<1>3. IngressLife'
  BY <1>1 DEF IngressLife
<1>4. NothingStranded'
  BY DEF NothingStranded, ingress!NothingStranded
<1> QED
  BY <1>1, <1>2, <1>3, <1>4

LEMMA IngressInvariant == FairSpec => []IngressInv
<1>1. Init => IngressInv
  BY IngressInit DEF Init
<1>2. IngressInv /\ [Next]_vars => IngressInv'
  BY IngressStep, IngressStutter
     DEF Next, vars, InThisContract, InTasks, InIngress, InBenchmark
<1> QED
  BY <1>1, <1>2, PTL DEF FairSpec

(* No value is stranded, however the pushes and schedules of the main      *)
(* thread fall between the steps of a run: for any number of values that   *)
(* the queue has room for (6_data_ingress).                                *)
THEOREM NoValueIsStranded == FairSpec => []NothingStranded
<1>1. IngressInv => NothingStranded
  BY DEF IngressInv
<1> QED
  BY <1>1, IngressInvariant, PTL

(* Values are processed once each, in the order they were pushed, and all  *)
(* of them before the contract becomes invalid (6_data_ingress).           *)
THEOREM ValuesInOrder == FairSpec => []ProcessedInOrder
<1>1. IngressInv => ProcessedInOrder
  <2> SUFFICES ASSUME IngressInv PROVE ProcessedInOrder
    OBVIOUS
  <2>1. processed \in Seq(Int) /\ QueueInv /\ IngressLife
    BY DEF IngressInv, IngressTypes
  <2>2. processed \in [1 .. Len(processed) -> Int]
    BY <2>1, LenProperties
  <2>3. processed = [v \in 1 .. Len(processed) |-> processed[v]]
    BY <2>2
  <2>4. [v \in 1 .. Len(processed) |-> processed[v]] = [v \in 1 .. Len(processed) |-> v]
    BY <2>1 DEF QueueInv
  <2>5. i_main \in {"join", "returned"} => Len(processed) = LastValue
    BY <2>1 DEF QueueInv, IngressLife
  <2> QED
    BY <2>3, <2>4, <2>5 DEF ProcessedInOrder, ingress!ProcessedInOrder
<1> QED
  BY <1>1, IngressInvariant, PTL

-----------------------------------------------------------------------------
(* this_contract                                                           *)

thisProofs == INSTANCE ThisContractProofs WITH Threads <- Callers

LEMMA ThisInit == this!Init => thisProofs!Init
  BY DEF this!Init, thisProofs!Init

LEMMA ThisNext == this!Next => thisProofs!Next
<1> SUFFICES ASSUME this!Next PROVE thisProofs!Next
  OBVIOUS
<1> USE DEF this!depth, thisProofs!depth, this!Top, thisProofs!Top,
            this!InCallback, thisProofs!InCallback, this!Goto, thisProofs!Goto,
            this!Named, thisProofs!Named
<1>1. ASSUME NEW t \in Callers, NEW c \in Contracts, this!Begin(t, c)
      PROVE  thisProofs!Begin(t, c)
  BY <1>1 DEF this!Begin, thisProofs!Begin
<1>2. ASSUME NEW t \in Callers, this!MakeGuard(t)
      PROVE  thisProofs!MakeGuard(t)
  BY <1>2 DEF this!MakeGuard, thisProofs!MakeGuard
<1>3. ASSUME NEW t \in Callers, this!DestroyGuard(t)
      PROVE  thisProofs!DestroyGuard(t)
  BY <1>3 DEF this!DestroyGuard, thisProofs!DestroyGuard
<1>4. ASSUME NEW t \in Callers, this!EndRun(t)
      PROVE  thisProofs!EndRun(t)
  BY <1>4 DEF this!EndRun, thisProofs!EndRun, this!Front, thisProofs!Front
<1>10. ASSUME NEW t \in Callers, this!EndRelease(t)
      PROVE  thisProofs!EndRelease(t)
  BY <1>10 DEF this!EndRelease, thisProofs!EndRelease, this!Front, thisProofs!Front
<1>5. ASSUME NEW t \in Callers, this!Throw(t)
      PROVE  thisProofs!Throw(t)
  BY <1>5 DEF this!Throw, thisProofs!Throw
<1>6. ASSUME NEW t \in Callers, this!Return(t)
      PROVE  thisProofs!Return(t)
  BY <1>6 DEF this!Return, thisProofs!Return
<1>11. ASSUME NEW t \in Callers, this!Escape(t)
      PROVE  thisProofs!Escape(t)
  BY <1>11 DEF this!Escape, thisProofs!Escape
<1>7. ASSUME NEW t \in Callers, this!ThisSchedule(t)
      PROVE  thisProofs!ThisSchedule(t)
  BY <1>7 DEF this!ThisSchedule, thisProofs!ThisSchedule
<1>8. ASSUME NEW t \in Callers, this!ThisRelease(t)
      PROVE  thisProofs!ThisRelease(t)
  BY <1>8 DEF this!ThisRelease, thisProofs!ThisRelease
<1>9. ASSUME NEW c \in Contracts, this!ClientRequest(c)
      PROVE  thisProofs!ClientRequest(c)
  BY <1>9 DEF this!ClientRequest, thisProofs!ClientRequest
<1> QED
  BY <1>1, <1>2, <1>3, <1>4, <1>5, <1>6, <1>7, <1>8, <1>9, <1>10, <1>11
     DEF this!Next, thisProofs!Next

LEMMA ThisSpec == FairSpec => thisProofs!Spec
<1>1. Init => thisProofs!Init
  BY ThisInit DEF Init
<1>2. [Next]_vars => [thisProofs!Next]_(thisProofs!vars)
  BY ThisNext DEF Next, vars, InThisContract, InTasks, InIngress, InBenchmark,
     this_vars, thisProofs!vars
<1> QED
  BY <1>1, <1>2, PTL DEF FairSpec, thisProofs!Spec

(* In a run's callbacks this_contract is that run's contract, however deep *)
(* runs are nested and whichever of them ended by exceptions: for any      *)
(* threads and contracts (this_contract, and its guard).                   *)
THEOREM ThisNamesInnermost == FairSpec => []NamesInnermostRun
<1>1. thisProofs!NamesInnermostRun => NamesInnermostRun
  BY DEF NamesInnermostRun, this!NamesInnermostRun, thisProofs!NamesInnermostRun,
     this!depth, thisProofs!depth, this!Guarded, thisProofs!Guarded
<1>2. thisProofs!Spec => []thisProofs!NamesInnermostRun
  BY thisProofs!NamesInnermost
<1> QED
  BY <1>1, <1>2, ThisSpec, PTL

(* No thread can schedule or release, through this_contract, a contract    *)
(* that another thread is running: for any threads and contracts.          *)
THEOREM ThisIsOurs == FairSpec => []NamedContractIsOurs
<1>1. thisProofs!NamedContractIsOurs => NamedContractIsOurs
  BY DEF NamedContractIsOurs, this!NamedContractIsOurs, thisProofs!NamedContractIsOurs,
     this!depth, thisProofs!depth, this!Named, thisProofs!Named
<1>2. thisProofs!Spec => []thisProofs!NamedContractIsOurs
  BY thisProofs!NamedIsOurs
<1> QED
  BY <1>1, <1>2, ThisSpec, PTL

(* However callbacks end, no execute flag is left set and every contract   *)
(* that was released is erased: for any threads and contracts (the         *)
(* destructors of auto_clear_execute_flag and auto_erase_contract).        *)
THEOREM ThisStrandsNone == FairSpec => []NoneStrandedByExceptions
<1>1. thisProofs!NoneStrandedByExceptions => NoneStrandedByExceptions
  BY DEF NoneStrandedByExceptions, this!NoneStrandedByExceptions,
     thisProofs!NoneStrandedByExceptions, this!UnderWay, thisProofs!UnderWay,
     this!depth, thisProofs!depth
<1>2. thisProofs!Spec => []thisProofs!NoneStrandedByExceptions
  BY thisProofs!NoneStranded
<1> QED
  BY <1>1, <1>2, ThisSpec, PTL

-----------------------------------------------------------------------------
(* signal_tree_benchmark                                                   *)

Racers == benchmark!threads

Finished == benchmark!Finished

(* How many signals a thread has set, and selected; how many of its calls  *)
(* have counted in the root, and taken a count from it.                    *)
Entered ==
  [j \in Racers |-> IF nextOp[j] <= 0 THEN 0
                    ELSE IF nextOp[j] <= opsPerThread THEN nextOp[j] ELSE opsPerThread]
Selected ==
  [j \in Racers |-> IF nextOp[j] <= opsPerThread THEN 0
                    ELSE IF nextOp[j] <= Finished THEN nextOp[j] - opsPerThread
                    ELSE opsPerThread]
Counted ==
  [j \in Racers |-> IF climbs[benchmark!Setter(j)] THEN Entered[j] - 1 ELSE Entered[j]]
Promised ==
  [j \in Racers |-> IF level[benchmark!Selector(j)] = Capacity THEN Selected[j]
                    ELSE Selected[j] + 1]

(* The operations by which the threads are ahead in `more'. *)
Ahead(more, less) ==
  {p \in Racers \X (0 .. opsPerThread - 1) : less[p[1]] <= p[2] /\ p[2] < more[p[1]]}
Lead(more, less) == Cardinality(Ahead(more, less))

(* Every thread sets first and selects then, one operation at a time, and  *)
(* selects for itself no more than it has set.                             *)
RacerInv(j) ==
  /\ nextOp[j] \in -1 .. Finished + 2
  /\ localTotalSelected[j] = Selected[j]
  /\ climbs[benchmark!Setter(j)] => nextOp[j] \in 1 .. opsPerThread
  /\ level[benchmark!Selector(j)] # Capacity =>
       nextOp[j] \in opsPerThread .. Finished - 1 /\ ~climbs[benchmark!Setter(j)]

(* A signal that is set has been set by its thread. *)
RangeInv(j) ==
  \A k \in 0 .. opsPerThread - 1 : benchmark!Base(j) + k \in signal => k < nextOp[j]

RacersAre(S) == {j \in Racers : nextOp[j] \in S}

LoopsOK == nextOp \in [Racers -> Int] /\ localTotalSelected \in [Racers -> Int]

(* The barrier counts the threads that have begun and not ended.           *)
TotalsInv ==
  /\ ~invalid
  /\ totalSet \in Nat /\ totalSelected = totalSet
  /\ activeThreadCount = Cardinality(RacersAre(0 .. Finished + 1))
  /\ b_main \in {"created", "started", "reported"}
  /\ b_main # "created" => \A j \in Racers : nextOp[j] >= 0
  /\ b_main = "reported" => \A j \in Racers : nextOp[j] = Finished + 2

(* The benchmark's tree, with the theorems about it. *)
treeProofs == INSTANCE SignalTreeProofs WITH
  count     <- counters,
  Setters   <- {benchmark!Setter(j) : j \in benchmark!threads},
  Selectors <- {benchmark!Selector(j) : j \in benchmark!threads},
  Indices   <- {benchmark!Base(j) + k : j \in benchmark!threads, k \in 0 .. opsPerThread - 1},
  MaxSets   <- num_threads * opsPerThread

(* The signals that are set are as many as the threads have set and not    *)
(* selected; what the root counts is as much as was counted there and not  *)
(* taken.                                                                  *)
BenchInv ==
  /\ LoopsOK
  /\ \A j \in Racers : RacerInv(j) /\ RangeInv(j)
  /\ TotalsInv
  /\ Cardinality(signal) = Lead(Entered, Selected)
  /\ treeProofs!RootContent = Lead(Counted, Promised)

LEMMA RacersAreFinite ==
  /\ num_threads \in Nat \ {0} /\ opsPerThread \in Nat
  /\ Racers = 0 .. num_threads - 1
  /\ IsFiniteSet(Racers) /\ Cardinality(Racers) = num_threads
  /\ Finished = 2 * opsPerThread
<1>1. num_threads \in Nat \ {0} /\ opsPerThread \in Nat
  BY BenchmarkAssumption
<1>2. Racers = 0 .. num_threads - 1 /\ Finished = 2 * opsPerThread
  BY DEF Racers, Finished, benchmark!threads, benchmark!Finished
<1>3. IsFiniteSet(0 .. num_threads - 1) /\ Cardinality(0 .. num_threads - 1) = num_threads
  BY <1>1, FS_Interval
<1> QED
  BY <1>1, <1>2, <1>3

(* The benchmark's tree is the tree of SignalTreeProofs. *)
LEMMA TreeIsShaped ==
  \A size \in treeProofs!ValidSizes : treeProofs!SoundShape(size)
<1>1. treeProofs!ValidSizes = benchmark!Tree!ValidSizes
  BY DEF treeProofs!ValidSizes, benchmark!Tree!ValidSizes
<1>2. ASSUME NEW size, benchmark!Tree!SoundShape(size)
      PROVE  treeProofs!SoundShape(size)
  BY <1>2, Zenon DEF treeProofs!SoundShape, benchmark!Tree!SoundShape,
     treeProofs!WordBits, benchmark!Tree!WordBits,
     treeProofs!minimum_bit_count, benchmark!Tree!minimum_bit_count,
     treeProofs!Fits, benchmark!Tree!Fits, treeProofs!Max, benchmark!Tree!Max,
     treeProofs!sub_counter_arity, benchmark!Tree!sub_counter_arity,
     treeProofs!counter_capacity, benchmark!Tree!counter_capacity,
     treeProofs!bits_per_counter, benchmark!Tree!bits_per_counter,
     treeProofs!Levels, benchmark!Tree!Levels,
     treeProofs!number_of_bias_bits, benchmark!Tree!number_of_bias_bits,
     treeProofs!bias_bits_consumed, benchmark!Tree!bias_bits_consumed,
     treeProofs!MapThenSumSet, benchmark!Tree!MapThenSumSet,
     treeProofs!MapThenFoldSet, benchmark!Tree!MapThenFoldSet
<1> QED
  BY <1>1, <1>2, BenchmarkAssumption

(* The ranges of two threads have no signal in common. *)
LEMMA RangesAreApart ==
  /\ Capacity \in Nat \ {0}
  /\ \A j \in Racers : \A k \in 0 .. opsPerThread - 1 :
       /\ benchmark!Base(j) + k \in 0 .. Capacity - 1
       /\ \A m \in Racers : \A l \in 0 .. opsPerThread - 1 :
            benchmark!Base(j) + k = benchmark!Base(m) + l => j = m /\ k = l
<1>1. Capacity \in Nat \ {0}
  <2>1. Capacity \in treeProofs!ValidSizes
    BY BenchmarkAssumption DEF benchmark!Tree!ValidSizes, treeProofs!ValidSizes
  <2>2. treeProofs!SoundShape(Capacity)
    BY <2>1, TreeIsShaped
  <2>3. Capacity \in Nat /\ Capacity >= 64
    BY <2>2 DEF treeProofs!SoundShape, treeProofs!WordBits
  <2> QED
    BY <2>3
<1> DEFINE r == Capacity \div num_threads
<1>2. r \in Nat /\ opsPerThread <= r /\ num_threads * r <= Capacity
  BY <1>1, BenchmarkAssumption
<1>3. \A j : benchmark!Base(j) = j * r
  BY DEF benchmark!Base
<1> HIDE DEF r
<1>4. ASSUME NEW j \in Racers, NEW k \in 0 .. opsPerThread - 1
      PROVE  j * r + k \in 0 .. Capacity - 1
  <2>1. j \in Nat /\ j + 1 <= num_threads /\ k \in 0 .. r - 1
    BY <1>2, RacersAreFinite
  <2>2. (j + 1) * r <= num_threads * r
    BY <1>2, <2>1, RacersAreFinite
  <2>3. j * r \in Nat /\ (j + 1) * r = j * r + r
    BY <1>2, <2>1
  <2>4. num_threads * r \in Nat
    BY <1>2, RacersAreFinite
  <2> QED
    BY <1>1, <1>2, <2>1, <2>2, <2>3, <2>4
<1>5. ASSUME NEW j \in Racers, NEW m \in Racers, NEW k \in 0 .. opsPerThread - 1,
             NEW l \in 0 .. opsPerThread - 1, j * r + k = m * r + l, j < m
      PROVE  FALSE
  <2>1. j \in Nat /\ m \in Nat /\ j + 1 <= m /\ k \in 0 .. r - 1 /\ l \in 0 .. r - 1
    BY <1>2, <1>5, RacersAreFinite
  <2>2. m * r >= (j + 1) * r /\ (j + 1) * r = j * r + r /\ j * r \in Nat /\ m * r \in Nat
    BY <1>2, <2>1
  <2> QED
    BY <1>2, <1>5, <2>1, <2>2
<1>6. ASSUME NEW j \in Racers, NEW m \in Racers, NEW k \in 0 .. opsPerThread - 1,
             NEW l \in 0 .. opsPerThread - 1, j * r + k = m * r + l
      PROVE  j = m /\ k = l
  <2>1. ~(j < m) /\ ~(m < j)
    BY <1>5, <1>6
  <2>2. j = m
    BY <2>1, RacersAreFinite
  <2>3. j * r \in Nat
    BY <1>2, RacersAreFinite
  <2> QED
    BY <1>6, <2>2, <2>3
<1> QED
  BY <1>1, <1>3, <1>4, <1>6

RaceSetters   == {benchmark!Setter(j) : j \in benchmark!threads}
RaceSelectors == {benchmark!Selector(j) : j \in benchmark!threads}
RaceIndices   ==
  {benchmark!Base(j) + k : j \in benchmark!threads, k \in 0 .. opsPerThread - 1}

(* What SignalTreeProofs assumes is true of it. *)
LEMMA TreeFits ==
  /\ Capacity \in treeProofs!ValidSizes
  /\ RaceIndices \subseteq 0 .. Capacity - 1
  /\ RaceSetters \cap RaceSelectors = {} /\ treeProofs!IsFiniteSet(treeProofs!Threads)
  /\ num_threads * opsPerThread \in Nat
<1>1. Capacity \in treeProofs!ValidSizes
  BY BenchmarkAssumption DEF benchmark!Tree!ValidSizes, treeProofs!ValidSizes
<1>2. RaceIndices \subseteq 0 .. Capacity - 1
  BY RangesAreApart DEF RaceIndices, Racers
<1>3. RaceSetters \cap RaceSelectors = {}
  BY DEF RaceSetters, RaceSelectors, benchmark!Setter, benchmark!Selector
<1>4. IsFiniteSet(RaceSetters \cup RaceSelectors)
  <2>1. IsFiniteSet({benchmark!Setter(j) : j \in Racers})
    <3> DEFINE f == [j \in Racers |-> benchmark!Setter(j)]
               S == {benchmark!Setter(j) : j \in Racers}
    <3>1. f \in Surjection(Racers, S)
      BY DEF Surjection
    <3> HIDE DEF f, S
    <3>2. IsFiniteSet(S)
      BY <3>1, RacersAreFinite, FS_Surjection
    <3> QED
      BY <3>2 DEF S
  <2>2. IsFiniteSet({benchmark!Selector(j) : j \in Racers})
    <3> DEFINE f == [j \in Racers |-> benchmark!Selector(j)]
               S == {benchmark!Selector(j) : j \in Racers}
    <3>1. f \in Surjection(Racers, S)
      BY DEF Surjection
    <3> HIDE DEF f, S
    <3>2. IsFiniteSet(S)
      BY <3>1, RacersAreFinite, FS_Surjection
    <3> QED
      BY <3>2 DEF S
  <2> QED
    BY <2>1, <2>2, FS_Union DEF RaceSetters, RaceSelectors, Racers
<1>5. treeProofs!IsFiniteSet(treeProofs!Threads)
  BY <1>4 DEF treeProofs!Threads, RaceSetters, RaceSelectors, treeProofs!IsFiniteSet, IsFiniteSet
<1>6. num_threads * opsPerThread \in Nat
  BY RacersAreFinite
<1> QED
  BY <1>1, <1>2, <1>3, <1>5, <1>6

LEMMA SameShape ==
  /\ treeProofs!WordBits = benchmark!Tree!WordBits
  /\ treeProofs!InnerLevels = benchmark!Tree!InnerLevels
  /\ treeProofs!Arity = benchmark!Tree!Arity
  /\ treeProofs!Below = benchmark!Tree!Below
<1> USE DEF
     benchmark!Tree!InnerLevels, treeProofs!InnerLevels,
     benchmark!Tree!TreeLevels, treeProofs!TreeLevels,
     benchmark!Tree!Arity, treeProofs!Arity, benchmark!Tree!Below, treeProofs!Below,
     treeProofs!WordBits, benchmark!Tree!WordBits,
     treeProofs!minimum_bit_count, benchmark!Tree!minimum_bit_count,
     treeProofs!Fits, benchmark!Tree!Fits, treeProofs!Max, benchmark!Tree!Max,
     treeProofs!sub_counter_arity, benchmark!Tree!sub_counter_arity,
     treeProofs!counter_capacity, benchmark!Tree!counter_capacity,
     treeProofs!Levels, benchmark!Tree!Levels
<1>1. treeProofs!WordBits = benchmark!Tree!WordBits
  BY Zenon
<1>2. treeProofs!InnerLevels = benchmark!Tree!InnerLevels
  BY Zenon
<1>3. treeProofs!Arity = benchmark!Tree!Arity
  BY Zenon
<1>4. treeProofs!Below = benchmark!Tree!Below
  BY Zenon
<1> QED
  BY <1>1, <1>2, <1>3, <1>4

LEMMA SameInit == benchmark!Tree!Init => treeProofs!Init
<1>1. treeProofs!Counters = benchmark!Tree!Counters
  <2>1. \A x : x \in treeProofs!Counters <=> x \in benchmark!Tree!Counters
    BY SameShape, SMT DEF treeProofs!Counters, benchmark!Tree!Counters,
       treeProofs!Nodes, benchmark!Tree!Nodes
  <2> QED
    BY <2>1, Zenon
<1> QED
  BY <1>1, SameShape, Zenon DEF benchmark!Tree!Init, treeProofs!Init,
     benchmark!Tree!Threads, treeProofs!Threads

LEMMA SameEmpty == treeProofs!empty <=> benchmark!Tree!empty
  BY SameShape, Zenon DEF treeProofs!empty, benchmark!Tree!empty,
     treeProofs!WordIsZero, benchmark!Tree!WordIsZero, treeProofs!IsLeaf, benchmark!Tree!IsLeaf,
     treeProofs!Leaf, benchmark!Tree!Leaf, treeProofs!NonZero, benchmark!Tree!NonZero

LEMMA SameSetLeaf ==
  ASSUME NEW t, NEW x, benchmark!Tree!SetLeaf(t, x) PROVE treeProofs!SetLeaf(t, x)
  BY SameShape DEF treeProofs!SetLeaf, benchmark!Tree!SetLeaf,
     treeProofs!IsLeaf, benchmark!Tree!IsLeaf,
     treeProofs!FirstCounted, benchmark!Tree!FirstCounted, treeProofs!Above, benchmark!Tree!Above

LEMMA SameCount ==
  ASSUME NEW t, benchmark!Tree!Count(t) PROVE treeProofs!Count(t)
  BY SameShape DEF treeProofs!Count, benchmark!Tree!Count,
     treeProofs!CounterOf, benchmark!Tree!CounterOf, treeProofs!Returns, benchmark!Tree!Returns,
     treeProofs!Above, benchmark!Tree!Above

LEMMA SameTakeCount ==
  ASSUME NEW t, benchmark!Tree!TakeCount(t) PROVE treeProofs!TakeCount(t)
  BY SameShape DEF treeProofs!TakeCount, benchmark!Tree!TakeCount,
     treeProofs!IsLeaf, benchmark!Tree!IsLeaf, treeProofs!Choosable, benchmark!Tree!Choosable,
     treeProofs!NonZero, benchmark!Tree!NonZero, treeProofs!IndexPart, benchmark!Tree!IndexPart

LEMMA SameTakeSignal ==
  ASSUME NEW t, benchmark!Tree!TakeSignal(t) PROVE treeProofs!TakeSignal(t)
  BY SameShape DEF treeProofs!TakeSignal, benchmark!Tree!TakeSignal,
     treeProofs!IsLeaf, benchmark!Tree!IsLeaf, treeProofs!Leaf, benchmark!Tree!Leaf

(* The steps of the benchmark are steps of its tree, or leave it alone.    *)
LEMMA RaceStep ==
  ASSUME NEW j \in Racers, benchmark!Thread(j)
  PROVE  [treeProofs!Next]_(treeProofs!vars)
<1> USE DEF treeProofs!vars, benchmark!treeVars
<1>1. benchmark!Setter(j) \in RaceSetters /\ benchmark!Selector(j) \in RaceSelectors
  BY DEF RaceSetters, RaceSelectors, Racers
<1>2. CASE benchmark!Set(j)
  <2>1. treeProofs!SetLeaf(benchmark!Setter(j), benchmark!Base(j) + nextOp[j])
    BY <1>2, SameSetLeaf DEF benchmark!Set
  <2>2. benchmark!Base(j) + nextOp[j] \in RaceIndices
    BY <1>2 DEF benchmark!Set, RaceIndices, Racers
  <2> QED
    BY <1>1, <2>1, <2>2 DEF treeProofs!Next, treeProofs!Setter, RaceSetters, RaceIndices
<1>3. CASE benchmark!Climb(j)
  <2>1. treeProofs!Count(benchmark!Setter(j))
    BY <1>3, SameCount DEF benchmark!Climb
  <2> QED
    BY <1>1, <2>1 DEF treeProofs!Next, treeProofs!Setter, RaceSetters
<1>4. CASE benchmark!Descend(j)
  <2>1. treeProofs!TakeCount(benchmark!Selector(j))
    BY <1>4, SameTakeCount DEF benchmark!Descend
  <2> QED
    BY <1>1, <2>1 DEF treeProofs!Next, treeProofs!Selector, RaceSelectors
<1>5. CASE benchmark!SelectSignal(j)
  <2>1. treeProofs!TakeSignal(benchmark!Selector(j))
    BY <1>5, SameTakeSignal DEF benchmark!SelectSignal
  <2> QED
    BY <1>1, <2>1 DEF treeProofs!Next, treeProofs!Selector, RaceSelectors
<1>6. CASE benchmark!SelectInvalid(j)
  BY <1>6 DEF benchmark!SelectInvalid, benchmark!Tree!SelectNothing, benchmark!Tree!vars
<1>7. CASE benchmark!Begin(j) \/ benchmark!AddTotals(j) \/ benchmark!End(j)
  BY <1>7 DEF benchmark!Begin, benchmark!AddTotals, benchmark!End
<1> QED
  BY <1>2, <1>3, <1>4, <1>5, <1>6, <1>7 DEF benchmark!Thread

LEMMA RaceTree == FairSpec => []treeProofs!TreeInv
<1>1. treeProofs!Spec => []treeProofs!TreeInv
  BY treeProofs!TreeInvariant, TreeIsShaped, TreeFits DEF RaceSetters, RaceSelectors, RaceIndices
<1>2. Init => treeProofs!Init
  BY SameInit DEF Init, benchmark!Init
<1>3. [Next]_vars => [treeProofs!Next]_(treeProofs!vars)
  <2> SUFFICES ASSUME [Next]_vars PROVE [treeProofs!Next]_(treeProofs!vars)
    OBVIOUS
  <2>1. CASE UNCHANGED benchmark_vars
    BY <2>1 DEF benchmark_vars, treeProofs!vars
  <2>2. CASE benchmark!StartTest \/ benchmark!Report
    BY <2>2 DEF benchmark!StartTest, benchmark!Report, benchmark!treeVars, treeProofs!vars
  <2>3. CASE \E j \in Racers : benchmark!Thread(j)
    BY <2>3, RaceStep
  <2> QED
    BY <2>1, <2>2, <2>3 DEF Next, vars, InThisContract, InTasks, InIngress, benchmark!Next, Racers
<1> QED
  BY <1>1, <1>2, <1>3, PTL DEF FairSpec, treeProofs!Spec

LEMMA AheadIsFinite ==
  ASSUME NEW more, NEW less
  PROVE  IsFiniteSet(Ahead(more, less)) /\ Lead(more, less) \in Nat
<1>1. IsFiniteSet(Racers) /\ IsFiniteSet(0 .. opsPerThread - 1)
  BY RacersAreFinite, FS_Interval
<1>2. IsFiniteSet(Racers \X (0 .. opsPerThread - 1))
  BY <1>1, FS_Product
<1>3. Ahead(more, less) \subseteq Racers \X (0 .. opsPerThread - 1)
  BY DEF Ahead
<1>4. IsFiniteSet(Ahead(more, less))
  BY <1>2, <1>3, FS_Subset
<1> QED
  BY <1>4, FS_CardinalityType DEF Lead

(* When one thread gains an operation, the lead grows by one; when what it *)
(* is compared with does, it shrinks by one.                               *)
LEMMA LeadGrows ==
  ASSUME NEW more, NEW more2, NEW less, NEW j \in Racers,
         more2[j] = more[j] + 1, more[j] \in 0 .. opsPerThread - 1,
         less[j] \in 0 .. more[j],
         \A m \in Racers \ {j} : more2[m] = more[m]
  PROVE  Lead(more2, less) = Lead(more, less) + 1
<1> DEFINE p == <<j, more[j]>>
<1>1. p \notin Ahead(more, less)
  BY DEF Ahead
<1>2. Ahead(more2, less) = Ahead(more, less) \cup {p}
  <2>1. ASSUME NEW q \in Racers \X (0 .. opsPerThread - 1)
        PROVE  q \in Ahead(more2, less) <=> q \in Ahead(more, less) \/ q = p
    <3>1. PICK m \in Racers, k \in 0 .. opsPerThread - 1 : q = <<m, k>>
      OBVIOUS
    <3>2. /\ q \in Ahead(more2, less) <=> less[m] <= k /\ k < more2[m]
          /\ q \in Ahead(more, less) <=> less[m] <= k /\ k < more[m]
          /\ q = p <=> m = j /\ k = more[j]
      BY <3>1 DEF Ahead
    <3>3. CASE m = j
      BY <3>2, <3>3, RacersAreFinite
    <3>4. CASE m # j
      BY <3>2, <3>4
    <3> QED
      BY <3>3, <3>4
  <2>2. p \in Racers \X (0 .. opsPerThread - 1)
    OBVIOUS
  <2>3. /\ Ahead(more2, less) \subseteq Racers \X (0 .. opsPerThread - 1)
        /\ Ahead(more, less) \subseteq Racers \X (0 .. opsPerThread - 1)
    BY DEF Ahead
  <2> HIDE DEF p
  <2> QED
    BY <2>1, <2>2, <2>3
<1> HIDE DEF p
<1> QED
  BY <1>1, <1>2, AheadIsFinite, FS_AddElement DEF Lead

LEMMA LeadShrinks ==
  ASSUME NEW more, NEW less, NEW less2, NEW j \in Racers,
         less2[j] = less[j] + 1, less[j] \in 0 .. opsPerThread - 1,
         more[j] \in Nat, less[j] < more[j],
         \A m \in Racers \ {j} : less2[m] = less[m]
  PROVE  Lead(more, less2) = Lead(more, less) - 1
<1> DEFINE p == <<j, less[j]>>
<1>1. p \in Ahead(more, less)
  BY DEF Ahead
<1>2. Ahead(more, less2) = Ahead(more, less) \ {p}
  <2>1. ASSUME NEW q \in Racers \X (0 .. opsPerThread - 1)
        PROVE  q \in Ahead(more, less2) <=> q \in Ahead(more, less) /\ q # p
    <3>1. PICK m \in Racers, k \in 0 .. opsPerThread - 1 : q = <<m, k>>
      OBVIOUS
    <3>2. /\ q \in Ahead(more, less2) <=> less2[m] <= k /\ k < more[m]
          /\ q \in Ahead(more, less) <=> less[m] <= k /\ k < more[m]
          /\ q = p <=> m = j /\ k = less[j]
      BY <3>1 DEF Ahead
    <3>3. CASE m = j
      BY <3>2, <3>3, RacersAreFinite
    <3>4. CASE m # j
      BY <3>2, <3>4
    <3> QED
      BY <3>3, <3>4
  <2>3. /\ Ahead(more, less2) \subseteq Racers \X (0 .. opsPerThread - 1)
        /\ Ahead(more, less) \subseteq Racers \X (0 .. opsPerThread - 1)
    BY DEF Ahead
  <2> HIDE DEF p
  <2> QED
    BY <2>1, <2>3
<1> HIDE DEF p
<1> QED
  BY <1>1, <1>2, AheadIsFinite, FS_RemoveElement DEF Lead

LEMMA LeadStays ==
  ASSUME NEW more, NEW more2, NEW less, NEW less2,
         \A m \in Racers : more2[m] = more[m] /\ less2[m] = less[m]
  PROVE  Lead(more2, less2) = Lead(more, less)
<1>1. Ahead(more2, less2) = Ahead(more, less)
  BY DEF Ahead
<1> QED
  BY <1>1 DEF Lead

LEMMA NoLead ==
  ASSUME NEW more, NEW less,
         \A m \in Racers : more[m] = less[m] /\ more[m] \in Nat
  PROVE  Lead(more, less) = 0
<1>1. Ahead(more, less) = {}
  BY DEF Ahead
<1> QED
  BY <1>1, FS_EmptySet DEF Lead

LEMMA SomeLead ==
  ASSUME NEW more, NEW less, NEW j \in Racers,
         less[j] \in 0 .. opsPerThread - 1, more[j] \in Nat, less[j] < more[j]
  PROVE  Lead(more, less) # 0
<1>1. <<j, less[j]>> \in Ahead(more, less)
  BY DEF Ahead
<1> QED
  BY <1>1, AheadIsFinite, FS_EmptySet DEF Lead

LEMMA LeadFollows ==
  ASSUME NEW more, NEW more2, NEW less, NEW less2, NEW j \in Racers,
         \A m \in Racers \ {j} : more2[m] = more[m] /\ less2[m] = less[m],
         more[j] \in 0 .. opsPerThread, less[j] \in 0 .. more[j],
         more2[j] \in 0 .. opsPerThread, less2[j] \in 0 .. more2[j],
         \/ more2[j] = more[j] + 1 /\ less2[j] = less[j]
         \/ more2[j] = more[j] /\ less2[j] = less[j] + 1
         \/ more2[j] = more[j] /\ less2[j] = less[j]
  PROVE  Lead(more2, less2) = Lead(more, less) + (more2[j] - more[j]) - (less2[j] - less[j])
<1>1. opsPerThread \in Nat /\ Lead(more, less) \in Nat
  BY RacersAreFinite, AheadIsFinite
<1>2. CASE more2[j] = more[j] + 1 /\ less2[j] = less[j]
  <2>1. Lead(more2, less) = Lead(more, less) + 1
    BY <1>1, <1>2, LeadGrows
  <2>2. Lead(more2, less2) = Lead(more2, less)
    BY <1>2, LeadStays
  <2> QED
    BY <1>1, <1>2, <2>1, <2>2
<1>3. CASE more2[j] = more[j] /\ less2[j] = less[j] + 1
  <2>1. Lead(more, less2) = Lead(more, less) - 1
    <3>1. less[j] \in 0 .. opsPerThread - 1 /\ more[j] \in Nat /\ less[j] < more[j]
      BY <1>1, <1>3
    <3>2. less2[j] = less[j] + 1 /\ \A m \in Racers \ {j} : less2[m] = less[m]
      BY <1>3
    <3> QED
      BY <3>1, <3>2, LeadShrinks
  <2>2. Lead(more2, less2) = Lead(more, less2)
    BY <1>3, LeadStays
  <2> QED
    BY <1>1, <1>3, <2>1, <2>2
<1>4. CASE more2[j] = more[j] /\ less2[j] = less[j]
  <2>1. Lead(more2, less2) = Lead(more, less)
    BY <1>4, LeadStays
  <2> QED
    BY <1>1, <1>4, <2>1
<1> QED
  BY <1>2, <1>3, <1>4

(* A thread has selected no more than it has set, and what it has taken    *)
(* the count of in the root no more than it has counted there.             *)
Bounded(j) ==
  /\ Entered[j] \in 0 .. opsPerThread /\ Selected[j] \in 0 .. Entered[j]
  /\ Counted[j] \in 0 .. Entered[j] /\ Promised[j] \in 0 .. Counted[j]

LEMMA RacerBounds == \A j \in Racers : RacerInv(j) => Bounded(j)
<1> SUFFICES ASSUME NEW j \in Racers, RacerInv(j) PROVE Bounded(j)
  OBVIOUS
<1>1. opsPerThread \in Nat /\ Finished = 2 * opsPerThread
  BY RacersAreFinite
<1>2. /\ Entered[j] = IF nextOp[j] <= 0 THEN 0
                      ELSE IF nextOp[j] <= opsPerThread THEN nextOp[j] ELSE opsPerThread
      /\ Selected[j] = IF nextOp[j] <= opsPerThread THEN 0
                       ELSE IF nextOp[j] <= Finished THEN nextOp[j] - opsPerThread
                       ELSE opsPerThread
      /\ Counted[j] = IF climbs[benchmark!Setter(j)] THEN Entered[j] - 1 ELSE Entered[j]
      /\ Promised[j] = IF level[benchmark!Selector(j)] = Capacity THEN Selected[j]
                       ELSE Selected[j] + 1
  BY DEF Entered, Selected, Counted, Promised
<1>3. nextOp[j] \in Int
  BY <1>1 DEF RacerInv
<1>4. Entered[j] \in 0 .. opsPerThread /\ Selected[j] \in 0 .. Entered[j]
  BY <1>1, <1>2, <1>3
<1>5. Counted[j] \in 0 .. Entered[j]
  BY <1>1, <1>2, <1>3, <1>4 DEF RacerInv
<1>6. Promised[j] \in 0 .. Counted[j]
  <2>1. CASE level[benchmark!Selector(j)] = Capacity
    <3>1. climbs[benchmark!Setter(j)] => Selected[j] = 0
      BY <1>1, <1>2, <1>3 DEF RacerInv
    <3> QED
      BY <1>2, <1>4, <1>5, <2>1, <3>1
  <2>2. CASE level[benchmark!Selector(j)] # Capacity
    <3>1. nextOp[j] \in opsPerThread .. Finished - 1 /\ ~climbs[benchmark!Setter(j)]
      BY <2>2 DEF RacerInv
    <3>2. Counted[j] = opsPerThread /\ Promised[j] = nextOp[j] - opsPerThread + 1
      BY <1>1, <1>2, <1>3, <2>2, <3>1
    <3> QED
      BY <1>1, <1>3, <3>1, <3>2
  <2> QED
    BY <2>1, <2>2
<1> QED
  BY <1>4, <1>5, <1>6 DEF Bounded

LEMMA RacerBoundsNext == \A j \in Racers : RacerInv(j)' => Bounded(j)'
<1>1. (\A j \in Racers : RacerInv(j) => Bounded(j))'
  BY RacerBounds, PTL
<1> QED
  BY <1>1

OthersStay(j) ==
  \A m \in Racers \ {j} :
    /\ nextOp'[m] = nextOp[m] /\ localTotalSelected'[m] = localTotalSelected[m]
    /\ climbs'[benchmark!Setter(m)] = climbs[benchmark!Setter(m)]
    /\ level'[benchmark!Selector(m)] = level[benchmark!Selector(m)]

OneAhead(more, more2, less, less2) ==
  \/ more2 = more + 1 /\ less2 = less
  \/ more2 = more /\ less2 = less + 1
  \/ more2 = more /\ less2 = less

(* The accounts are right after a step of one thread if what it does in    *)
(* the tree is what its loops have come to.                                *)
LEMMA AccountsFollow ==
  ASSUME BenchInv, NEW j \in Racers, OthersStay(j), RacerInv(j)',
         OneAhead(Entered[j], Entered'[j], Selected[j], Selected'[j]),
         OneAhead(Counted[j], Counted'[j], Promised[j], Promised'[j]),
         Cardinality(signal)' = Cardinality(signal) + (Entered'[j] - Entered[j])
                                                    - (Selected'[j] - Selected[j]),
         treeProofs!RootContent' = treeProofs!RootContent + (Counted'[j] - Counted[j])
                                                          - (Promised'[j] - Promised[j])
  PROVE  /\ \A m \in Racers : RacerInv(m)'
         /\ Cardinality(signal)' = Lead(Entered, Selected)'
         /\ treeProofs!RootContent' = Lead(Counted, Promised)'
<1>1. \A m \in Racers \ {j} : /\ Entered'[m] = Entered[m] /\ Selected'[m] = Selected[m]
                              /\ Counted'[m] = Counted[m] /\ Promised'[m] = Promised[m]
  BY DEF OthersStay, Entered, Selected, Counted, Promised
<1>2. \A m \in Racers : RacerInv(m)'
  <2>1. ASSUME NEW m \in Racers \ {j} PROVE RacerInv(m)'
    <3>1. RacerInv(m)
      BY DEF BenchInv
    <3> QED
      BY <1>1, <3>1 DEF RacerInv, OthersStay
  <2> QED
    BY <2>1
<1>3. /\ Entered[j] \in 0 .. opsPerThread /\ Selected[j] \in 0 .. Entered[j]
      /\ Counted[j] \in 0 .. Entered[j] /\ Promised[j] \in 0 .. Counted[j]
  BY RacerBounds DEF BenchInv, Bounded
<1>4. /\ Entered'[j] \in 0 .. opsPerThread /\ Selected'[j] \in 0 .. Entered'[j]
      /\ Counted'[j] \in 0 .. Entered'[j] /\ Promised'[j] \in 0 .. Counted'[j]
  BY RacerBoundsNext DEF Bounded
<1>5. PICK e, e2, s, s2, c, c2, p, p2 :
        /\ e = Entered /\ e2 = Entered' /\ s = Selected /\ s2 = Selected'
        /\ c = Counted /\ c2 = Counted' /\ p = Promised /\ p2 = Promised'
  OBVIOUS
<1>6. opsPerThread \in Nat
  BY RacersAreFinite
<1>7. Lead(e2, s2) = Lead(e, s) + (e2[j] - e[j]) - (s2[j] - s[j])
  <2>1. \A m \in Racers \ {j} : e2[m] = e[m] /\ s2[m] = s[m]
    BY <1>1, <1>5
  <2>2. /\ e[j] \in 0 .. opsPerThread /\ s[j] \in 0 .. e[j]
        /\ e2[j] \in 0 .. opsPerThread /\ s2[j] \in 0 .. e2[j]
    BY <1>3, <1>4, <1>5
  <2>3. OneAhead(e[j], e2[j], s[j], s2[j])
    BY <1>5
  <2> QED
    BY <2>1, <2>2, <2>3, LeadFollows DEF OneAhead
<1>8. Lead(c2, p2) = Lead(c, p) + (c2[j] - c[j]) - (p2[j] - p[j])
  <2>1. \A m \in Racers \ {j} : c2[m] = c[m] /\ p2[m] = p[m]
    BY <1>1, <1>5
  <2>2. /\ c[j] \in 0 .. opsPerThread /\ p[j] \in 0 .. c[j]
        /\ c2[j] \in 0 .. opsPerThread /\ p2[j] \in 0 .. c2[j]
    BY <1>3, <1>4, <1>5, <1>6
  <2>3. OneAhead(c[j], c2[j], p[j], p2[j])
    BY <1>5
  <2> QED
    BY <2>1, <2>2, <2>3, LeadFollows DEF OneAhead
<1>9. Cardinality(signal) = Lead(e, s) /\ treeProofs!RootContent = Lead(c, p)
  BY <1>5 DEF BenchInv
<1> QED
  BY <1>2, <1>5, <1>7, <1>8, <1>9

LEMMA RaceTypes ==
  ASSUME treeProofs!TreeInv
  PROVE  /\ treeProofs!TreeTypes /\ treeProofs!TypeOK
         /\ climbs \in [RaceSetters -> BOOLEAN]
         /\ IsFiniteSet(signal) /\ Cardinality(signal) \in Nat
         /\ \A x : x \notin signal => Cardinality(signal \cup {x}) = Cardinality(signal) + 1
         /\ \A x \in signal : Cardinality(signal \ {x}) = Cardinality(signal) - 1
         /\ treeProofs!RootContent \in Nat
<1>1. treeProofs!TreeTypes /\ treeProofs!TypeOK
  BY DEF treeProofs!TreeInv, treeProofs!TreeTypes
<1>2. climbs \in [RaceSetters -> BOOLEAN] /\ signal \subseteq RaceIndices
  BY <1>1 DEF treeProofs!TypeOK, RaceSetters, RaceIndices
<1>3. IsFiniteSet(0 .. Capacity - 1)
  BY RangesAreApart, FS_Interval
<1>4. IsFiniteSet(signal)
  BY <1>2, <1>3, TreeFits, FS_Subset
<1>5. treeProofs!RootContent \in Nat
  BY <1>1, treeProofs!RootIsNat, TreeIsShaped, TreeFits DEF RaceSetters, RaceSelectors, RaceIndices
<1> QED
  BY <1>1, <1>2, <1>4, <1>5, FS_CardinalityType, FS_AddElement, FS_RemoveElement

LEMMA RacersDiffer ==
  /\ \A j \in Racers : benchmark!Setter(j) \in RaceSetters /\ benchmark!Selector(j) \in RaceSelectors
  /\ \A j, m \in Racers : j # m => /\ benchmark!Setter(m) # benchmark!Setter(j)
                                   /\ benchmark!Selector(m) # benchmark!Selector(j)
  BY DEF RaceSetters, RaceSelectors, Racers, benchmark!Setter, benchmark!Selector

(* What the operations on the tree do to the thread, the signals and the   *)
(* root, for a signal that is set for the first time.                      *)
LEMMA AfterSet ==
  ASSUME treeProofs!TreeInv, treeProofs!TreeInv', NEW j \in Racers, NEW x \in RaceIndices,
         x \notin signal, benchmark!Tree!SetLeaf(benchmark!Setter(j), x)
  PROVE  /\ treeProofs!RootContent' = treeProofs!RootContent + IF Capacity = 64 THEN 1 ELSE 0
         /\ (climbs'[benchmark!Setter(j)] <=> Capacity # 64)
         /\ \A m \in Racers \ {j} : climbs'[benchmark!Setter(m)] = climbs[benchmark!Setter(m)]
         /\ \A m \in Racers : level'[benchmark!Selector(m)] = level[benchmark!Selector(m)]
         /\ signal' = signal \cup {x} /\ Cardinality(signal)' = Cardinality(signal) + 1
<1> DEFINE t == benchmark!Setter(j)
<1>1. treeProofs!SetLeaf(t, x) /\ ~climbs[t]
  BY SameSetLeaf DEF benchmark!Tree!SetLeaf
<1>2. treeProofs!TypeOK /\ treeProofs!TypeOK' /\ t \in RaceSetters
  BY RacersDiffer DEF treeProofs!TreeInv, treeProofs!TreeTypes
<1>3. /\ treeProofs!RootContent' = treeProofs!RootContent
                                     + IF Capacity = treeProofs!WordBits THEN 1 ELSE 0
      /\ climbs' = IF Capacity = treeProofs!WordBits THEN climbs ELSE [climbs EXCEPT ![t] = TRUE]
      /\ signal' = signal \cup {x}
      /\ \A u \in RaceSelectors : level'[u] = level[u]
  <2> HIDE DEF t
  <2> QED
    BY <1>1, <1>2, treeProofs!RootSetLeaf, TreeIsShaped, TreeFits
       DEF RaceSetters, RaceSelectors, RaceIndices
<1>4. Cardinality(signal') = Cardinality(signal) + 1
  BY <1>3, RaceTypes
<1>5. climbs'[t] <=> Capacity # 64
  BY <1>1, <1>2, <1>3, RaceTypes DEF treeProofs!WordBits
<1>6. \A u \in RaceSetters \ {t} : climbs'[u] = climbs[u]
  <2>1. CASE Capacity = 64
    BY <1>3, <2>1 DEF treeProofs!WordBits
  <2>2. CASE Capacity # 64
    BY <1>2, <1>3, <2>2, RaceTypes DEF treeProofs!WordBits
  <2> QED
    BY <2>1, <2>2
<1> QED
  BY <1>3, <1>4, <1>5, <1>6, RacersDiffer DEF treeProofs!WordBits

LEMMA AfterCount ==
  ASSUME treeProofs!TreeInv, NEW j \in Racers, benchmark!Tree!Count(benchmark!Setter(j))
  PROVE  /\ treeProofs!RootContent' =
              treeProofs!RootContent + IF climbs'[benchmark!Setter(j)] THEN 0 ELSE 1
         /\ climbs[benchmark!Setter(j)] /\ climbs'[benchmark!Setter(j)] \in BOOLEAN
         /\ \A m \in Racers \ {j} : climbs'[benchmark!Setter(m)] = climbs[benchmark!Setter(m)]
         /\ \A m \in Racers : level'[benchmark!Selector(m)] = level[benchmark!Selector(m)]
         /\ UNCHANGED signal
<1> DEFINE t == benchmark!Setter(j)
<1>1. treeProofs!Count(t)
  BY SameCount
<1>2. treeProofs!TreeTypes /\ t \in RaceSetters
  BY RacersDiffer DEF treeProofs!TreeInv
<1>3. /\ treeProofs!RootContent' = treeProofs!RootContent + IF level[t] = Capacity THEN 1 ELSE 0
      /\ climbs[t] /\ climbs' = [climbs EXCEPT ![t] = level[t] # Capacity]
      /\ UNCHANGED signal /\ \A u \in RaceSelectors : level'[u] = level[u]
  <2> HIDE DEF t
  <2> QED
    BY <1>1, <1>2, treeProofs!RootCount, TreeIsShaped, TreeFits
       DEF RaceSetters, RaceSelectors, RaceIndices
<1>4. climbs'[t] = (level[t] # Capacity) /\ \A u \in RaceSetters \ {t} : climbs'[u] = climbs[u]
  BY <1>2, <1>3, RaceTypes
<1> QED
  BY <1>3, <1>4, RacersDiffer

LEMMA AfterTakeCount ==
  ASSUME treeProofs!TreeInv, NEW j \in Racers, benchmark!Tree!TakeCount(benchmark!Selector(j))
  PROVE  /\ treeProofs!RootContent' =
              treeProofs!RootContent - IF level[benchmark!Selector(j)] = Capacity THEN 1 ELSE 0
         /\ level'[benchmark!Selector(j)] # Capacity
         /\ \A m \in Racers \ {j} : level'[benchmark!Selector(m)] = level[benchmark!Selector(m)]
         /\ UNCHANGED <<signal, climbs>>
<1> DEFINE t == benchmark!Selector(j)
<1>1. treeProofs!TakeCount(t)
  BY SameTakeCount
<1>2. treeProofs!TreeTypes /\ t \in RaceSelectors
  BY RacersDiffer DEF treeProofs!TreeInv
<1>3. /\ treeProofs!RootContent' = treeProofs!RootContent - IF level[t] = Capacity THEN 1 ELSE 0
      /\ level'[t] # Capacity /\ \A u \in RaceSelectors \ {t} : level'[u] = level[u]
      /\ UNCHANGED <<signal, climbs>>
  <2> HIDE DEF t
  <2> QED
    BY <1>1, <1>2, treeProofs!RootTakeCount, TreeIsShaped, TreeFits
       DEF RaceSetters, RaceSelectors, RaceIndices
<1> QED
  BY <1>3, RacersDiffer

LEMMA AfterTakeSignal ==
  ASSUME treeProofs!TreeInv, treeProofs!TreeInv', NEW j \in Racers,
         benchmark!Tree!TakeSignal(benchmark!Selector(j))
  PROVE  /\ treeProofs!RootContent' =
              treeProofs!RootContent - IF level[benchmark!Selector(j)] = Capacity THEN 1 ELSE 0
         /\ level'[benchmark!Selector(j)] = Capacity
         /\ \A m \in Racers \ {j} : level'[benchmark!Selector(m)] = level[benchmark!Selector(m)]
         /\ UNCHANGED climbs /\ signal' \subseteq signal
         /\ Cardinality(signal)' = Cardinality(signal) - 1
<1> DEFINE t == benchmark!Selector(j)
<1>1. treeProofs!TakeSignal(t)
  BY SameTakeSignal
<1>2. treeProofs!TypeOK /\ treeProofs!TypeOK' /\ t \in RaceSelectors
  BY RacersDiffer DEF treeProofs!TreeInv, treeProofs!TreeTypes
<1>3. /\ treeProofs!RootContent' = treeProofs!RootContent - IF level[t] = Capacity THEN 1 ELSE 0
      /\ level'[t] = Capacity /\ \A u \in RaceSelectors \ {t} : level'[u] = level[u]
      /\ UNCHANGED climbs /\ \E x \in signal : signal' = signal \ {x}
  <2> HIDE DEF t
  <2> QED
    BY <1>1, <1>2, treeProofs!RootTakeSignal, TreeIsShaped, TreeFits
       DEF RaceSetters, RaceSelectors, RaceIndices
<1>4. Cardinality(signal') = Cardinality(signal) - 1 /\ signal' \subseteq signal
  BY <1>3, RaceTypes
<1> QED
  BY <1>3, <1>4, RacersDiffer

LEMMA NothingAtRoot ==
  ASSUME treeProofs!TreeInv
  PROVE  benchmark!Tree!empty <=> treeProofs!RootContent = 0
  BY RaceTypes, SameEmpty, treeProofs!RootIsEmpty, TreeIsShaped, TreeFits
     DEF RaceSetters, RaceSelectors, RaceIndices

-----------------------------------------------------------------------------

LEMMA RaceInit ==
  ASSUME benchmark!Init, treeProofs!TreeInv
  PROVE  BenchInv
<1>1. /\ \A j \in Racers : nextOp[j] = -1 /\ localTotalSelected[j] = 0
      /\ ~invalid /\ activeThreadCount = 0 /\ totalSet = 0 /\ totalSelected = 0
      /\ b_main = "created"
  BY DEF benchmark!Init, Racers
<1>2. /\ signal = {}
      /\ \A j \in Racers : /\ ~climbs[benchmark!Setter(j)]
                           /\ level[benchmark!Selector(j)] = Capacity
  <2>1. ASSUME NEW j \in Racers
        PROVE  ~climbs[benchmark!Setter(j)] /\ level[benchmark!Selector(j)] = Capacity
    BY RacersDiffer, TreeFits
       DEF benchmark!Init, benchmark!Tree!Init, benchmark!Tree!Threads, RaceSetters, RaceSelectors
  <2> QED
    BY <2>1 DEF benchmark!Init, benchmark!Tree!Init
<1>3. opsPerThread \in Nat /\ Finished = 2 * opsPerThread
  BY RacersAreFinite
<1>4. \A j \in Racers : /\ Entered[j] = 0 /\ Selected[j] = 0
                        /\ Counted[j] = 0 /\ Promised[j] = 0
  <2>1. \A j \in Racers : Entered[j] = 0 /\ Selected[j] = 0
    BY <1>1, <1>3 DEF Entered, Selected
  <2> QED
    BY <1>2, <2>1 DEF Counted, Promised
<1>5. Lead(Entered, Selected) = 0 /\ Lead(Counted, Promised) = 0
  BY <1>4, NoLead
<1>6. Cardinality(signal) = 0
  BY <1>2, FS_EmptySet
<1>7. treeProofs!RootContent = 0
  BY RaceTypes, treeProofs!RootInit, SameInit, TreeIsShaped, TreeFits
     DEF benchmark!Init, RaceSetters, RaceSelectors, RaceIndices
<1>8. \A j \in Racers : RacerInv(j) /\ RangeInv(j)
  BY <1>1, <1>2, <1>3, <1>4 DEF RacerInv, RangeInv
<1>9. TotalsInv
  <2>1. RacersAre(0 .. Finished + 1) = {}
    BY <1>1, <1>3 DEF RacersAre
  <2> QED
    BY <1>1, <2>1, FS_EmptySet DEF TotalsInv
<1>10. LoopsOK
  BY DEF LoopsOK, benchmark!Init, Racers
<1> QED
  BY <1>5, <1>6, <1>7, <1>8, <1>9, <1>10 DEF BenchInv

(* Steps that leave the tree and the loops alone. *)
LEMMA LoopsStay ==
  ASSUME BenchInv,
         UNCHANGED <<signal, counters, level, climbs, nextOp, localTotalSelected>>
  PROVE  /\ LoopsOK' /\ \A j \in Racers : RacerInv(j)' /\ RangeInv(j)'
         /\ Cardinality(signal)' = Lead(Entered, Selected)'
         /\ treeProofs!RootContent' = Lead(Counted, Promised)'
<1>1. \A j \in Racers : /\ Entered'[j] = Entered[j] /\ Selected'[j] = Selected[j]
                        /\ Counted'[j] = Counted[j] /\ Promised'[j] = Promised[j]
  BY DEF Entered, Selected, Counted, Promised
<1>2. \A j \in Racers : RacerInv(j)' /\ RangeInv(j)'
  BY <1>1 DEF BenchInv, RacerInv, RangeInv
<1>3. treeProofs!RootContent' = treeProofs!RootContent
  BY treeProofs!RootStays, TreeIsShaped, TreeFits DEF RaceSetters, RaceSelectors, RaceIndices
<1>4. PICK e, e2, s, s2, c, c2, p, p2 :
        /\ e = Entered /\ e2 = Entered' /\ s = Selected /\ s2 = Selected'
        /\ c = Counted /\ c2 = Counted' /\ p = Promised /\ p2 = Promised'
  OBVIOUS
<1>5. Lead(e2, s2) = Lead(e, s) /\ Lead(c2, p2) = Lead(c, p)
  BY <1>1, <1>4, LeadStays
<1> QED
  BY <1>2, <1>3, <1>4, <1>5 DEF BenchInv, LoopsOK

(* Steps of a thread between its beginning and its end, which leave the    *)
(* barrier alone.                                                          *)
LEMMA ActiveStay ==
  ASSUME NEW j \in Racers, nextOp[j] \in 0 .. Finished + 1, nextOp'[j] \in 0 .. Finished + 1,
         \A m \in Racers \ {j} : nextOp'[m] = nextOp[m]
  PROVE  RacersAre(0 .. Finished + 1)' = RacersAre(0 .. Finished + 1)
<1>1. \A m \in Racers : m \in RacersAre(0 .. Finished + 1)' <=> m \in RacersAre(0 .. Finished + 1)
  BY DEF RacersAre
<1> QED
  BY <1>1 DEF RacersAre

(* The loops of one thread move on. *)
LEMMA RacerMoves ==
  ASSUME BenchInv, NEW j \in Racers, benchmark!Step(j)
  PROVE  /\ nextOp[j] \in Int /\ nextOp'[j] = nextOp[j] + 1
         /\ nextOp' \in [Racers -> Int]
         /\ \A m \in Racers \ {j} : nextOp'[m] = nextOp[m]
  BY DEF benchmark!Step, BenchInv, LoopsOK

(* Signals that are taken, and loops that move on, leave the ranges sound. *)
LEMMA RangesStay ==
  ASSUME BenchInv, signal' \subseteq signal,
         \A m \in Racers : nextOp'[m] \in Int /\ nextOp'[m] >= nextOp[m]
  PROVE  \A m \in Racers : RangeInv(m)'
<1> SUFFICES ASSUME NEW m \in Racers PROVE RangeInv(m)'
  OBVIOUS
<1>1. RangeInv(m) /\ nextOp[m] \in Int /\ nextOp'[m] \in Int /\ nextOp'[m] >= nextOp[m]
  BY DEF BenchInv, LoopsOK
<1>2. \A k \in 0 .. opsPerThread - 1 : benchmark!Base(m) + k \in signal' => k < nextOp'[m]
  BY <1>1, RacersAreFinite DEF RangeInv
<1>3. benchmark!Base(m)' = benchmark!Base(m)
  BY DEF benchmark!Base
<1> QED
  BY <1>2, <1>3 DEF RangeInv

(* The accounts of a thread, in terms of where its loops have come to. *)
LEMMA Account ==
  \A j \in Racers :
    /\ Entered[j] = IF nextOp[j] <= 0 THEN 0
                    ELSE IF nextOp[j] <= opsPerThread THEN nextOp[j] ELSE opsPerThread
    /\ Selected[j] = IF nextOp[j] <= opsPerThread THEN 0
                     ELSE IF nextOp[j] <= Finished THEN nextOp[j] - opsPerThread
                     ELSE opsPerThread
    /\ Counted[j] = IF climbs[benchmark!Setter(j)] THEN Entered[j] - 1 ELSE Entered[j]
    /\ Promised[j] = IF level[benchmark!Selector(j)] = Capacity THEN Selected[j]
                     ELSE Selected[j] + 1
  BY DEF Entered, Selected, Counted, Promised

LEMMA AccountNext ==
  \A j \in Racers :
    /\ Entered'[j] = IF nextOp'[j] <= 0 THEN 0
                     ELSE IF nextOp'[j] <= opsPerThread THEN nextOp'[j] ELSE opsPerThread
    /\ Selected'[j] = IF nextOp'[j] <= opsPerThread THEN 0
                      ELSE IF nextOp'[j] <= Finished THEN nextOp'[j] - opsPerThread
                      ELSE opsPerThread
    /\ Counted'[j] = IF climbs'[benchmark!Setter(j)] THEN Entered'[j] - 1 ELSE Entered'[j]
    /\ Promised'[j] = IF level'[benchmark!Selector(j)] = Capacity THEN Selected'[j]
                      ELSE Selected'[j] + 1
  BY DEF Entered, Selected, Counted, Promised, Finished, benchmark!Finished,
     benchmark!Setter, benchmark!Selector

LEMMA TotalsStay ==
  ASSUME BenchInv, NEW j \in Racers, UNCHANGED <<invalid, benchmark!mainVars>>,
         nextOp[j] \in 0 .. Finished, nextOp'[j] \in 0 .. Finished,
         \A m \in Racers \ {j} : nextOp'[m] = nextOp[m]
  PROVE  TotalsInv'
<1>1. Finished \in Nat
  BY RacersAreFinite
<1>2. RacersAre(0 .. Finished + 1)' = RacersAre(0 .. Finished + 1)
  BY <1>1, ActiveStay
<1>3. b_main # "reported"
  BY <1>1 DEF BenchInv, TotalsInv
<1>4. b_main # "created" => \A m \in Racers : nextOp'[m] >= 0
  BY <1>1 DEF BenchInv, TotalsInv
<1> QED
  BY <1>2, <1>3, <1>4 DEF BenchInv, TotalsInv, benchmark!mainVars

LEMMA SetKeeps ==
  ASSUME BenchInv, treeProofs!TreeInv, treeProofs!TreeInv', NEW j \in Racers, benchmark!Set(j)
  PROVE  BenchInv'
<1> DEFINE s == benchmark!Setter(j)
           t == benchmark!Selector(j)
           x == benchmark!Base(j) + nextOp[j]
<1>1. /\ opsPerThread \in Nat /\ Finished = 2 * opsPerThread
      /\ nextOp[j] \in 0 .. opsPerThread - 1
  BY RacersAreFinite DEF benchmark!Set
<1>2. /\ nextOp'[j] = nextOp[j] + 1 /\ nextOp' \in [Racers -> Int]
      /\ \A m \in Racers \ {j} : nextOp'[m] = nextOp[m]
      /\ UNCHANGED <<localTotalSelected, invalid, benchmark!mainVars>>
  BY RacerMoves DEF benchmark!Set
<1>3. RangeInv(j) /\ RacerInv(j)
  BY DEF BenchInv
<1>4. x \in RaceIndices /\ x \notin signal
  BY <1>1, <1>3 DEF RaceIndices, RangeInv, Racers
<1>5. benchmark!Tree!SetLeaf(s, x) /\ ~climbs[s]
  BY DEF benchmark!Set, benchmark!Tree!SetLeaf
<1>6. /\ treeProofs!RootContent' = treeProofs!RootContent + IF Capacity = 64 THEN 1 ELSE 0
      /\ (climbs'[s] <=> Capacity # 64)
      /\ \A m \in Racers \ {j} : climbs'[benchmark!Setter(m)] = climbs[benchmark!Setter(m)]
      /\ \A m \in Racers : level'[benchmark!Selector(m)] = level[benchmark!Selector(m)]
      /\ signal' = signal \cup {x} /\ Cardinality(signal)' = Cardinality(signal) + 1
  BY <1>4, <1>5, AfterSet
<1>7. level[t] = Capacity /\ level'[t] = Capacity
  BY <1>1, <1>3, <1>6 DEF RacerInv
<1>8. /\ Entered[j] = nextOp[j] /\ Selected[j] = 0
      /\ Counted[j] = nextOp[j] /\ Promised[j] = 0
  BY <1>1, <1>5, <1>7, Account
<1>9. /\ Entered'[j] = nextOp[j] + 1 /\ Selected'[j] = 0
      /\ Counted'[j] = (IF Capacity = 64 THEN nextOp[j] + 1 ELSE nextOp[j])
      /\ Promised'[j] = 0
  BY <1>1, <1>2, <1>6, <1>7, AccountNext
<1>10. RacerInv(j)'
  <2>1. nextOp'[j] \in 1 .. opsPerThread
    BY <1>1, <1>2
  <2>2. localTotalSelected'[j] = Selected'[j]
    BY <1>2, <1>3, <1>8, <1>9 DEF RacerInv
  <2> QED
    BY <1>1, <1>7, <2>1, <2>2 DEF RacerInv, benchmark!Selector, benchmark!Setter, Finished, benchmark!Finished
<1>11. /\ \A m \in Racers : RacerInv(m)'
       /\ Cardinality(signal)' = Lead(Entered, Selected)'
       /\ treeProofs!RootContent' = Lead(Counted, Promised)'
  <2>1. OthersStay(j)
    BY <1>2, <1>6 DEF OthersStay
  <2>2. OneAhead(Entered[j], Entered'[j], Selected[j], Selected'[j])
    BY <1>8, <1>9 DEF OneAhead
  <2>3. OneAhead(Counted[j], Counted'[j], Promised[j], Promised'[j])
    BY <1>8, <1>9 DEF OneAhead
  <2>4. Cardinality(signal)' = Cardinality(signal) + (Entered'[j] - Entered[j])
                                                   - (Selected'[j] - Selected[j])
    BY <1>1, <1>6, <1>8, <1>9, RaceTypes
  <2>5. treeProofs!RootContent' = treeProofs!RootContent + (Counted'[j] - Counted[j])
                                                         - (Promised'[j] - Promised[j])
    BY <1>1, <1>6, <1>8, <1>9, RaceTypes
  <2> QED
    BY <1>10, <2>1, <2>2, <2>3, <2>4, <2>5, AccountsFollow
<1>12. \A m \in Racers : RangeInv(m)'
  <2> SUFFICES ASSUME NEW m \in Racers, NEW l \in 0 .. opsPerThread - 1,
                      benchmark!Base(m) + l \in signal'
               PROVE  l < nextOp'[m]
    BY DEF RangeInv, benchmark!Base
  <2>1. CASE benchmark!Base(m) + l \in signal
    <3>1. l < nextOp[m] /\ nextOp[m] \in Int
      BY <2>1 DEF BenchInv, RangeInv, LoopsOK
    <3> QED
      BY <1>1, <1>2, <3>1
  <2>2. CASE benchmark!Base(m) + l = x
    <3>1. m = j /\ l = nextOp[j]
      BY <1>1, <2>2, RangesAreApart
    <3> QED
      BY <1>1, <1>2, <3>1
  <2> QED
    BY <1>6, <2>1, <2>2
<1>13. TotalsInv'
  BY <1>1, <1>2, TotalsStay
<1>14. LoopsOK'
  BY <1>2 DEF BenchInv, LoopsOK
<1> QED
  BY <1>11, <1>12, <1>13, <1>14 DEF BenchInv

LEMMA ClimbKeeps ==
  ASSUME BenchInv, treeProofs!TreeInv, treeProofs!TreeInv', NEW j \in Racers, benchmark!Climb(j)
  PROVE  BenchInv'
<1> DEFINE s == benchmark!Setter(j)
           t == benchmark!Selector(j)
<1>1. /\ opsPerThread \in Nat /\ Finished = 2 * opsPerThread
      /\ UNCHANGED <<nextOp, localTotalSelected, invalid, benchmark!mainVars>>
  BY RacersAreFinite DEF benchmark!Climb, benchmark!loopVars
<1>2. /\ treeProofs!RootContent' = treeProofs!RootContent + IF climbs'[s] THEN 0 ELSE 1
      /\ climbs[s] /\ climbs'[s] \in BOOLEAN
      /\ \A m \in Racers \ {j} : climbs'[benchmark!Setter(m)] = climbs[benchmark!Setter(m)]
      /\ \A m \in Racers : level'[benchmark!Selector(m)] = level[benchmark!Selector(m)]
      /\ UNCHANGED signal
  BY AfterCount DEF benchmark!Climb
<1>3. RacerInv(j) /\ nextOp[j] \in 1 .. opsPerThread
  BY <1>2 DEF BenchInv, RacerInv
<1>4. level[t] = Capacity /\ level'[t] = Capacity
  BY <1>2, <1>3 DEF RacerInv
<1>5. /\ Entered[j] = nextOp[j] /\ Selected[j] = 0
      /\ Counted[j] = nextOp[j] - 1 /\ Promised[j] = 0
  BY <1>1, <1>2, <1>3, <1>4, Account
<1>6. /\ Entered'[j] = nextOp[j] /\ Selected'[j] = 0
      /\ Counted'[j] = (IF climbs'[s] THEN nextOp[j] - 1 ELSE nextOp[j])
      /\ Promised'[j] = 0
  BY <1>1, <1>2, <1>3, <1>4, AccountNext
<1>7. RacerInv(j)'
  <2>1. localTotalSelected'[j] = Selected'[j]
    BY <1>1, <1>3, <1>5, <1>6 DEF RacerInv
  <2>2. nextOp'[j] \in 1 .. opsPerThread /\ nextOp'[j] \in -1 .. Finished + 2
    BY <1>1, <1>3
  <2> QED
    BY <1>4, <2>1, <2>2 DEF RacerInv, benchmark!Selector, benchmark!Setter, Finished, benchmark!Finished
<1>8. /\ \A m \in Racers : RacerInv(m)'
      /\ Cardinality(signal)' = Lead(Entered, Selected)'
      /\ treeProofs!RootContent' = Lead(Counted, Promised)'
  <2>1. OthersStay(j)
    BY <1>1, <1>2 DEF OthersStay
  <2>2. OneAhead(Entered[j], Entered'[j], Selected[j], Selected'[j])
    BY <1>5, <1>6 DEF OneAhead
  <2>3. OneAhead(Counted[j], Counted'[j], Promised[j], Promised'[j])
    BY <1>3, <1>5, <1>6 DEF OneAhead
  <2>4. Cardinality(signal)' = Cardinality(signal) + (Entered'[j] - Entered[j])
                                                   - (Selected'[j] - Selected[j])
    BY <1>2, <1>3, <1>5, <1>6, RaceTypes
  <2>5. treeProofs!RootContent' = treeProofs!RootContent + (Counted'[j] - Counted[j])
                                                         - (Promised'[j] - Promised[j])
    BY <1>2, <1>3, <1>5, <1>6, RaceTypes
  <2> QED
    BY <1>7, <2>1, <2>2, <2>3, <2>4, <2>5, AccountsFollow
<1>9. \A m \in Racers : RangeInv(m)'
  BY <1>1, <1>2, RangesStay DEF BenchInv, LoopsOK
<1>10. TotalsInv' /\ LoopsOK'
  BY <1>1 DEF BenchInv, TotalsInv, LoopsOK, RacersAre, benchmark!mainVars
<1> QED
  BY <1>8, <1>9, <1>10 DEF BenchInv

(* A thread that selects has set all its signals, and has not yet taken as *)
(* many.                                                                   *)
LEMMA Selecting ==
  ASSUME BenchInv, NEW j \in Racers, benchmark!Selects(j)
  PROVE  /\ opsPerThread \in Nat \ {0} /\ Finished = 2 * opsPerThread
         /\ nextOp[j] \in opsPerThread .. Finished - 1 /\ ~climbs[benchmark!Setter(j)]
         /\ Entered[j] = opsPerThread /\ Selected[j] = nextOp[j] - opsPerThread
         /\ Counted[j] = opsPerThread
         /\ Promised[j] = IF level[benchmark!Selector(j)] = Capacity THEN Selected[j]
                          ELSE Selected[j] + 1
         /\ localTotalSelected[j] = Selected[j]
<1>1. /\ opsPerThread \in Nat /\ Finished = 2 * opsPerThread
      /\ nextOp[j] \in opsPerThread .. Finished - 1 /\ ~climbs[benchmark!Setter(j)]
  BY RacersAreFinite DEF benchmark!Selects, Finished
<1>2. opsPerThread # 0
  BY <1>1
<1>3. Entered[j] = opsPerThread /\ Selected[j] = nextOp[j] - opsPerThread
  BY <1>1, <1>2, Account
<1> QED
  BY <1>1, <1>2, <1>3, Account DEF BenchInv, RacerInv

(* While a thread has selected less than it has set, the tree is not empty. *)
LEMMA NeverInvalid ==
  ASSUME BenchInv, treeProofs!TreeInv, NEW j \in Racers
  PROVE  ~benchmark!SelectInvalid(j)
<1> SUFFICES ASSUME benchmark!SelectInvalid(j) PROVE FALSE
  OBVIOUS
<1>1. /\ benchmark!Selects(j) /\ level[benchmark!Selector(j)] = Capacity
      /\ benchmark!Tree!empty
  BY DEF benchmark!SelectInvalid, benchmark!Tree!SelectNothing
<1>2. treeProofs!RootContent = 0
  BY <1>1, NothingAtRoot
<1>3. PICK c, p : c = Counted /\ p = Promised
  OBVIOUS
<1>4. p[j] \in 0 .. opsPerThread - 1 /\ c[j] \in Nat /\ p[j] < c[j]
  BY <1>1, <1>3, Selecting
<1>5. Lead(c, p) # 0
  BY <1>4, SomeLead
<1> QED
  BY <1>2, <1>3, <1>5 DEF BenchInv

LEMMA DescendKeeps ==
  ASSUME BenchInv, treeProofs!TreeInv, treeProofs!TreeInv', NEW j \in Racers, benchmark!Descend(j)
  PROVE  BenchInv'
<1> DEFINE s == benchmark!Setter(j)
           t == benchmark!Selector(j)
<1>1. benchmark!Selects(j) /\ UNCHANGED <<nextOp, localTotalSelected, invalid, benchmark!mainVars>>
  BY DEF benchmark!Descend, benchmark!loopVars
<1>2. /\ treeProofs!RootContent' = treeProofs!RootContent - IF level[t] = Capacity THEN 1 ELSE 0
      /\ level'[t] # Capacity
      /\ \A m \in Racers \ {j} : level'[benchmark!Selector(m)] = level[benchmark!Selector(m)]
      /\ UNCHANGED <<signal, climbs>>
  BY AfterTakeCount DEF benchmark!Descend
<1>3. /\ opsPerThread \in Nat \ {0} /\ Finished = 2 * opsPerThread
      /\ nextOp[j] \in opsPerThread .. Finished - 1 /\ ~climbs[s]
      /\ Entered[j] = opsPerThread /\ Selected[j] = nextOp[j] - opsPerThread
      /\ Counted[j] = opsPerThread
      /\ Promised[j] = IF level[t] = Capacity THEN Selected[j] ELSE Selected[j] + 1
      /\ localTotalSelected[j] = Selected[j]
  BY <1>1, Selecting
<1>4. /\ Entered'[j] = Entered[j] /\ Selected'[j] = Selected[j]
      /\ Counted'[j] = Counted[j] /\ Promised'[j] = Selected[j] + 1
  <2>1. Entered'[j] = Entered[j] /\ Selected'[j] = Selected[j]
    BY <1>1, Account, AccountNext
  <2> QED
    BY <1>1, <1>2, <1>3, <2>1, AccountNext
<1>5. RacerInv(j)'
  <2>1. localTotalSelected'[j] = Selected'[j] /\ nextOp'[j] \in -1 .. Finished + 2
    BY <1>1, <1>3, <1>4
  <2>2. nextOp'[j] \in opsPerThread .. Finished - 1 /\ ~climbs'[s]
    BY <1>1, <1>2, <1>3
  <2> QED
    BY <2>1, <2>2 DEF RacerInv, benchmark!Selector, benchmark!Setter, Finished, benchmark!Finished
<1>6. /\ \A m \in Racers : RacerInv(m)'
      /\ Cardinality(signal)' = Lead(Entered, Selected)'
      /\ treeProofs!RootContent' = Lead(Counted, Promised)'
  <2>1. OthersStay(j)
    BY <1>1, <1>2 DEF OthersStay
  <2>2. OneAhead(Entered[j], Entered'[j], Selected[j], Selected'[j])
    BY <1>4 DEF OneAhead
  <2>3. OneAhead(Counted[j], Counted'[j], Promised[j], Promised'[j])
    BY <1>3, <1>4 DEF OneAhead
  <2>4. Cardinality(signal)' = Cardinality(signal) + (Entered'[j] - Entered[j])
                                                   - (Selected'[j] - Selected[j])
    BY <1>2, <1>3, <1>4, RaceTypes
  <2>5. treeProofs!RootContent' = treeProofs!RootContent + (Counted'[j] - Counted[j])
                                                         - (Promised'[j] - Promised[j])
    BY <1>2, <1>3, <1>4, RaceTypes
  <2> QED
    BY <1>5, <2>1, <2>2, <2>3, <2>4, <2>5, AccountsFollow
<1>7. \A m \in Racers : RangeInv(m)'
  BY <1>1, <1>2, RangesStay DEF BenchInv, LoopsOK
<1>8. TotalsInv' /\ LoopsOK'
  BY <1>1 DEF BenchInv, TotalsInv, LoopsOK, RacersAre, benchmark!mainVars
<1> QED
  BY <1>6, <1>7, <1>8 DEF BenchInv

LEMMA SelectSignalKeeps ==
  ASSUME BenchInv, treeProofs!TreeInv, treeProofs!TreeInv', NEW j \in Racers,
         benchmark!SelectSignal(j)
  PROVE  BenchInv'
<1> DEFINE s == benchmark!Setter(j)
           t == benchmark!Selector(j)
<1>1. /\ benchmark!Selects(j) /\ UNCHANGED <<invalid, benchmark!mainVars>>
      /\ localTotalSelected' = [localTotalSelected EXCEPT ![j] = @ + 1]
      /\ localTotalSelected \in [Racers -> Int]
  BY DEF benchmark!SelectSignal, BenchInv, LoopsOK
<1>2. /\ nextOp'[j] = nextOp[j] + 1 /\ nextOp' \in [Racers -> Int]
      /\ \A m \in Racers \ {j} : nextOp'[m] = nextOp[m]
  BY RacerMoves DEF benchmark!SelectSignal
<1>3. /\ treeProofs!RootContent' = treeProofs!RootContent - IF level[t] = Capacity THEN 1 ELSE 0
      /\ level'[t] = Capacity
      /\ \A m \in Racers \ {j} : level'[benchmark!Selector(m)] = level[benchmark!Selector(m)]
      /\ UNCHANGED climbs /\ signal' \subseteq signal
      /\ Cardinality(signal)' = Cardinality(signal) - 1
  BY AfterTakeSignal DEF benchmark!SelectSignal
<1>4. /\ opsPerThread \in Nat \ {0} /\ Finished = 2 * opsPerThread
      /\ nextOp[j] \in opsPerThread .. Finished - 1 /\ ~climbs[s]
      /\ Entered[j] = opsPerThread /\ Selected[j] = nextOp[j] - opsPerThread
      /\ Counted[j] = opsPerThread
      /\ Promised[j] = IF level[t] = Capacity THEN Selected[j] ELSE Selected[j] + 1
      /\ localTotalSelected[j] = Selected[j]
  BY <1>1, Selecting
<1>5. /\ Entered'[j] = Entered[j] /\ Selected'[j] = Selected[j] + 1
      /\ Counted'[j] = Counted[j] /\ Promised'[j] = Selected[j] + 1
  <2>1. Entered'[j] = Entered[j] /\ Selected'[j] = Selected[j] + 1
    BY <1>2, <1>4, AccountNext
  <2> QED
    BY <1>3, <1>4, <2>1, AccountNext
<1>6. RacerInv(j)'
  <2>1. localTotalSelected'[j] = Selected'[j] /\ nextOp'[j] \in -1 .. Finished + 2
    BY <1>1, <1>2, <1>4, <1>5
  <2>2. ~climbs'[s]
    BY <1>3, <1>4
  <2> QED
    BY <1>3, <2>1, <2>2 DEF RacerInv, benchmark!Selector, benchmark!Setter, Finished, benchmark!Finished
<1>7. /\ \A m \in Racers : RacerInv(m)'
      /\ Cardinality(signal)' = Lead(Entered, Selected)'
      /\ treeProofs!RootContent' = Lead(Counted, Promised)'
  <2>1. OthersStay(j)
    BY <1>1, <1>2, <1>3 DEF OthersStay
  <2>2. OneAhead(Entered[j], Entered'[j], Selected[j], Selected'[j])
    BY <1>5 DEF OneAhead
  <2>3. OneAhead(Counted[j], Counted'[j], Promised[j], Promised'[j])
    BY <1>4, <1>5 DEF OneAhead
  <2>4. Cardinality(signal)' = Cardinality(signal) + (Entered'[j] - Entered[j])
                                                   - (Selected'[j] - Selected[j])
    BY <1>3, <1>4, <1>5, RaceTypes
  <2>5. treeProofs!RootContent' = treeProofs!RootContent + (Counted'[j] - Counted[j])
                                                         - (Promised'[j] - Promised[j])
    BY <1>3, <1>4, <1>5, RaceTypes
  <2> QED
    BY <1>6, <2>1, <2>2, <2>3, <2>4, <2>5, AccountsFollow
<1>8. \A m \in Racers : RangeInv(m)'
  <2>1. \A m \in Racers : nextOp'[m] \in Int /\ nextOp'[m] >= nextOp[m]
    BY <1>2, <1>4
  <2> QED
    BY <1>3, <2>1, RangesStay
<1>9. TotalsInv'
  BY <1>1, <1>2, <1>4, TotalsStay
<1>10. LoopsOK'
  <2>1. localTotalSelected' \in [Racers -> Int]
    BY <1>1
  <2> QED
    BY <1>2, <2>1 DEF LoopsOK
<1> QED
  BY <1>7, <1>8, <1>9, <1>10 DEF BenchInv

(* A thread that begins, adds its totals or ends is in neither loop. *)
LEMMA OutsideLoops ==
  ASSUME BenchInv, NEW j \in Racers, benchmark!Step(j),
         nextOp[j] \in {-1, Finished, Finished + 1},
         UNCHANGED <<benchmark!treeVars, localTotalSelected>>
  PROVE  /\ LoopsOK' /\ \A m \in Racers : RacerInv(m)' /\ RangeInv(m)'
         /\ Cardinality(signal)' = Lead(Entered, Selected)'
         /\ treeProofs!RootContent' = Lead(Counted, Promised)'
<1> DEFINE s == benchmark!Setter(j)
           t == benchmark!Selector(j)
<1>1. opsPerThread \in Nat /\ Finished = 2 * opsPerThread
  BY RacersAreFinite
<1>2. /\ nextOp'[j] = nextOp[j] + 1 /\ nextOp' \in [Racers -> Int]
      /\ \A m \in Racers \ {j} : nextOp'[m] = nextOp[m]
  BY RacerMoves
<1>3. UNCHANGED <<signal, counters, level, climbs, localTotalSelected>>
  BY DEF benchmark!treeVars
<1>4. RacerInv(j) /\ ~climbs[s] /\ level[t] = Capacity
  BY <1>1 DEF BenchInv, RacerInv
<1>5. Entered'[j] = Entered[j] /\ Selected'[j] = Selected[j]
  <2>1. Entered'[j] = Entered[j]
    BY <1>1, <1>2, Account, AccountNext
  <2>2. Selected'[j] = Selected[j]
    BY <1>1, <1>2, Account, AccountNext
  <2> QED
    BY <2>1, <2>2
<1>6. Counted'[j] = Counted[j] /\ Promised'[j] = Promised[j]
  BY <1>3, <1>5, Account, AccountNext
<1>7. RacerInv(j)'
  <2>1. localTotalSelected'[j] = Selected'[j]
    BY <1>3, <1>4, <1>5 DEF RacerInv
  <2>2. nextOp'[j] \in -1 .. Finished + 2
    BY <1>1, <1>2
  <2> QED
    BY <1>3, <1>4, <2>1, <2>2 DEF RacerInv, benchmark!Selector, benchmark!Setter, Finished, benchmark!Finished
<1>8. treeProofs!RootContent' = treeProofs!RootContent /\ Cardinality(signal)' = Cardinality(signal)
  BY <1>3, treeProofs!RootStays, TreeIsShaped, TreeFits DEF RaceSetters, RaceSelectors, RaceIndices
<1>9. Bounded(j) /\ Lead(Entered, Selected) \in Nat /\ Lead(Counted, Promised) \in Nat
  BY <1>4, RacerBounds, AheadIsFinite
<1>10. /\ \A m \in Racers : RacerInv(m)'
       /\ Cardinality(signal)' = Lead(Entered, Selected)'
       /\ treeProofs!RootContent' = Lead(Counted, Promised)'
  <2>1. OthersStay(j)
    BY <1>2, <1>3 DEF OthersStay
  <2>2. OneAhead(Entered[j], Entered'[j], Selected[j], Selected'[j])
    BY <1>5 DEF OneAhead
  <2>3. OneAhead(Counted[j], Counted'[j], Promised[j], Promised'[j])
    BY <1>6 DEF OneAhead
  <2>4. Cardinality(signal)' = Cardinality(signal) + (Entered'[j] - Entered[j])
                                                   - (Selected'[j] - Selected[j])
    BY <1>5, <1>8, <1>9 DEF BenchInv, Bounded
  <2>5. treeProofs!RootContent' = treeProofs!RootContent + (Counted'[j] - Counted[j])
                                                         - (Promised'[j] - Promised[j])
    BY <1>6, <1>8, <1>9 DEF BenchInv, Bounded
  <2> QED
    BY <1>7, <2>1, <2>2, <2>3, <2>4, <2>5, AccountsFollow
<1>11. \A m \in Racers : RangeInv(m)'
  <2>1. \A m \in Racers : nextOp'[m] \in Int /\ nextOp'[m] >= nextOp[m]
    BY <1>1, <1>2 DEF BenchInv, LoopsOK
  <2> QED
    BY <1>3, <2>1, RangesStay
<1> QED
  BY <1>2, <1>3, <1>10, <1>11 DEF BenchInv, LoopsOK

LEMMA ActiveIsFinite ==
  /\ IsFiniteSet(RacersAre(0 .. Finished + 1))
  /\ RacersAre(0 .. Finished + 1) \subseteq Racers
<1>1. RacersAre(0 .. Finished + 1) \subseteq Racers
  BY DEF RacersAre
<1> QED
  BY <1>1, RacersAreFinite, FS_Subset

LEMMA BeginKeeps ==
  ASSUME BenchInv, NEW j \in Racers, benchmark!Begin(j)
  PROVE  BenchInv'
<1>1. /\ nextOp[j] = -1 /\ benchmark!Step(j) /\ activeThreadCount' = activeThreadCount + 1
      /\ UNCHANGED <<benchmark!treeVars, localTotalSelected, invalid, totalSet, totalSelected,
                     b_main>>
  BY DEF benchmark!Begin
<1>2. /\ LoopsOK' /\ \A m \in Racers : RacerInv(m)' /\ RangeInv(m)'
      /\ Cardinality(signal)' = Lead(Entered, Selected)'
      /\ treeProofs!RootContent' = Lead(Counted, Promised)'
  BY <1>1, OutsideLoops
<1>3. /\ nextOp'[j] = 0 /\ \A m \in Racers \ {j} : nextOp'[m] = nextOp[m]
  BY <1>1, RacerMoves
<1>4. TotalsInv'
  <2> DEFINE A == RacersAre(0 .. Finished + 1)
  <2>1. A' = A \cup {j} /\ j \notin A
    <3>1. Finished \in Nat
      BY RacersAreFinite
    <3>2. j \notin A
      BY <1>1 DEF RacersAre
    <3>3. \A m \in Racers : m \in A' <=> m \in A \/ m = j
      BY <1>3, <3>1 DEF RacersAre
    <3>4. A' \subseteq Racers
      BY DEF RacersAre
    <3>5. A \subseteq Racers
      BY DEF RacersAre
    <3> QED
      BY <3>2, <3>3, <3>4, <3>5
  <2> HIDE DEF A
  <2>2. IsFiniteSet(A) /\ activeThreadCount = Cardinality(A)
    BY ActiveIsFinite DEF A, BenchInv, TotalsInv
  <2>3. Cardinality(A') = Cardinality(A) + 1
    BY <2>1, <2>2, FS_AddElement
  <2>4. activeThreadCount' = Cardinality(A')
    BY <1>1, <2>2, <2>3
  <2>5. b_main = "created"
    <3>1. ~(nextOp[j] >= 0)
      BY <1>1
    <3>2. Finished \in Nat /\ nextOp[j] # Finished + 2
      BY <1>1, RacersAreFinite
    <3> QED
      BY <3>1, <3>2 DEF BenchInv, TotalsInv
  <2> QED
    BY <1>1, <2>4, <2>5 DEF BenchInv, TotalsInv, A
<1> QED
  BY <1>2, <1>4 DEF BenchInv

LEMMA AddTotalsKeeps ==
  ASSUME BenchInv, NEW j \in Racers, benchmark!AddTotals(j)
  PROVE  BenchInv'
<1>1. /\ nextOp[j] = Finished /\ benchmark!Step(j)
      /\ totalSet' = totalSet + opsPerThread
      /\ totalSelected' = totalSelected + localTotalSelected[j]
      /\ UNCHANGED <<benchmark!treeVars, localTotalSelected, invalid, activeThreadCount, b_main>>
  BY DEF benchmark!AddTotals, Finished
<1>2. /\ LoopsOK' /\ \A m \in Racers : RacerInv(m)' /\ RangeInv(m)'
      /\ Cardinality(signal)' = Lead(Entered, Selected)'
      /\ treeProofs!RootContent' = Lead(Counted, Promised)'
  BY <1>1, OutsideLoops
<1>3. /\ nextOp'[j] = Finished + 1 /\ \A m \in Racers \ {j} : nextOp'[m] = nextOp[m]
  BY <1>1, RacerMoves
<1>4. opsPerThread \in Nat /\ Finished = 2 * opsPerThread
  BY RacersAreFinite
<1>5. TotalsInv'
  <2>1. RacersAre(0 .. Finished + 1)' = RacersAre(0 .. Finished + 1)
    BY <1>1, <1>3, <1>4, ActiveStay
  <2>2. localTotalSelected[j] = opsPerThread
    BY <1>1, <1>4, Account DEF BenchInv, RacerInv
  <2>3. totalSet' \in Nat /\ totalSelected' = totalSet'
    BY <1>1, <1>4, <2>2 DEF BenchInv, TotalsInv
  <2>4. b_main # "reported"
    BY <1>1, <1>4 DEF BenchInv, TotalsInv
  <2>5. b_main # "created" => \A m \in Racers : nextOp'[m] >= 0
    BY <1>3, <1>4 DEF BenchInv, TotalsInv
  <2> QED
    BY <1>1, <2>1, <2>3, <2>4, <2>5 DEF BenchInv, TotalsInv
<1> QED
  BY <1>2, <1>5 DEF BenchInv

LEMMA EndKeeps ==
  ASSUME BenchInv, NEW j \in Racers, benchmark!End(j)
  PROVE  BenchInv'
<1>1. /\ nextOp[j] = Finished + 1 /\ benchmark!Step(j)
      /\ activeThreadCount' = activeThreadCount - 1
      /\ UNCHANGED <<benchmark!treeVars, localTotalSelected, invalid, totalSet, totalSelected,
                     b_main>>
  BY DEF benchmark!End, Finished
<1>2. /\ LoopsOK' /\ \A m \in Racers : RacerInv(m)' /\ RangeInv(m)'
      /\ Cardinality(signal)' = Lead(Entered, Selected)'
      /\ treeProofs!RootContent' = Lead(Counted, Promised)'
  BY <1>1, OutsideLoops
<1>3. opsPerThread \in Nat /\ Finished = 2 * opsPerThread
  BY RacersAreFinite
<1>4. /\ nextOp'[j] = Finished + 2 /\ \A m \in Racers \ {j} : nextOp'[m] = nextOp[m]
  BY <1>1, <1>3, RacerMoves
<1>5. TotalsInv'
  <2> DEFINE A == RacersAre(0 .. Finished + 1)
  <2>1. A' = A \ {j} /\ j \in A
    <3>1. j \in A
      BY <1>1, <1>3 DEF RacersAre
    <3>2. \A m \in Racers : m \in A' <=> m \in A /\ m # j
      BY <1>3, <1>4 DEF RacersAre
    <3>3. A' \subseteq Racers
      BY DEF RacersAre
    <3>4. A \subseteq Racers
      BY DEF RacersAre
    <3> QED
      BY <3>1, <3>2, <3>3, <3>4
  <2> HIDE DEF A
  <2>2. IsFiniteSet(A) /\ activeThreadCount = Cardinality(A)
    BY ActiveIsFinite DEF A, BenchInv, TotalsInv
  <2>3. Cardinality(A') = Cardinality(A) - 1
    BY <2>1, <2>2, FS_RemoveElement
  <2>4. activeThreadCount' = Cardinality(A')
    BY <1>1, <2>2, <2>3
  <2>5. b_main # "reported"
    BY <1>1, <1>3 DEF BenchInv, TotalsInv
  <2>6. b_main # "created" => \A m \in Racers : nextOp'[m] >= 0
    BY <1>3, <1>4 DEF BenchInv, TotalsInv
  <2> QED
    BY <1>1, <2>4, <2>5, <2>6 DEF BenchInv, TotalsInv, A
<1> QED
  BY <1>2, <1>5 DEF BenchInv

(* The barrier: the main thread starts the test when all threads have      *)
(* begun, and reports when all have ended.                                 *)
LEMMA MainKeeps ==
  ASSUME BenchInv, benchmark!StartTest \/ benchmark!Report
  PROVE  BenchInv'
<1>1. UNCHANGED <<benchmark!treeVars, benchmark!loopVars, activeThreadCount, totalSet,
                  totalSelected>>
  BY DEF benchmark!StartTest, benchmark!Report
<1>2. /\ LoopsOK' /\ \A j \in Racers : RacerInv(j)' /\ RangeInv(j)'
      /\ Cardinality(signal)' = Lead(Entered, Selected)'
      /\ treeProofs!RootContent' = Lead(Counted, Promised)'
  BY <1>1, LoopsStay DEF benchmark!treeVars, benchmark!loopVars
<1>3. RacersAre(0 .. Finished + 1)' = RacersAre(0 .. Finished + 1)
  BY <1>1 DEF RacersAre, benchmark!loopVars
<1>4. Finished \in Nat /\ \A j \in Racers : nextOp[j] \in -1 .. Finished + 2
  BY RacersAreFinite DEF BenchInv, RacerInv
<1>5. CASE benchmark!StartTest
  <2>1. b_main' = "started" /\ activeThreadCount = num_threads
    BY <1>5 DEF benchmark!StartTest
  <2>2. RacersAre(0 .. Finished + 1) = Racers
    BY <2>1, ActiveIsFinite, RacersAreFinite, FS_Subset DEF BenchInv, TotalsInv
  <2>3. \A j \in Racers : nextOp[j] \in 0 .. Finished + 1
    BY <2>2 DEF RacersAre
  <2>4. \A j \in Racers : nextOp'[j] >= 0
    BY <1>1, <1>4, <2>3 DEF benchmark!loopVars
  <2> QED
    BY <1>1, <1>2, <1>3, <2>1, <2>4 DEF BenchInv, TotalsInv, benchmark!loopVars
<1>6. CASE benchmark!Report
  <2>1. b_main = "started" /\ b_main' = "reported" /\ activeThreadCount = 0
    BY <1>6 DEF benchmark!Report
  <2>2. RacersAre(0 .. Finished + 1) = {}
    BY <2>1, ActiveIsFinite, FS_EmptySet DEF BenchInv, TotalsInv
  <2>3. \A j \in Racers : nextOp[j] \notin 0 .. Finished + 1 /\ nextOp[j] >= 0
    BY <2>1, <2>2 DEF RacersAre, BenchInv, TotalsInv
  <2>4. \A j \in Racers : nextOp'[j] = Finished + 2
    BY <1>1, <1>4, <2>3 DEF benchmark!loopVars
  <2>5. \A j \in Racers : nextOp'[j] >= 0
    BY <1>4, <2>4
  <2> QED
    BY <1>1, <1>2, <1>3, <2>1, <2>4, <2>5 DEF BenchInv, TotalsInv, benchmark!loopVars
<1> QED
  BY <1>5, <1>6

LEMMA RaceKeeps ==
  ASSUME BenchInv, treeProofs!TreeInv, treeProofs!TreeInv', NEW j \in Racers, benchmark!Thread(j)
  PROVE  BenchInv'
<1>1. CASE benchmark!Begin(j) \/ benchmark!AddTotals(j) \/ benchmark!End(j)
  BY <1>1, BeginKeeps, AddTotalsKeeps, EndKeeps
<1>2. CASE benchmark!Set(j)
  BY <1>2, SetKeeps
<1>3. CASE benchmark!Climb(j)
  BY <1>3, ClimbKeeps
<1>4. CASE benchmark!Descend(j)
  BY <1>4, DescendKeeps
<1>5. CASE benchmark!SelectSignal(j)
  BY <1>5, SelectSignalKeeps
<1>6. CASE benchmark!SelectInvalid(j)
  BY <1>6, NeverInvalid
<1> QED
  BY <1>1, <1>2, <1>3, <1>4, <1>5, <1>6 DEF benchmark!Thread

LEMMA BenchInvNext ==
  BenchInv /\ treeProofs!TreeInv /\ treeProofs!TreeInv' /\ [Next]_vars => BenchInv'
<1> SUFFICES ASSUME BenchInv, treeProofs!TreeInv, treeProofs!TreeInv', [Next]_vars
             PROVE  BenchInv'
  OBVIOUS
<1>1. CASE UNCHANGED benchmark_vars
  <2>1. UNCHANGED <<signal, counters, level, climbs, nextOp, localTotalSelected, invalid,
                    activeThreadCount, totalSet, totalSelected, b_main>>
    BY <1>1 DEF benchmark_vars
  <2>2. TotalsInv'
    BY <2>1 DEF BenchInv, TotalsInv, RacersAre
  <2> QED
    BY <2>1, <2>2, LoopsStay DEF BenchInv
<1>2. CASE benchmark!StartTest \/ benchmark!Report
  BY <1>2, MainKeeps
<1>3. CASE \E j \in Racers : benchmark!Thread(j)
  BY <1>3, RaceKeeps
<1> QED
  BY <1>1, <1>2, <1>3 DEF Next, vars, InThisContract, InTasks, InIngress, benchmark!Next, Racers

(* The inductive invariant of signal_tree_benchmark, with that of its tree. *)
LEMMA BenchInvariant == FairSpec => [](BenchInv /\ treeProofs!TreeInv)
<1>1. Init /\ treeProofs!TreeInv => BenchInv
  BY RaceInit DEF Init
<1> QED
  BY <1>1, BenchInvNext, RaceTree, PTL DEF FairSpec

(* signal_tree_benchmark finds no thread that is told the tree is empty    *)
(* while it has selected less than it has set; and when main() reports,    *)
(* the totals agree and nothing is left in the tree, whatever the number   *)
(* of threads and the size of the tree.                                    *)
THEOREM TotalsAgree == FairSpec => []EveryoneGetsTheirShare
<1>1. BenchInv /\ treeProofs!TreeInv => EveryoneGetsTheirShare
  <2> SUFFICES ASSUME BenchInv, treeProofs!TreeInv, b_main = "reported"
               PROVE  totalSelected = totalSet /\ signal = {} /\ benchmark!Tree!empty
    BY DEF EveryoneGetsTheirShare, benchmark!EveryoneGetsTheirShare, BenchInv, TotalsInv
  <2>1. opsPerThread \in Nat /\ Finished = 2 * opsPerThread
    BY RacersAreFinite
  <2>2. \A j \in Racers : /\ nextOp[j] = Finished + 2
                          /\ ~climbs[benchmark!Setter(j)]
                          /\ level[benchmark!Selector(j)] = Capacity
    BY <2>1 DEF BenchInv, TotalsInv, RacerInv
  <2>3. \A j \in Racers : Entered[j] = opsPerThread /\ Selected[j] = opsPerThread
    BY <2>1, <2>2, Account
  <2>4. \A j \in Racers : Counted[j] = opsPerThread /\ Promised[j] = opsPerThread
    BY <2>2, <2>3, Account
  <2>5. Lead(Entered, Selected) = 0 /\ Lead(Counted, Promised) = 0
    BY <2>1, <2>3, <2>4, NoLead
  <2>6. Cardinality(signal) = 0 /\ treeProofs!RootContent = 0
    BY <2>5 DEF BenchInv
  <2> QED
    BY <2>6, RaceTypes, NothingAtRoot, FS_EmptySet DEF BenchInv, TotalsInv
<1> QED
  BY <1>1, BenchInvariant, PTL
=============================================================================
