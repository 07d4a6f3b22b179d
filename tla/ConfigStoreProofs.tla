-------------------------- MODULE ConfigStoreProofs ---------------------------
(***************************************************************************)
(* The configuration store for any bodies and any number of edits, uploads *)
(* and failures.  While nothing is spoilt at most one task is at work, and *)
(* every step of a load and of a save has its own assertion about RAM, the *)
(* document and the file.                                                  *)
(***************************************************************************)
EXTENDS ConfigStore, TLAPS

Label == {"idle", "read", "body", "timers", "hash", "save", "remove", "write", "check", "restart"}

\* The file, where there is one, is the configuration that was saved or uploaded last.
FileInv ==
  file # <<>> =>
    /\ file = <<Head(file)>> /\ Head(file) \in File
    /\ Head(file).body = kept.body /\ Head(file).timers = kept.timers
    /\ Head(file).version = Older => ~Head(file).timers

\* Until setup() is over only loop()'s task is at work; it loads into a cleared
\* configuration, and the hash is of what it has loaded.
BootInv ==
  /\ ~booted =>
       /\ at["upload"] = "idle" /\ at["loop"] \notin {"idle", "restart"}
       /\ at["loop"] \in {"read", "body", "timers"} => ~config.timers
       /\ at["loop"] \in {"body", "timers"} => file = <<doc["loop"]>>
       /\ at["loop"] = "hash" /\ file # <<>> => config.timers = Head(file).timers
       /\ at["loop"] \in {"save", "remove", "write", "check"} => hashOld = config
  /\ booted => at["loop"] \in {"idle", "save", "remove", "write", "restart"}

\* A task in the middle of a load or a save that nothing has disturbed.
Sound(t) ==
  /\ at[t] \in {"body", "timers"} => file = <<doc[t]>>
  /\ at[t] \in {"timers", "hash"} =>
       config.version = Head(file).version /\ config.body = Head(file).body
  /\ at[t] = "hash" /\ Head(file).version = Current => config.timers = Head(file).timers
  /\ at[t] \in {"save", "remove", "write"} => unseen \/ config = hashOld \/ (t = "loop" /\ restart)
  /\ at[t] \in {"remove", "write"} => doc[t] = config
  /\ at[t] = "check" => file = <<Image(config)>>
  /\ at[t] \notin {"remove", "write"} => file # <<>>

\* With both tasks idle, the file is the configuration the hash was made of.
Rested ==
  file # <<>> /\ (~unseen => file = <<Image(hashOld)>>)

SoundInv ==
  ~spoilt =>
    /\ \A t \in Task : at[t] # "idle" => Alone(t) /\ Sound(t)
    /\ (\A t \in Task : at[t] = "idle") => Rested

StoreInv == TypeOK /\ FileInv /\ BootInv /\ SoundInv

-----------------------------------------------------------------------------
(* Types.                                                                  *)

LEMMA Bodies == Default \in Body /\ Bare \in Body /\ Filled \in Body /\ Filled # Default /\ Filled # Bare
  BY BodyAssumption

\* A file that holds one configuration holds that one.
LEMMA OneHead ==
  ASSUME NEW f
  PROVE  Head(<<f>>) = f /\ <<f>> # <<>>
  OBVIOUS

LEMMA ConfigTypes ==
  /\ InitValue \in Config /\ Zero \in Config /\ File \subseteq Config
  /\ \A c \in Config : Image(c) \in File
  BY Bodies DEF InitValue, Zero, Config, File, Image

LEMMA FileRead ==
  ASSUME TypeOK, file # <<>>
  PROVE  Head(file) \in File /\ Head(file) \in Config /\ file = <<Head(file)>>
<1>1. PICK f \in File : file = <<f>>
  BY DEF TypeOK
<1> QED BY <1>1, OneHead, ConfigTypes

\* Where a task goes on is a place, and the idle one unless it is the loop's.
LEMMA AfterLabel ==
  ASSUME NEW t \in Task
  PROVE  /\ After(t) \in Label
         /\ After("upload") = "idle"
         /\ ~booted => After("loop") = "check"
         /\ booted => After("loop") \in {"idle", "restart"}
         /\ booted /\ restart => After("loop") = "restart"
  BY DEF After, Label, Task

\* A task that goes on is at its new place, the other one where it was.
LEMMA GotoEffect ==
  ASSUME TypeOK, NEW t \in Task, NEW l \in Label, Goto(t, l)
  PROVE  /\ at' \in [Task -> Label] /\ at'[t] = l
         /\ \A u \in Task : u # t => at'[u] = at[u]
  BY DEF TypeOK, Goto, Label

\* A document that is read or forgotten is a configuration.
LEMMA DocEffect ==
  ASSUME TypeOK, NEW t \in Task, NEW d \in Config, doc' = [doc EXCEPT ![t] = d]
  PROVE  doc' \in [Task -> Config] /\ doc'[t] = d /\ \A u \in Task : u # t => doc'[u] = doc[u]
  BY DEF TypeOK

LEMMA TypeUnfolded ==
  TypeOK <=>
    /\ config \in Config /\ hashOld \in Config
    /\ file \in {<<>>} \cup {<<f>> : f \in File}
    /\ at \in [Task -> Label]
    /\ doc \in [Task -> Config] /\ kept \in Config
    /\ booted \in BOOLEAN /\ restart \in BOOLEAN /\ setupMode \in BOOLEAN
    /\ unseen \in BOOLEAN /\ spoilt \in BOOLEAN
    /\ edits \in 0 .. MaxEdits /\ uploads \in 0 .. MaxUploads /\ failures \in 0 .. MaxFailures
  BY Zenon DEF TypeOK, Label

LEMMA TypeUnfoldedNext ==
  TypeOK' <=>
    /\ config' \in Config /\ hashOld' \in Config
    /\ file' \in {<<>>} \cup {<<f>> : f \in File}
    /\ at' \in [Task -> Label]
    /\ doc' \in [Task -> Config] /\ kept' \in Config
    /\ booted' \in BOOLEAN /\ restart' \in BOOLEAN /\ setupMode' \in BOOLEAN
    /\ unseen' \in BOOLEAN /\ spoilt' \in BOOLEAN
    /\ edits' \in 0 .. MaxEdits /\ uploads' \in 0 .. MaxUploads /\ failures' \in 0 .. MaxFailures
  BY Zenon DEF TypeOK, Label

\* A field of a configuration set to a value it may have.
LEMMA FieldTypes ==
  ASSUME NEW c \in Config
  PROVE  /\ \A b \in Body : [c EXCEPT !.body = b] \in Config
         /\ \A r \in BOOLEAN : [c EXCEPT !.timers = r] \in Config
         /\ \A v \in {Current, Older, Unset}, b \in Body : [c EXCEPT !.version = v, !.body = b] \in Config
         /\ c.body \in Body /\ c.timers \in BOOLEAN /\ c.version \in {Current, Older, Unset}
<1>1. c.body \in Body /\ c.timers \in BOOLEAN /\ c.version \in {Current, Older, Unset}
  BY DEF Config
<1>2. \A b \in Body : [c EXCEPT !.body = b] \in Config
  BY Zenon DEF Config
<1>3. \A r \in BOOLEAN : [c EXCEPT !.timers = r] \in Config
  BY Zenon DEF Config
<1>4. \A v \in {Current, Older, Unset}, b \in Body : [c EXCEPT !.version = v, !.body = b] \in Config
  BY Zenon DEF Config
<1> QED BY <1>1, <1>2, <1>3, <1>4

LEMMA InitTyped == Init => TypeOK
<1> SUFFICES ASSUME Init PROVE TypeOK
  OBVIOUS
<1>1. file \in {<<>>} \cup {<<f>> : f \in File} /\ kept \in Config /\ spoilt \in BOOLEAN
  <2>1. CASE \E f \in File : (f.version = Older => ~f.timers) /\ file = <<f>> /\ kept = f /\ spoilt = FALSE
    BY <2>1, ConfigTypes
  <2>2. CASE file = <<>> /\ kept = InitValue /\ spoilt = TRUE
    BY <2>2, ConfigTypes
  <2> QED BY <2>1, <2>2 DEF Init
<1>2. at \in [Task -> Label] /\ doc \in [Task -> Config] /\ config \in Config /\ hashOld \in Config
  BY ConfigTypes DEF Init, Label
<1>3. edits \in 0 .. MaxEdits /\ uploads \in 0 .. MaxUploads /\ failures \in 0 .. MaxFailures
  BY BoundAssumption DEF Init
<1>4. booted \in BOOLEAN /\ restart \in BOOLEAN /\ setupMode \in BOOLEAN /\ unseen \in BOOLEAN
  BY DEF Init
<1> QED BY <1>1, <1>2, <1>3, <1>4, TypeUnfolded

-----------------------------------------------------------------------------
(* What the steps of both tasks have in common.                            *)

\* A task that goes on undisturbed was alone, and sound.
LEMMA Working ==
  ASSUME StoreInv, NEW t \in Task, at[t] # "idle", Disturbs(t)
  PROVE  spoilt' \in BOOLEAN /\ (~spoilt' => ~spoilt /\ Alone(t) /\ Sound(t))
<1>1. spoilt' = (spoilt \/ ~Alone(t))
  BY DEF Disturbs
<1>2. spoilt' \in BOOLEAN
  BY <1>1, Zenon
<1>3. ~spoilt' => ~spoilt /\ Alone(t)
  BY <1>1
<1> QED BY <1>2, <1>3 DEF StoreInv, SoundInv

\* The other task is idle: it is enough that the one that goes on is sound.
LEMMA Settles ==
  ASSUME TypeOK, NEW t \in Task, NEW l \in Label, Goto(t, l), Alone(t),
         l # "idle" => Sound(t)', l = "idle" => Rested'
  PROVE  SoundInv'
<1>1. at'[t] = l /\ \A u \in Task : u # t => at'[u] = "idle"
  BY GotoEffect DEF Alone
<1>2. Alone(t)'
  BY <1>1 DEF Alone
<1> QED BY <1>1, <1>2 DEF SoundInv

\* The second task only works after the boot.
LEMMA UploadBoot ==
  ASSUME StoreInv, at["upload"] # "idle" \/ booted, booted' = booted, at'["loop"] = at["loop"]
  PROVE  BootInv'
  BY DEF StoreInv, BootInv

LEMMA SameFile ==
  ASSUME FileInv, file' = file, kept' = kept
  PROVE  FileInv'
  BY DEF FileInv

LEMMA LoopTask == "loop" \in Task /\ "upload" \in Task /\ \A t \in Task : t = "loop" \/ t = "upload"
  BY DEF Task

-----------------------------------------------------------------------------
(* Saving.                                                                 *)

LEMMA SerialiseSound ==
  ASSUME StoreInv, NEW t \in Task, Serialise(t)
  PROVE  StoreInv'
<1>1. /\ at[t] = "save" /\ Goto(t, "remove") /\ doc' = [doc EXCEPT ![t] = config]
      /\ spoilt' = (~Alone(t) \/ (spoilt /\ config # hashOld))
      /\ config' = config /\ hashOld' = hashOld /\ file' = file /\ booted' = booted
      /\ restart' = restart /\ setupMode' = setupMode /\ unseen' = unseen /\ kept' = kept
      /\ edits' = edits /\ uploads' = uploads /\ failures' = failures
  BY DEF Serialise, counts
<1>2. TypeOK /\ "remove" \in Label /\ config \in Config
  BY TypeUnfolded DEF StoreInv, Label
<1>3. /\ at' \in [Task -> Label] /\ at'[t] = "remove" /\ \A u \in Task : u # t => at'[u] = at[u]
  BY <1>1, <1>2, GotoEffect
<1>4. doc' \in [Task -> Config] /\ doc'[t] = config
  BY <1>1, <1>2, DocEffect
<1>5. spoilt' \in BOOLEAN
  BY <1>1, Zenon
<1>6. TypeOK'
  BY <1>1, <1>2, <1>3, <1>4, <1>5, TypeUnfolded, TypeUnfoldedNext, Zenon
<1>7. FileInv'
  BY <1>1, SameFile DEF StoreInv
<1>8. BootInv'
  <2>1. CASE t = "upload"
    BY <1>1, <1>3, <2>1, UploadBoot, LoopTask
  <2>2. CASE t = "loop"
    BY <1>1, <1>3, <2>2, LoopTask DEF StoreInv, BootInv
  <2> QED BY <2>1, <2>2, LoopTask
<1>9. SoundInv'
  <2> SUFFICES ASSUME ~spoilt' PROVE SoundInv'
    BY DEF SoundInv
  <2>1. Alone(t) /\ (~spoilt \/ config = hashOld)
    BY <1>1
  <2>2. unseen \/ config = hashOld \/ (t = "loop" /\ restart)
    BY <1>1, <2>1 DEF StoreInv, SoundInv, Sound
  <2>3. Sound(t)'
    BY <1>1, <1>3, <1>4, <2>2 DEF Sound
  <2> QED BY <1>1, <1>2, <2>1, <2>3, Settles
<1> QED BY <1>6, <1>7, <1>8, <1>9 DEF StoreInv

LEMMA RemoveSound ==
  ASSUME StoreInv, NEW t \in Task, Remove(t)
  PROVE  StoreInv'
<1>1. /\ at[t] = "remove" /\ Goto(t, "write") /\ file' = <<>> /\ Disturbs(t)
      /\ config' = config /\ hashOld' = hashOld /\ doc' = doc /\ booted' = booted
      /\ restart' = restart /\ setupMode' = setupMode /\ unseen' = unseen /\ kept' = kept
      /\ edits' = edits /\ uploads' = uploads /\ failures' = failures
  BY DEF Remove, counts
<1>2. TypeOK /\ "write" \in Label
  BY DEF StoreInv, Label
<1>3. /\ at' \in [Task -> Label] /\ at'[t] = "write" /\ \A u \in Task : u # t => at'[u] = at[u]
  BY <1>1, <1>2, GotoEffect
<1>4. spoilt' \in BOOLEAN /\ (~spoilt' => Alone(t) /\ Sound(t))
  BY <1>1, Working
<1>5. file' \in {<<>>} \cup {<<f>> : f \in File}
  BY <1>1
<1>6. TypeOK'
  BY <1>1, <1>2, <1>3, <1>4, <1>5, TypeUnfolded, TypeUnfoldedNext, Zenon
<1>7. FileInv'
  BY <1>1 DEF FileInv
<1>8. BootInv'
  <2>1. CASE t = "upload"
    BY <1>1, <1>3, <2>1, UploadBoot, LoopTask
  <2>2. CASE t = "loop"
    BY <1>1, <1>3, <2>2, LoopTask DEF StoreInv, BootInv
  <2> QED BY <2>1, <2>2, LoopTask
<1>9. SoundInv'
  <2> SUFFICES ASSUME ~spoilt' PROVE SoundInv'
    BY DEF SoundInv
  <2>1. Sound(t)'
    BY <1>1, <1>3, <1>4 DEF Sound
  <2> QED BY <1>1, <1>2, <1>4, <2>1, Settles
<1> QED BY <1>6, <1>7, <1>8, <1>9 DEF StoreInv

\* What is written is the configuration, and what is kept from then on.
LEMMA ImageFields ==
  ASSUME NEW c \in Config
  PROVE  /\ Image(c) \in File /\ Image(c).version = Current
         /\ Image(c).body = c.body /\ Image(c).timers = c.timers
<1>1. Image(c) \in File
  BY ConfigTypes
<1>2. Image(c).version = Current /\ Image(c).body = c.body /\ Image(c).timers = c.timers
  BY DEF Config, Image
<1> QED BY <1>1, <1>2

LEMMA WriteSound ==
  ASSUME StoreInv, NEW t \in Task, Write(t)
  PROVE  StoreInv'
<1>1. /\ at[t] = "write" /\ Goto(t, After(t)) /\ Disturbs(t)
      /\ file' = <<Image(doc[t])>> /\ kept' = doc[t] /\ doc' = [doc EXCEPT ![t] = Zero]
      /\ config' = config /\ hashOld' = hashOld /\ booted' = booted
      /\ restart' = restart /\ setupMode' = setupMode /\ unseen' = unseen
      /\ edits' = edits /\ uploads' = uploads /\ failures' = failures
  BY DEF Write, Forget, counts
<1>2. TypeOK /\ After(t) \in Label /\ doc[t] \in Config /\ Zero \in Config
  BY AfterLabel, ConfigTypes, TypeUnfolded DEF StoreInv
<1>3. /\ at' \in [Task -> Label] /\ at'[t] = After(t) /\ \A u \in Task : u # t => at'[u] = at[u]
  BY <1>1, <1>2, GotoEffect
<1>4. spoilt' \in BOOLEAN /\ (~spoilt' => Alone(t) /\ Sound(t))
  BY <1>1, Working
<1>5. /\ Image(doc[t]) \in File /\ Image(doc[t]).version = Current
      /\ Image(doc[t]).body = doc[t].body /\ Image(doc[t]).timers = doc[t].timers
  BY <1>2, ImageFields
<1>6. TypeOK'
  <2>1. doc' \in [Task -> Config]
    BY <1>1, <1>2, DocEffect
  <2>2. file' \in {<<>>} \cup {<<f>> : f \in File}
    BY <1>1, <1>5
  <2> QED BY <1>1, <1>2, <1>3, <1>4, <2>1, <2>2, TypeUnfolded, TypeUnfoldedNext, Zenon
<1>7. file' # <<>> /\ Head(file') = Image(doc[t])
  BY <1>1, OneHead
<1>8. FileInv'
  BY <1>1, <1>5, <1>7 DEF FileInv, Current, Older
<1>9. BootInv'
  <2>1. CASE t = "upload"
    BY <1>1, <1>3, <2>1, UploadBoot, LoopTask
  <2>2. CASE t = "loop"
    BY <1>1, <1>3, <2>2, AfterLabel, LoopTask DEF StoreInv, BootInv
  <2> QED BY <2>1, <2>2, LoopTask
<1>10. SoundInv'
  <2> SUFFICES ASSUME ~spoilt' PROVE SoundInv'
    BY DEF SoundInv
  <2>1. doc[t] = config /\ (unseen \/ config = hashOld \/ (t = "loop" /\ restart))
    BY <1>1, <1>4 DEF Sound
  <2>2. ASSUME After(t) # "idle" PROVE Sound(t)'
    <3>1. After(t) \in {"check", "restart"}
      BY <2>2, AfterLabel, LoopTask DEF After
    <3> QED BY <1>1, <1>3, <1>7, <2>1, <3>1 DEF Sound
  <2>3. ASSUME After(t) = "idle" PROVE Rested'
    <3>1. ~(t = "loop" /\ restart)
      BY <2>3 DEF After
    <3> QED BY <1>1, <1>7, <2>1, <3>1 DEF Rested
  <2> QED BY <1>1, <1>2, <1>4, <2>2, <2>3, Settles
<1> QED BY <1>6, <1>8, <1>9, <1>10 DEF StoreInv

LEMMA WriteFailsSound ==
  ASSUME StoreInv, NEW t \in Task, WriteFails(t)
  PROVE  StoreInv'
<1>1. /\ at[t] = "write" /\ Goto(t, After(t)) /\ failures < MaxFailures /\ failures' = failures + 1
      /\ file' = <<>> /\ spoilt' = TRUE /\ doc' = [doc EXCEPT ![t] = Zero]
      /\ config' = config /\ hashOld' = hashOld /\ booted' = booted
      /\ restart' = restart /\ setupMode' = setupMode /\ unseen' = unseen /\ kept' = kept
      /\ edits' = edits /\ uploads' = uploads
  BY DEF WriteFails, Forget
<1>2. TypeOK /\ After(t) \in Label /\ Zero \in Config
  BY AfterLabel, ConfigTypes DEF StoreInv
<1>3. /\ at' \in [Task -> Label] /\ at'[t] = After(t) /\ \A u \in Task : u # t => at'[u] = at[u]
  BY <1>1, <1>2, GotoEffect
<1>4. TypeOK'
  <2>1. doc' \in [Task -> Config]
    BY <1>1, <1>2, DocEffect
  <2>2. file' \in {<<>>} \cup {<<f>> : f \in File}
    BY <1>1
  <2>3. failures' \in 0 .. MaxFailures
    BY <1>1, <1>2, TypeUnfolded, BoundAssumption
  <2>4. spoilt' \in BOOLEAN
    BY <1>1, Zenon
  <2> QED BY <1>1, <1>2, <1>3, <2>1, <2>2, <2>3, <2>4, TypeUnfolded, TypeUnfoldedNext, Zenon
<1>5. FileInv' /\ SoundInv'
  BY <1>1 DEF FileInv, SoundInv
<1>6. BootInv'
  <2>1. CASE t = "upload"
    BY <1>1, <1>3, <2>1, UploadBoot, LoopTask
  <2>2. CASE t = "loop"
    BY <1>1, <1>3, <2>2, AfterLabel, LoopTask DEF StoreInv, BootInv
  <2> QED BY <2>1, <2>2, LoopTask
<1> QED BY <1>4, <1>5, <1>6 DEF StoreInv

-----------------------------------------------------------------------------
(* Loading.                                                                *)

LEMMA ReadSound ==
  ASSUME StoreInv, NEW t \in Task, Read(t)
  PROVE  StoreInv'
<1>1. /\ at[t] = "read" /\ Disturbs(t)
      /\ hashOld' = hashOld /\ file' = file /\ booted' = booted
      /\ restart' = restart /\ unseen' = unseen /\ kept' = kept
      /\ edits' = edits /\ uploads' = uploads /\ failures' = failures
  BY DEF Read, counts
<1>2. TypeOK /\ "body" \in Label /\ "hash" \in Label
  BY DEF StoreInv, Label
<1>3. spoilt' \in BOOLEAN /\ (~spoilt' => Alone(t) /\ Sound(t))
  BY <1>1, Working
<1>4. FileInv'
  BY <1>1, SameFile DEF StoreInv
<1>5. CASE Readable
  <2>1. /\ doc' = [doc EXCEPT ![t] = Head(file)] /\ Goto(t, "body")
        /\ config' = config /\ setupMode' = setupMode
    BY <1>5 DEF Read
  <2>2. file # <<>> /\ Head(file) \in Config /\ file = <<Head(file)>>
    BY <1>2, <1>5, FileRead DEF Readable
  <2>3. /\ at' \in [Task -> Label] /\ at'[t] = "body" /\ \A u \in Task : u # t => at'[u] = at[u]
    BY <1>2, <2>1, GotoEffect
  <2>4. doc' \in [Task -> Config] /\ doc'[t] = Head(file)
    BY <1>2, <2>1, <2>2, DocEffect
  <2>5. TypeOK'
    BY <1>1, <1>2, <1>3, <2>1, <2>3, <2>4, TypeUnfolded, TypeUnfoldedNext, Zenon
  <2>6. BootInv'
    <3>1. CASE t = "upload"
      BY <1>1, <2>3, <3>1, UploadBoot, LoopTask
    <3>2. CASE t = "loop"
      BY <1>1, <2>1, <2>2, <2>3, <2>4, <3>2, LoopTask DEF StoreInv, BootInv
    <3> QED BY <3>1, <3>2, LoopTask
  <2>7. SoundInv'
    <3> SUFFICES ASSUME ~spoilt' PROVE SoundInv'
      BY DEF SoundInv
    <3>1. Sound(t)'
      BY <1>1, <2>2, <2>3, <2>4 DEF Sound
    <3> QED BY <1>2, <1>3, <2>1, <3>1, Settles
  <2> QED BY <1>4, <2>5, <2>6, <2>7 DEF StoreInv
<1>6. CASE ~Readable
  <2>1. config' = InitValue /\ setupMode' = TRUE /\ Goto(t, "hash") /\ doc' = doc
    BY <1>6 DEF Read
  <2>2. file = <<>>
    BY <1>6 DEF Readable
  <2>3. /\ at' \in [Task -> Label] /\ at'[t] = "hash" /\ \A u \in Task : u # t => at'[u] = at[u]
    BY <1>2, <2>1, GotoEffect
  <2>4. InitValue \in Config /\ setupMode' \in BOOLEAN
    BY <2>1, ConfigTypes, Zenon
  <2>5. TypeOK'
    BY <1>1, <1>2, <1>3, <2>1, <2>3, <2>4, TypeUnfolded, TypeUnfoldedNext, Zenon
  <2>6. BootInv'
    <3>1. CASE t = "upload"
      BY <1>1, <2>3, <3>1, UploadBoot, LoopTask
    <3>2. CASE t = "loop"
      BY <1>1, <2>2, <2>3, <3>2, LoopTask DEF StoreInv, BootInv
    <3> QED BY <3>1, <3>2, LoopTask
  \* Undisturbed there is a file to read.
  <2>7. spoilt'
    BY <1>1, <1>3, <2>2 DEF Sound
  <2>8. SoundInv'
    BY <2>7 DEF SoundInv
  <2> QED BY <1>4, <2>5, <2>6, <2>8 DEF StoreInv
<1> QED BY <1>5, <1>6

LEMMA FillBodySound ==
  ASSUME StoreInv, NEW t \in Task, FillBody(t)
  PROVE  StoreInv'
<1>1. /\ at[t] = "body" /\ Goto(t, "timers") /\ Disturbs(t)
      /\ config' = [config EXCEPT !.version = doc[t].version, !.body = doc[t].body]
      /\ hashOld' = hashOld /\ file' = file /\ doc' = doc /\ booted' = booted
      /\ restart' = restart /\ setupMode' = setupMode /\ unseen' = unseen /\ kept' = kept
      /\ edits' = edits /\ uploads' = uploads /\ failures' = failures
  BY DEF FillBody, counts
<1>2. TypeOK /\ "timers" \in Label /\ config \in Config /\ doc[t] \in Config
  BY TypeUnfolded DEF StoreInv, Label
<1>3. /\ at' \in [Task -> Label] /\ at'[t] = "timers" /\ \A u \in Task : u # t => at'[u] = at[u]
  BY <1>1, <1>2, GotoEffect
<1>4. spoilt' \in BOOLEAN /\ (~spoilt' => Alone(t) /\ Sound(t))
  BY <1>1, Working
<1>5. /\ config' \in Config
      /\ config'.version = doc[t].version /\ config'.body = doc[t].body /\ config'.timers = config.timers
  <2>1. doc[t].body \in Body /\ doc[t].version \in {Current, Older, Unset}
    BY <1>2, FieldTypes
  <2>2. config' \in Config
    BY <1>1, <1>2, <2>1, FieldTypes
  <2>3. config'.version = doc[t].version /\ config'.body = doc[t].body /\ config'.timers = config.timers
    BY <1>1, <1>2 DEF Config
  <2> QED BY <2>2, <2>3
<1>6. TypeOK'
  BY <1>1, <1>2, <1>3, <1>4, <1>5, TypeUnfolded, TypeUnfoldedNext, Zenon
<1>7. FileInv'
  BY <1>1, SameFile DEF StoreInv
<1>8. BootInv'
  <2>1. CASE t = "upload"
    BY <1>1, <1>3, <2>1, UploadBoot, LoopTask
  <2>2. CASE t = "loop"
    BY <1>1, <1>3, <1>5, <2>2, LoopTask DEF StoreInv, BootInv
  <2> QED BY <2>1, <2>2, LoopTask
<1>9. SoundInv'
  <2> SUFFICES ASSUME ~spoilt' PROVE SoundInv'
    BY DEF SoundInv
  <2>1. file = <<doc[t]>>
    BY <1>1, <1>4 DEF Sound
  <2>2. Head(file) = doc[t] /\ file # <<>>
    BY <2>1, OneHead
  <2>3. Sound(t)'
    BY <1>1, <1>3, <1>5, <2>1, <2>2 DEF Sound
  <2> QED BY <1>1, <1>2, <1>4, <2>3, Settles
<1> QED BY <1>6, <1>7, <1>8, <1>9 DEF StoreInv

LEMMA FillTimersSound ==
  ASSUME StoreInv, NEW t \in Task, FillTimers(t)
  PROVE  StoreInv'
<1>1. /\ at[t] = "timers" /\ Goto(t, "hash") /\ Disturbs(t)
      /\ config' = [config EXCEPT !.timers = Timers(t)]
      /\ hashOld' = hashOld /\ file' = file /\ doc' = doc /\ booted' = booted
      /\ restart' = restart /\ setupMode' = setupMode /\ unseen' = unseen /\ kept' = kept
      /\ edits' = edits /\ uploads' = uploads /\ failures' = failures
  BY DEF FillTimers, counts
<1>2. TypeOK /\ "hash" \in Label /\ config \in Config /\ doc[t] \in Config
  BY TypeUnfolded DEF StoreInv, Label
<1>3. /\ at' \in [Task -> Label] /\ at'[t] = "hash" /\ \A u \in Task : u # t => at'[u] = at[u]
  BY <1>1, <1>2, GotoEffect
<1>4. spoilt' \in BOOLEAN /\ (~spoilt' => Alone(t) /\ Sound(t))
  BY <1>1, Working
<1>5. /\ config' \in Config
      /\ config'.version = config.version /\ config'.body = config.body /\ config'.timers = Timers(t)
  <2>1. config.timers \in BOOLEAN /\ doc[t].timers \in BOOLEAN
    BY <1>2, FieldTypes
  <2>2. Timers(t) \in BOOLEAN
    BY <2>1, Zenon DEF Timers
  <2>3. config' \in Config
    BY <1>1, <1>2, <2>2, FieldTypes
  <2>4. config'.version = config.version /\ config'.body = config.body /\ config'.timers = Timers(t)
    BY <1>1, <1>2 DEF Config
  <2> QED BY <2>3, <2>4
<1>6. TypeOK'
  BY <1>1, <1>2, <1>3, <1>4, <1>5, TypeUnfolded, TypeUnfoldedNext, Zenon
<1>7. FileInv'
  BY <1>1, SameFile DEF StoreInv
<1>8. BootInv'
  <2>1. CASE t = "upload"
    BY <1>1, <1>3, <2>1, UploadBoot, LoopTask
  <2>2. CASE t = "loop"
    <3>1. ~booted
      BY <1>1, <2>2 DEF StoreInv, BootInv
    <3>2. file = <<doc["loop"]>> /\ ~config.timers
      BY <1>1, <2>2, <3>1 DEF StoreInv, BootInv
    <3>3. file # <<>> /\ Head(file) = doc["loop"]
      BY <3>2, OneHead
    <3>4. Timers("loop") = Head(file).timers
      <4>1. Head(file).timers \in BOOLEAN
        BY <1>2, <2>2, <3>3, FieldTypes
      <4>2. CASE doc["loop"].version = Older
        <5>1. ~Head(file).timers
          BY <3>3, <4>2 DEF StoreInv, FileInv
        <5>2. config.timers \in BOOLEAN
          BY <1>2, FieldTypes
        <5>3. Timers("loop") = config.timers
          BY <4>2 DEF Timers
        <5> QED BY <3>2, <4>1, <5>1, <5>2, <5>3, Zenon
      <4>3. CASE doc["loop"].version # Older
        BY <3>3, <4>3 DEF Timers
      <4> QED BY <4>2, <4>3
    <3>5. config'.timers = Head(file').timers
      BY <1>1, <1>5, <2>2, <3>4
    <3>6. at'["loop"] = "hash" /\ at'["upload"] = at["upload"]
      BY <1>3, <2>2, LoopTask
    <3> QED BY <1>1, <2>2, <3>1, <3>5, <3>6 DEF StoreInv, BootInv
  <2> QED BY <2>1, <2>2, LoopTask
<1>9. SoundInv'
  <2> SUFFICES ASSUME ~spoilt' PROVE SoundInv'
    BY DEF SoundInv
  <2>1. file = <<doc[t]>> /\ config.version = Head(file).version /\ config.body = Head(file).body
    BY <1>1, <1>4 DEF Sound
  <2>2. Head(file) = doc[t] /\ file # <<>>
    BY <2>1, OneHead
  <2>3. Head(file).version = Current => Timers(t) = Head(file).timers
    BY <2>2 DEF Timers, Current, Older
  <2>4. Sound(t)'
    BY <1>1, <1>3, <1>5, <2>1, <2>2, <2>3 DEF Sound
  <2> QED BY <1>1, <1>2, <1>4, <2>4, Settles
<1> QED BY <1>6, <1>7, <1>8, <1>9 DEF StoreInv

\* Two configurations with the same fields are the same, and one of the current
\* version is its own image.
LEMMA SameFields ==
  ASSUME NEW c \in Config, NEW d \in Config,
         c.version = d.version, c.body = d.body, c.timers = d.timers
  PROVE  c = d
  BY DEF Config

LEMMA OwnImage ==
  ASSUME NEW c \in Config, c.version = Current
  PROVE  Image(c) = c
  BY DEF Config, Image

LEMMA HashInitSound ==
  ASSUME StoreInv, NEW t \in Task, HashInit(t)
  PROVE  StoreInv'
<1> DEFINE l == IF config.version # Current THEN "save" ELSE After(t)
<1>1. /\ at[t] = "hash" /\ Goto(t, l) /\ Disturbs(t)
      /\ hashOld' = config /\ unseen' = FALSE /\ doc' = [doc EXCEPT ![t] = Zero]
      /\ config' = config /\ file' = file /\ booted' = booted
      /\ restart' = restart /\ setupMode' = setupMode /\ kept' = kept
      /\ edits' = edits /\ uploads' = uploads /\ failures' = failures
  BY DEF HashInit, Forget, counts
<1>2. TypeOK /\ l \in Label /\ config \in Config /\ Zero \in Config
  BY AfterLabel, ConfigTypes, TypeUnfolded DEF StoreInv, Label
<1>3. l = "save" \/ (config.version = Current /\ l = After(t))
  OBVIOUS
<1> HIDE DEF l
<1>4. /\ at' \in [Task -> Label] /\ at'[t] = l /\ \A u \in Task : u # t => at'[u] = at[u]
  BY <1>1, <1>2, GotoEffect
<1>5. spoilt' \in BOOLEAN /\ (~spoilt' => Alone(t) /\ Sound(t))
  BY <1>1, Working
<1>6. TypeOK'
  <2>1. doc' \in [Task -> Config]
    BY <1>1, <1>2, DocEffect
  <2>2. unseen' \in BOOLEAN
    BY <1>1, Zenon
  <2> QED BY <1>1, <1>2, <1>4, <1>5, <2>1, <2>2, TypeUnfolded, TypeUnfoldedNext, Zenon
<1>7. FileInv'
  BY <1>1, SameFile DEF StoreInv
<1>8. BootInv'
  <2>1. CASE t = "upload"
    BY <1>1, <1>4, <2>1, UploadBoot, LoopTask
  <2>2. CASE t = "loop"
    <3>1. ~booted /\ at["upload"] = "idle"
      BY <1>1, <2>2 DEF StoreInv, BootInv
    <3>2. l \in {"save", "check"}
      BY <1>3, <2>2, <3>1, AfterLabel
    <3>3. at'["loop"] = l /\ at'["upload"] = at["upload"]
      BY <1>4, <2>2, LoopTask
    <3> QED BY <1>1, <3>1, <3>2, <3>3 DEF BootInv
  <2> QED BY <2>1, <2>2, LoopTask
<1>9. SoundInv'
  <2> SUFFICES ASSUME ~spoilt' PROVE SoundInv'
    BY DEF SoundInv
  <2>1. /\ file # <<>> /\ config.version = Head(file).version /\ config.body = Head(file).body
        /\ Head(file).version = Current => config.timers = Head(file).timers
    BY <1>1, <1>5 DEF Sound
  <2>2. Head(file) \in Config /\ file = <<Head(file)>>
    BY <1>2, <2>1, FileRead
  <2>3. config.version = Current => file = <<Image(config)>>
    BY <1>2, <2>1, <2>2, SameFields, OwnImage
  <2>4. ASSUME l # "idle" PROVE Sound(t)'
    <3>1. l \in {"save", "check", "restart"}
      BY <1>3, <2>4 DEF After
    <3>2. l = "check" => config.version = Current
      BY <1>3
    <3> QED BY <1>1, <1>4, <2>1, <2>3, <3>1, <3>2 DEF Sound
  <2>5. ASSUME l = "idle" PROVE Rested'
    BY <1>1, <1>3, <2>1, <2>3, <2>5 DEF Rested
  <2> QED BY <1>1, <1>2, <1>5, <2>4, <2>5, Settles
<1> QED BY <1>6, <1>7, <1>8, <1>9 DEF StoreInv

-----------------------------------------------------------------------------
(* setup() and loop().                                                     *)

\* With both tasks idle and nothing spoilt the store is at rest.
LEMMA BothIdle ==
  ASSUME StoreInv, Looping, Disturbs("loop")
  PROVE  spoilt' \in BOOLEAN /\ (~spoilt' => at["upload"] = "idle" /\ Alone("loop") /\ Rested)
<1>1. spoilt' = (spoilt \/ ~Alone("loop"))
  BY DEF Disturbs
<1>2. spoilt' \in BOOLEAN
  BY <1>1, Zenon
<1>3. ~spoilt' => ~spoilt /\ Alone("loop")
  BY <1>1
<1>4. Alone("loop") => at["upload"] = "idle"
  BY LoopTask DEF Alone
<1>5. Alone("loop") => \A t \in Task : at[t] = "idle"
  BY DEF Alone, Looping
<1> QED BY <1>2, <1>3, <1>4, <1>5 DEF StoreInv, SoundInv

LEMMA LoopingBooted ==
  ASSUME StoreInv, Looping
  PROVE  booted
  BY DEF StoreInv, BootInv, Looping

LEMMA FinalCheckSound ==
  ASSUME StoreInv, FinalCheck
  PROVE  StoreInv'
<1>1. /\ at["loop"] = "check" /\ Goto("loop", "idle")
      /\ config' = [config EXCEPT !.body = CheckedGpio] /\ hashOld' = hashOld
      /\ setupMode' = (setupMode \/ CheckedGpio = Default) /\ booted' = TRUE
      /\ file' = file /\ doc' = doc /\ restart' = restart /\ unseen' = unseen
      /\ kept' = kept /\ spoilt' = spoilt
      /\ edits' = edits /\ uploads' = uploads /\ failures' = failures
  BY DEF FinalCheck, Seen, counts
<1>2. TypeOK /\ "idle" \in Label /\ config \in Config
  BY TypeUnfolded DEF StoreInv, Label
<1>3. /\ at' \in [Task -> Label] /\ at'["loop"] = "idle"
      /\ \A u \in Task : u # "loop" => at'[u] = at[u]
  BY <1>1, <1>2, GotoEffect, LoopTask
<1>4. config' \in Config
  <2>1. CheckedGpio \in Body
    BY <1>2, FieldTypes, Bodies DEF CheckedGpio
  <2> QED BY <1>1, <1>2, <2>1, FieldTypes
<1>5. setupMode' \in BOOLEAN /\ booted' \in BOOLEAN
  BY <1>1, Zenon
<1>6. TypeOK'
  BY <1>1, <1>2, <1>3, <1>4, <1>5, TypeUnfolded, TypeUnfoldedNext, Zenon
<1>7. FileInv'
  BY <1>1, SameFile DEF StoreInv
<1>8. BootInv'
  BY <1>1, <1>3 DEF BootInv
<1>9. SoundInv'
  <2> SUFFICES ASSUME ~spoilt' PROVE SoundInv'
    BY DEF SoundInv
  <2>1. ~spoilt /\ Alone("loop") /\ Sound("loop")
    BY <1>1, LoopTask DEF StoreInv, SoundInv
  <2>2. hashOld = config
    BY <1>1 DEF StoreInv, BootInv
  <2>3. Rested'
    BY <1>1, <2>1, <2>2 DEF Sound, Rested
  <2> QED BY <1>1, <1>2, <2>1, <2>3, LoopTask, Settles
<1> QED BY <1>6, <1>7, <1>8, <1>9 DEF StoreInv

LEMMA EditSound ==
  ASSUME StoreInv, Edit
  PROVE  StoreInv'
<1>1. /\ Looping /\ edits < MaxEdits /\ edits' = edits + 1 /\ Disturbs("loop")
      /\ \/ \E b \in Body : config' = [config EXCEPT !.body = b]
         \/ config' = [config EXCEPT !.timers = ~config.timers]
      /\ hashOld' = hashOld /\ file' = file /\ at' = at /\ doc' = doc /\ booted' = booted
      /\ restart' = restart /\ setupMode' = setupMode /\ unseen' = unseen /\ kept' = kept
      /\ uploads' = uploads /\ failures' = failures
  BY DEF Edit
<1>2. TypeOK /\ config \in Config
  BY TypeUnfolded DEF StoreInv
<1>3. spoilt' \in BOOLEAN /\ (~spoilt' => at["upload"] = "idle" /\ Rested)
  BY <1>1, BothIdle
<1>4. config' \in Config
  <2>1. CASE \E b \in Body : config' = [config EXCEPT !.body = b]
    BY <1>2, <2>1, FieldTypes
  <2>2. CASE config' = [config EXCEPT !.timers = ~config.timers]
    <3>1. (~config.timers) \in BOOLEAN
      BY Zenon
    <3> QED BY <1>2, <2>2, <3>1, FieldTypes
  <2> QED BY <1>1, <2>1, <2>2
<1>5. edits' \in 0 .. MaxEdits
  BY <1>1, <1>2, TypeUnfolded, BoundAssumption
<1>6. TypeOK'
  BY <1>1, <1>2, <1>3, <1>4, <1>5, TypeUnfolded, TypeUnfoldedNext, Zenon
<1>7. FileInv'
  BY <1>1, SameFile DEF StoreInv
<1>8. BootInv'
  BY <1>1, LoopingBooted DEF StoreInv, BootInv
<1>9. SoundInv'
  <2> SUFFICES ASSUME ~spoilt' PROVE SoundInv'
    BY DEF SoundInv
  <2>1. \A t \in Task : at'[t] = "idle"
    BY <1>1, <1>3, LoopTask DEF Looping
  <2>2. Rested'
    BY <1>1, <1>3 DEF Rested
  <2> QED BY <2>1, <2>2 DEF SoundInv
<1> QED BY <1>6, <1>7, <1>8, <1>9 DEF StoreInv

LEMMA ConfigCyclicSound ==
  ASSUME StoreInv, ConfigCyclic
  PROVE  StoreInv'
<1>1. /\ Looping /\ hashOld' = config /\ unseen' = FALSE /\ Goto("loop", "save") /\ Disturbs("loop")
      /\ config' = config /\ file' = file /\ doc' = doc /\ booted' = booted
      /\ restart' = restart /\ setupMode' = setupMode /\ kept' = kept
      /\ edits' = edits /\ uploads' = uploads /\ failures' = failures
  BY DEF ConfigCyclic, counts
<1>2. TypeOK /\ "save" \in Label /\ config \in Config
  BY TypeUnfolded DEF StoreInv, Label
<1>3. at' \in [Task -> Label] /\ at'["loop"] = "save"
  BY <1>1, <1>2, GotoEffect, LoopTask
<1>4. spoilt' \in BOOLEAN /\ (~spoilt' => Alone("loop") /\ Rested)
  BY <1>1, BothIdle
<1>5. unseen' \in BOOLEAN
  BY <1>1, Zenon
<1>6. TypeOK'
  BY <1>1, <1>2, <1>3, <1>4, <1>5, TypeUnfolded, TypeUnfoldedNext, Zenon
<1>7. FileInv'
  BY <1>1, SameFile DEF StoreInv
<1>8. BootInv'
  BY <1>1, <1>3, LoopingBooted DEF BootInv
<1>9. SoundInv'
  <2> SUFFICES ASSUME ~spoilt' PROVE SoundInv'
    BY DEF SoundInv
  <2>1. Sound("loop")'
    BY <1>1, <1>3, <1>4 DEF Sound, Rested
  <2> QED BY <1>1, <1>2, <1>4, <2>1, LoopTask, Settles
<1> QED BY <1>6, <1>7, <1>8, <1>9 DEF StoreInv

LEMMA RestartActionSound ==
  ASSUME StoreInv, RestartAction
  PROVE  StoreInv'
<1>1. /\ Looping /\ restart' = TRUE /\ Goto("loop", "save") /\ Disturbs("loop")
      /\ config' = config /\ hashOld' = hashOld /\ file' = file /\ doc' = doc /\ booted' = booted
      /\ setupMode' = setupMode /\ unseen' = unseen /\ kept' = kept
      /\ edits' = edits /\ uploads' = uploads /\ failures' = failures
  BY DEF RestartAction, counts
<1>2. TypeOK /\ "save" \in Label
  BY DEF StoreInv, Label
<1>3. at' \in [Task -> Label] /\ at'["loop"] = "save"
  BY <1>1, <1>2, GotoEffect, LoopTask
<1>4. spoilt' \in BOOLEAN /\ (~spoilt' => Alone("loop") /\ Rested)
  BY <1>1, BothIdle
<1>5. restart' \in BOOLEAN
  BY <1>1, Zenon
<1>6. TypeOK'
  BY <1>1, <1>2, <1>3, <1>4, <1>5, TypeUnfolded, TypeUnfoldedNext, Zenon
<1>7. FileInv'
  BY <1>1, SameFile DEF StoreInv
<1>8. BootInv'
  BY <1>1, <1>3, LoopingBooted DEF BootInv
<1>9. SoundInv'
  <2> SUFFICES ASSUME ~spoilt' PROVE SoundInv'
    BY DEF SoundInv
  <2>1. Sound("loop")'
    BY <1>1, <1>3, <1>4 DEF Sound, Rested
  <2> QED BY <1>1, <1>2, <1>4, <2>1, LoopTask, Settles
<1> QED BY <1>6, <1>7, <1>8, <1>9 DEF StoreInv

LEMMA CmdConfigSound ==
  ASSUME StoreInv, CmdConfig
  PROVE  StoreInv'
<1>1. /\ Looping /\ config' = InitValue /\ unseen' = TRUE /\ Goto("loop", "save") /\ Disturbs("loop")
      /\ hashOld' = hashOld /\ file' = file /\ doc' = doc /\ booted' = booted
      /\ restart' = restart /\ setupMode' = setupMode /\ kept' = kept
      /\ edits' = edits /\ uploads' = uploads /\ failures' = failures
  BY DEF CmdConfig, counts
<1>2. TypeOK /\ "save" \in Label /\ InitValue \in Config
  BY ConfigTypes DEF StoreInv, Label
<1>3. at' \in [Task -> Label] /\ at'["loop"] = "save"
  BY <1>1, <1>2, GotoEffect, LoopTask
<1>4. spoilt' \in BOOLEAN /\ (~spoilt' => Alone("loop") /\ Rested)
  BY <1>1, BothIdle
<1>5. unseen' \in BOOLEAN
  BY <1>1, Zenon
<1>6. TypeOK'
  BY <1>1, <1>2, <1>3, <1>4, <1>5, TypeUnfolded, TypeUnfoldedNext, Zenon
<1>7. FileInv'
  BY <1>1, SameFile DEF StoreInv
<1>8. BootInv'
  BY <1>1, <1>3, LoopingBooted DEF BootInv
<1>9. SoundInv'
  <2> SUFFICES ASSUME ~spoilt' PROVE SoundInv'
    BY DEF SoundInv
  <2>1. Sound("loop")'
    BY <1>1, <1>3, <1>4 DEF Sound, Rested
  <2> QED BY <1>1, <1>2, <1>4, <2>1, LoopTask, Settles
<1> QED BY <1>6, <1>7, <1>8, <1>9 DEF StoreInv

\* A restart, by the button or by the power, in the middle of whatever there was.
LEMMA RebootSound ==
  ASSUME StoreInv, Reboot, file' = file, kept' = kept, edits' = edits, uploads' = uploads,
         failures' \in 0 .. MaxFailures
  PROVE  StoreInv'
<1>1. /\ config' = Zero /\ hashOld' = Zero /\ doc' = [t \in Task |-> Zero]
      /\ at' = [t \in Task |-> IF t = "loop" THEN "read" ELSE "idle"]
      /\ booted' = FALSE /\ restart' = FALSE /\ setupMode' = FALSE /\ unseen' = FALSE
      /\ spoilt' = (spoilt \/ file = <<>>)
  BY DEF Reboot
<1>2. doc' \in [Task -> Config] /\ at' \in [Task -> Label] /\ Zero \in Config
  BY <1>1, ConfigTypes DEF Label
<1>3. booted' \in BOOLEAN /\ restart' \in BOOLEAN /\ setupMode' \in BOOLEAN /\ unseen' \in BOOLEAN
      /\ spoilt' \in BOOLEAN
  BY <1>1, Zenon
<1>4. TypeOK'
  BY <1>1, <1>2, <1>3, TypeUnfolded, TypeUnfoldedNext, Zenon DEF StoreInv
<1>5. at'["loop"] = "read" /\ at'["upload"] = "idle"
  BY <1>1, LoopTask
<1>6. FileInv'
  BY SameFile DEF StoreInv
<1>7. BootInv'
  BY <1>1, <1>5 DEF BootInv, Zero
<1>8. SoundInv'
  <2> SUFFICES ASSUME ~spoilt' PROVE SoundInv'
    BY DEF SoundInv
  <2>1. file' # <<>>
    BY <1>1
  <2>2. Sound("loop")' /\ Alone("loop")'
    BY <1>5, <2>1, LoopTask DEF Sound, Alone
  <2> QED BY <1>5, <2>2, LoopTask DEF SoundInv
<1> QED BY <1>4, <1>6, <1>7, <1>8 DEF StoreInv

LEMMA UploadSound ==
  ASSUME StoreInv, Upload
  PROVE  StoreInv'
<1>1. /\ booted /\ at["upload"] = "idle" /\ uploads < MaxUploads /\ uploads' = uploads + 1
      /\ Goto("upload", "read") /\ spoilt' = ~Alone("upload")
      /\ config' = config /\ hashOld' = hashOld /\ doc' = doc /\ booted' = booted
      /\ restart' = restart /\ setupMode' = setupMode /\ unseen' = unseen
      /\ edits' = edits /\ failures' = failures
  BY DEF Upload
<1>2. PICK f \in File : (f.version = Older => ~f.timers) /\ file' = <<f>> /\ kept' = f
  BY DEF Upload
<1>3. TypeOK /\ "read" \in Label /\ f \in Config
  BY <1>2, ConfigTypes DEF StoreInv, Label
<1>4. at' \in [Task -> Label] /\ at'["upload"] = "read" /\ at'["loop"] = at["loop"]
  BY <1>1, <1>3, GotoEffect, LoopTask
<1>5. uploads' \in 0 .. MaxUploads
  BY <1>1, <1>3, TypeUnfolded, BoundAssumption
<1>6. spoilt' \in BOOLEAN
  BY <1>1, Zenon
<1>7. file' \in {<<>>} \cup {<<g>> : g \in File} /\ kept' \in Config
  BY <1>2, <1>3
<1>8. TypeOK'
  BY <1>1, <1>3, <1>4, <1>5, <1>6, <1>7, TypeUnfolded, TypeUnfoldedNext, Zenon
<1>9. file' # <<>> /\ Head(file') = f
  BY <1>2, OneHead
<1>10. FileInv'
  BY <1>2, <1>9 DEF FileInv
<1>11. BootInv'
  BY <1>1, <1>4, UploadBoot
<1>12. SoundInv'
  <2> SUFFICES ASSUME ~spoilt' PROVE SoundInv'
    BY DEF SoundInv
  <2>1. Alone("upload")
    BY <1>1
  <2>2. Sound("upload")'
    BY <1>4, <1>9 DEF Sound
  <2> QED BY <1>1, <1>3, <2>1, <2>2, LoopTask, Settles
<1> QED BY <1>8, <1>10, <1>11, <1>12 DEF StoreInv

LEMMA InitStore == Init => StoreInv
<1> SUFFICES ASSUME Init PROVE StoreInv
  OBVIOUS
<1>1. TypeOK
  BY InitTyped
<1>2. at["loop"] = "read" /\ at["upload"] = "idle" /\ ~booted /\ config = Zero
  BY LoopTask DEF Init
<1>3. (file # <<>> \/ spoilt) /\ FileInv
  <2>1. CASE \E f \in File : (f.version = Older => ~f.timers) /\ file = <<f>> /\ kept = f /\ spoilt = FALSE
    <3>1. PICK f \in File : (f.version = Older => ~f.timers) /\ file = <<f>> /\ kept = f
      BY <2>1
    <3>2. file # <<>> /\ Head(file) = f
      BY <3>1, OneHead
    <3> QED BY <3>1, <3>2 DEF FileInv
  <2>2. CASE file = <<>> /\ kept = InitValue /\ spoilt = TRUE
    BY <2>2 DEF FileInv
  <2> QED BY <2>1, <2>2 DEF Init
<1>4. BootInv
  BY <1>2 DEF BootInv, Zero
<1>5. SoundInv
  <2>1. Alone("loop") /\ (~spoilt => Sound("loop"))
    BY <1>2, <1>3, LoopTask DEF Alone, Sound
  <2> QED BY <1>2, <2>1, LoopTask DEF SoundInv
<1> QED BY <1>1, <1>3, <1>4, <1>5 DEF StoreInv

LEMMA StepStore == StoreInv /\ [Next]_vars => StoreInv'
<1> SUFFICES ASSUME StoreInv, [Next]_vars PROVE StoreInv'
  OBVIOUS
<1>1. ASSUME NEW t \in Task, Save(t) PROVE StoreInv'
  BY <1>1, SerialiseSound, RemoveSound, WriteSound, WriteFailsSound DEF Save
<1>2. ASSUME NEW t \in Task, Load(t) PROVE StoreInv'
  BY <1>2, ReadSound, FillBodySound, FillTimersSound, HashInitSound DEF Load
<1>3. ASSUME Restart PROVE StoreInv'
  <2>1. failures \in 0 .. MaxFailures
    BY DEF StoreInv, TypeOK
  <2> QED BY <1>3, <2>1, RebootSound DEF Restart, counts
<1>4. ASSUME Crash PROVE StoreInv'
  <2>1. failures' \in 0 .. MaxFailures
    BY <1>4, BoundAssumption DEF Crash, StoreInv, TypeOK
  <2> QED BY <1>4, <2>1, RebootSound DEF Crash
<1>5. CASE UNCHANGED vars
  <2>1. /\ config' = config /\ hashOld' = hashOld /\ file' = file /\ at' = at /\ doc' = doc
        /\ booted' = booted /\ restart' = restart /\ setupMode' = setupMode /\ unseen' = unseen
        /\ kept' = kept /\ spoilt' = spoilt /\ edits' = edits /\ uploads' = uploads
        /\ failures' = failures
    BY <1>5 DEF vars
  <2>2. TypeOK'
    BY <2>1, TypeUnfolded, TypeUnfoldedNext, Zenon DEF StoreInv
  <2>3. FileInv' /\ BootInv'
    BY <2>1 DEF StoreInv, FileInv, BootInv
  <2>4. SoundInv'
    BY <2>1 DEF StoreInv, SoundInv, Sound, Alone, Rested
  <2> QED BY <2>2, <2>3, <2>4 DEF StoreInv
<1> QED
  BY <1>1, <1>2, <1>3, <1>4, <1>5, FinalCheckSound, EditSound, ConfigCyclicSound, RestartActionSound,
     CmdConfigSound, UploadSound DEF Next, Cyclic

-----------------------------------------------------------------------------
(* What may be relied upon.                                                *)

LEMMA AlwaysStore == Spec => []StoreInv
<1> QED BY InitStore, StepStore, PTL DEF Spec

\* Every variable keeps its type, for any number of edits, uploads and failures.
THEOREM TypeCorrect == Spec => []TypeOK
<1>1. StoreInv => TypeOK
  BY DEF StoreInv
<1> QED BY <1>1, AlwaysStore, PTL

\* No change is taken for saved that is not: at rest the file holds what the hash was
\* made of (configCyclic and configHashInit, lines 191-211).
THEOREM NothingForgotten == Spec => []NothingUnsaved
<1>1. StoreInv => NothingUnsaved
  <2> SUFFICES ASSUME StoreInv, Looping, at["upload"] = "idle", ~spoilt, ~unseen, config = hashOld
               PROVE  file = <<Image(config)>>
    BY DEF NothingUnsaved
  <2>1. \A t \in Task : at[t] = "idle"
    BY LoopTask DEF Looping
  <2> QED BY <2>1 DEF StoreInv, SoundInv, Rested
<1> QED BY <1>1, AlwaysStore, PTL

\* A restart finds what was saved or uploaded last, whatever power failure came
\* before, except one in a write (configLoadFromFile, lines 461-652).
THEOREM FoundAgain == Spec => []RestartFindsKept
<1>1. StoreInv => RestartFindsKept
  <2> SUFFICES ASSUME StoreInv, ~booted, at["loop"] = "hash", ~spoilt
               PROVE  config.body = kept.body /\ config.timers = kept.timers
    BY DEF RestartFindsKept
  <2>1. Sound("loop")
    BY LoopTask DEF StoreInv, SoundInv
  <2>2. file # <<>> /\ config.body = Head(file).body
    BY <2>1 DEF Sound
  <2>3. config.timers = Head(file).timers
    BY <2>2 DEF StoreInv, BootInv
  <2> QED BY <2>2, <2>3 DEF StoreInv, FileInv
<1> QED BY <1>1, AlwaysStore, PTL

\* Setup mode is entered for want of a network or after a disturbed write, never
\* because a sound file was not read (lines 468-475, 654-662).
THEOREM SetupCaused == Spec => SetupModeHasCause
<1>1. StoreInv /\ [Next]_vars => [setupMode' /\ ~setupMode => spoilt' \/ kept.body = Default]_vars
  <2> SUFFICES ASSUME StoreInv, Next, setupMode', ~setupMode PROVE spoilt' \/ kept.body = Default
    OBVIOUS
  <2>1. ASSUME NEW t \in Task, Read(t) PROVE spoilt'
    <3>1. at[t] = "read" /\ Disturbs(t) /\ file = <<>>
      BY <2>1 DEF Read, Readable
    <3> QED BY <3>1, Working DEF Sound
  <2>2. ASSUME FinalCheck, ~spoilt PROVE kept.body = Default
    <3>1. at["loop"] = "check" /\ CheckedGpio = Default
      BY <2>2 DEF FinalCheck
    <3>2. config.body = Default
      BY <3>1, Bodies DEF CheckedGpio
    <3>3. file = <<Image(config)>>
      BY <2>2, <3>1, LoopTask DEF StoreInv, SoundInv, Sound
    <3>4. file # <<>> /\ Head(file).body = config.body
      <4>1. config \in Config
        BY DEF StoreInv, TypeOK
      <4> QED BY <3>3, <4>1, OneHead, ImageFields
    <3> QED BY <3>2, <3>4 DEF StoreInv, FileInv
  <2>3. Read("loop") \/ Read("upload") \/ FinalCheck
    BY LoopTask DEF Next, Save, Load, Cyclic, Serialise, Remove, Write, WriteFails, FillBody, FillTimers,
                HashInit, ConfigCyclic, Restart, Reboot, Edit, RestartAction, CmdConfig, Upload, Crash
  <2>4. FinalCheck => spoilt' = spoilt
    BY DEF FinalCheck
  <2> QED BY <2>1, <2>2, <2>3, <2>4, LoopTask
<1> QED BY <1>1, AlwaysStore, PTL DEF Spec, SetupModeHasCause
=============================================================================
