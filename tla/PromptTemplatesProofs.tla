------------------------- MODULE PromptTemplatesProofs -------------------------
(* The safety of PromptTemplates for any number of requests, any task types *)
(* and any contents of the disk.  A request is followed by what it may rely *)
(* on: the texts it has so far are the right ones, a second candidate means *)
(* that the first is missing, and the cache holds right texts only.         *)
EXTENDS Integers, PromptTemplates, TLAPS

Underway == {"lookup", "reading", "stored"}

\* Every cached text is the one its name means.
CacheInv == \A n \in Names : cache[n] # None => cache[n] = Meant(n)

\* The texts request r has are those of the first of its templates.
Good(r) == \A i \in 1..Len(templates[r]) : templates[r][i] = Meant(promptFiles[task[r]][i])

RequestInv(r) ==
    /\ pc[r] # "idle" => task[r] \in TaskTypes
    /\ pc[r] = "idle" => templates[r] = << >>
    /\ Good(r)
    /\ pc[r] \in Underway => Len(templates[r]) < Len(promptFiles[task[r]])
    /\ pc[r] = "built" => Len(templates[r]) = Len(promptFiles[task[r]])
    /\ pc[r] = "reading" /\ candidate[r] = 2 => <<"src", name(r)>> \notin files
    /\ pc[r] = "stored" => content[r] = Meant(name(r)) /\ content[r] \in File
    /\ pc[r] = "failed" => r \in faulted \/ \E n \in FilesOf(task[r]) : ~ Exists(n)
    /\ r \in warm => /\ pc[r] \in {"lookup", "built"}
                     /\ \A n \in FilesOf(task[r]) : cache[n] # None

TemplatesInv == TypeOK /\ CacheInv /\ \A r \in Requests : RequestInv(r)

-----------------------------------------------------------------------------
\* Every task type has one or two templates.
LEMMA PromptFilesType ==
    ASSUME NEW t \in TaskTypes
    PROVE  /\ promptFiles[t] \in Seq(FilesOf(t))
           /\ Len(promptFiles[t]) \in {1, 2}
           /\ FilesOf(t) \subseteq Names
<1>1. t \in {"TEXT", "TABLE", "IMAGE"}
  BY TaskTypesAssumption DEF promptFiles
<1>2. FilesOf(t) \subseteq Names
  BY <1>1 DEF Names, promptFiles
<1>3. Len(promptFiles[t]) \in {1, 2}
  BY <1>1 DEF promptFiles
<1>4. promptFiles[t] \in Seq(FilesOf(t))
  <2>1. CASE t = "TEXT"
    BY <2>1 DEF promptFiles, FilesOf
  <2>2. CASE t = "TABLE"
    BY <2>2 DEF promptFiles, FilesOf
  <2>3. CASE t = "IMAGE"
    BY <2>3 DEF promptFiles, FilesOf
  <2> QED BY <1>1, <2>1, <2>2, <2>3
<1> QED BY <1>2, <1>3, <1>4

\* The next template of a request that is not done is one of its task type's.
LEMMA NameType ==
    ASSUME TypeOK, NEW r \in Requests, RequestInv(r), pc[r] \in Underway
    PROVE  /\ name(r) \in FilesOf(task[r])
           /\ name(r) \in Names
           /\ task[r] \in TaskTypes
           /\ name(r) = promptFiles[task[r]][Len(templates[r]) + 1]
           /\ Len(templates[r]) \in Nat
<1>1. task[r] \in TaskTypes /\ Len(templates[r]) < Len(promptFiles[task[r]])
  BY DEF RequestInv, Underway
<1>2. Len(templates[r]) \in Nat
  BY DEF TypeOK
<1>3. Len(templates[r]) + 1 \in 1..Len(promptFiles[task[r]])
  BY <1>1, <1>2, PromptFilesType
<1>4. promptFiles[task[r]][Len(templates[r]) + 1] \in FilesOf(task[r])
  BY <1>1, <1>3 DEF FilesOf
<1> QED BY <1>1, <1>2, <1>4, PromptFilesType DEF name

LEMMA NoneIsNoFile == None \notin File
BY DEF None, File

\* What an action leaves alone of a request leaves the request alone.
LEMMA OthersKeep ==
    ASSUME NEW q \in Requests, RequestInv(q), TypeOK,
           pc'[q] = pc[q], task'[q] = task[q], candidate'[q] = candidate[q],
           content'[q] = content[q], templates'[q] = templates[q], files' = files,
           q \in faulted => q \in faulted', q \in warm' => q \in warm,
           \A n \in Names : cache[n] # None => cache'[n] # None
    PROVE  RequestInv(q)'
<1>1. q \in warm => task[q] \in TaskTypes
  BY DEF RequestInv
<1>2. q \in warm' => \A n \in FilesOf(task[q]) : cache'[n] # None
  BY <1>1, PromptFilesType DEF RequestInv
<1> QED
  BY <1>2 DEF RequestInv, Good, name, Meant, Exists, FilesOf

-----------------------------------------------------------------------------
LEMMA InitEstablishes == Init => TemplatesInv
<1> SUFFICES ASSUME Init PROVE TemplatesInv
  OBVIOUS
<1>1. TypeOK
  BY FileSetsAssumption DEF Init, TypeOK, Directories
<1>2. CacheInv
  BY DEF Init, CacheInv
<1>3. \A r \in Requests : RequestInv(r)
  BY DEF Init, RequestInv, Good, Underway
<1> QED BY <1>1, <1>2, <1>3 DEF TemplatesInv

LEMMA BeginPreserves ==
    ASSUME TemplatesInv, NEW r \in Requests, NEW t \in TaskTypes, Begin(r, t)
    PROVE  TemplatesInv'
<1> USE DEF Begin
<1>1. TypeOK'
  BY DEF TemplatesInv, TypeOK
<1>2. CacheInv'
  BY DEF TemplatesInv, CacheInv, Meant
<1>3. RequestInv(r)'
  <2>1. templates[r] = << >> /\ RequestInv(r)
    BY DEF TemplatesInv, RequestInv
  <2>2. pc'[r] = "lookup" /\ task'[r] = t /\ templates'[r] = << >>
    BY <2>1 DEF TemplatesInv, TypeOK
  <2>3. r \notin warm
    BY <2>1 DEF RequestInv
  <2>4. r \in warm' => \A n \in FilesOf(t) : cache'[n] # None
    BY <2>3
  <2>5. Len(templates'[r]) = 0 /\ 0 < Len(promptFiles[t])
    BY <2>2, PromptFilesType
  <2>6. Good(r)'
    BY <2>5 DEF Good
  <2>7. (r \in warm => /\ pc[r] \in {"lookup", "built"}
                       /\ \A n \in FilesOf(task[r]) : cache[n] # None)'
    BY <2>2, <2>4 DEF FilesOf
  <2> QED BY <2>2, <2>5, <2>6, <2>7 DEF RequestInv, Underway
<1>4. \A q \in Requests \ {r} : RequestInv(q)'
  <2> SUFFICES ASSUME NEW q \in Requests \ {r} PROVE RequestInv(q)'
    OBVIOUS
  <2> QED BY OthersKeep DEF TemplatesInv, TypeOK
<1> QED BY <1>1, <1>2, <1>3, <1>4 DEF TemplatesInv

\* A request that gets the right next text has the right texts.
LEMMA DeliverKeeps ==
    ASSUME TypeOK, NEW r \in Requests, RequestInv(r), pc[r] \in Underway,
           Deliver(r, Meant(name(r))), Meant(name(r)) \in File,
           files' = files, task' = task, warm' = warm,
           r \in warm => \A n \in FilesOf(task[r]) : cache'[n] # None
    PROVE  /\ RequestInv(r)'
           /\ templates' \in [Requests -> Seq(File)]
           /\ pc' \in [Requests -> {"idle", "lookup", "reading", "stored", "built", "failed"}]
           /\ \A q \in Requests \ {r} : pc'[q] = pc[q] /\ templates'[q] = templates[q]
<1>1. PICK k \in Nat : k = Len(templates[r])
  BY DEF TypeOK
<1>2. /\ task[r] \in TaskTypes /\ k < Len(promptFiles[task[r]])
      /\ name(r) = promptFiles[task[r]][k + 1]
  BY <1>1, NameType DEF RequestInv
<1>3. templates'[r] = Append(templates[r], Meant(name(r)))
  BY DEF Deliver, TypeOK
<1>4. /\ templates[r] \in Seq(File)
      /\ Len(templates'[r]) = k + 1
      /\ \A i \in 1..k : templates'[r][i] = templates[r][i]
      /\ templates'[r][k + 1] = Meant(name(r))
  BY <1>1, <1>3 DEF TypeOK
<1>5. \A i \in 1..(k + 1) : templates'[r][i] = Meant(promptFiles[task[r]][i])
  <2> SUFFICES ASSUME NEW i \in 1..(k + 1)
               PROVE  templates'[r][i] = Meant(promptFiles[task[r]][i])
    OBVIOUS
  <2>1. CASE i \in 1..k
    BY <2>1, <1>1, <1>4 DEF RequestInv, Good
  <2>2. CASE i = k + 1
    BY <2>2, <1>2, <1>4
  <2> QED BY <2>1, <2>2
<1>6. Good(r)'
  BY <1>4, <1>5 DEF Good, Meant
<1>7. pc'[r] = IF k + 1 = Len(promptFiles[task[r]]) THEN "built" ELSE "lookup"
  BY <1>1 DEF Deliver, TypeOK
<1>8. Len(promptFiles[task[r]]) \in Nat
  BY <1>2, PromptFilesType
<1>9. /\ pc'[r] = "built" => Len(templates'[r]) = Len(promptFiles[task[r]])
      /\ pc'[r] = "lookup" => Len(templates'[r]) < Len(promptFiles[task[r]])
      /\ pc'[r] \in {"lookup", "built"}
  BY <1>2, <1>4, <1>7, <1>8
<1>10. RequestInv(r)'
  BY <1>2, <1>6, <1>9 DEF RequestInv, Underway, FilesOf
<1>11. templates' \in [Requests -> Seq(File)]
  BY DEF Deliver, TypeOK
<1>12. pc' \in [Requests -> {"idle", "lookup", "reading", "stored", "built", "failed"}]
  BY DEF Deliver, TypeOK
<1> QED BY <1>10, <1>11, <1>12 DEF Deliver, TypeOK

LEMMA HitPreserves ==
    ASSUME TemplatesInv, NEW r \in Requests, Hit(r)
    PROVE  TemplatesInv'
<1>1. pc[r] \in Underway /\ RequestInv(r) /\ TypeOK
  BY DEF Hit, Underway, TemplatesInv
<1>2. name(r) \in Names
  BY <1>1, NameType
<1>3. cache[name(r)] = Meant(name(r)) /\ cache[name(r)] \in File
  BY <1>2 DEF Hit, TemplatesInv, CacheInv, TypeOK
<1>4. Deliver(r, Meant(name(r))) /\ Meant(name(r)) \in File
  BY <1>3 DEF Hit
<1>5. /\ RequestInv(r)'
      /\ templates' \in [Requests -> Seq(File)]
      /\ pc' \in [Requests -> {"idle", "lookup", "reading", "stored", "built", "failed"}]
      /\ \A q \in Requests \ {r} : pc'[q] = pc[q] /\ templates'[q] = templates[q]
  BY <1>1, <1>4, DeliverKeeps DEF Hit, RequestInv
<1>6. TypeOK'
  BY <1>1, <1>5 DEF Hit, TypeOK
<1>7. CacheInv'
  BY DEF Hit, TemplatesInv, CacheInv, Meant
<1>8. \A q \in Requests \ {r} : RequestInv(q)'
  BY <1>1, <1>5, OthersKeep DEF Hit, TemplatesInv
<1> QED BY <1>5, <1>6, <1>7, <1>8 DEF TemplatesInv

\* A request that is not warm and moves on to reading or to failing keeps its texts.
LEMMA MissPreserves ==
    ASSUME TemplatesInv, NEW r \in Requests, Miss(r)
    PROVE  TemplatesInv'
<1>1. pc[r] \in Underway /\ RequestInv(r) /\ TypeOK
  BY DEF Miss, Underway, TemplatesInv
<1>2. r \notin warm
  BY <1>1, NameType DEF Miss, RequestInv
<1>3. TypeOK'
  BY <1>1 DEF Miss, TypeOK, Directories
<1>4. CacheInv'
  BY DEF Miss, TemplatesInv, CacheInv, Meant
<1>5. pc'[r] = "reading" /\ candidate'[r] = 1
  BY <1>1 DEF Miss, TypeOK
<1>6. RequestInv(r)'
  <2>1. /\ templates' = templates /\ task' = task /\ files' = files
        /\ warm' = warm /\ cache' = cache
    BY DEF Miss
  <2>2. Good(r)'
    BY <1>1, <2>1 DEF RequestInv, Good, Meant
  <2>3. pc[r] = "lookup"
    BY DEF Miss
  <2> QED BY <1>1, <1>2, <1>5, <2>1, <2>2, <2>3 DEF RequestInv, Underway
<1>7. \A q \in Requests \ {r} : RequestInv(q)'
  <2> SUFFICES ASSUME NEW q \in Requests \ {r} PROVE RequestInv(q)'
    OBVIOUS
  <2> QED BY <1>1, OthersKeep DEF Miss, TemplatesInv, TypeOK
<1> QED BY <1>3, <1>4, <1>6, <1>7 DEF TemplatesInv

LEMMA ReadOkPreserves ==
    ASSUME TemplatesInv, NEW r \in Requests, ReadOk(r)
    PROVE  TemplatesInv'
<1>1. pc[r] \in Underway /\ pc[r] = "reading" /\ RequestInv(r) /\ TypeOK
  BY DEF ReadOk, Underway, TemplatesInv
<1>2. candidate[r] \in {1, 2}
  BY <1>1 DEF TypeOK, Directories
<1>3. PICK file \in files : /\ file = <<Directories[candidate[r]], name(r)>>
                            /\ content' = [content EXCEPT ![r] = file]
  BY DEF ReadOk
<1>4. file \in File
  BY <1>1 DEF TypeOK
<1>5. file = Meant(name(r))
  <2>1. CASE candidate[r] = 1
    BY <2>1, <1>3 DEF Directories, Meant
  <2>2. CASE candidate[r] = 2
    <3>1. <<"src", name(r)>> \notin files
      BY <2>2, <1>1 DEF RequestInv
    <3> QED BY <2>2, <3>1, <1>3 DEF Directories, Meant
  <2> QED BY <1>2, <2>1, <2>2
<1>6. TypeOK'
  BY <1>1, <1>3, <1>4 DEF ReadOk, TypeOK
<1>7. CacheInv'
  BY DEF ReadOk, TemplatesInv, CacheInv, Meant
<1>8. pc'[r] = "stored" /\ content'[r] = file
  BY <1>1, <1>3 DEF ReadOk, TypeOK
<1>9. r \notin warm
  BY <1>1 DEF RequestInv
<1>10. /\ templates' = templates /\ task' = task /\ files' = files /\ warm' = warm
       /\ faulted' = faulted
  BY DEF ReadOk
<1>11. content'[r] = Meant(name(r))' /\ content'[r] \in File
  BY <1>4, <1>5, <1>8, <1>10 DEF Meant, name
<1>12. RequestInv(r)'
  BY <1>1, <1>8, <1>9, <1>10, <1>11 DEF RequestInv, Good, Meant, Underway
<1>13. \A q \in Requests \ {r} : RequestInv(q)'
  <2> SUFFICES ASSUME NEW q \in Requests \ {r} PROVE RequestInv(q)'
    OBVIOUS
  <2> QED BY <1>1, OthersKeep DEF ReadOk, TemplatesInv, TypeOK
<1> QED BY <1>6, <1>7, <1>12, <1>13 DEF TemplatesInv

LEMMA ReadMissingPreserves ==
    ASSUME TemplatesInv, NEW r \in Requests, ReadMissing(r)
    PROVE  TemplatesInv'
<1>1. pc[r] \in Underway /\ pc[r] = "reading" /\ RequestInv(r) /\ TypeOK
  BY DEF ReadMissing, Underway, TemplatesInv
<1>2. candidate[r] \in {1, 2} /\ Len(Directories) = 2
  BY <1>1 DEF TypeOK, Directories
<1>3. r \notin warm
  BY <1>1 DEF RequestInv
<1>4. /\ templates' = templates /\ task' = task /\ files' = files /\ warm' = warm
      /\ faulted' = faulted /\ content' = content /\ cache' = cache
  BY DEF ReadMissing
<1>5. TypeOK'
  <2>1. candidate' \in [Requests -> DOMAIN Directories]
    <3>1. DOMAIN Directories = {1, 2}
      BY DEF Directories
    <3>2. CASE candidate[r] = 1
      BY <1>1, <1>2, <3>1, <3>2 DEF ReadMissing, TypeOK
    <3>3. CASE candidate[r] = 2
      BY <1>1, <1>2, <3>3 DEF ReadMissing, TypeOK
    <3> QED BY <1>2, <3>2, <3>3
  <2>2. pc' \in [Requests -> {"idle", "lookup", "reading", "stored", "built", "failed"}]
    BY <1>1 DEF ReadMissing, TypeOK
  <2> QED BY <1>1, <1>4, <2>1, <2>2 DEF TypeOK
<1>6. CacheInv'
  BY <1>4 DEF TemplatesInv, CacheInv, Meant
<1>7. RequestInv(r)'
  <2>1. CASE candidate[r] = 1
    <3>1. pc'[r] = "reading" /\ candidate'[r] = 2
      BY <2>1, <1>1, <1>2 DEF ReadMissing, TypeOK
    <3>2. <<"src", name(r)>> \notin files
      BY <2>1 DEF ReadMissing, Directories
    <3> QED
      BY <1>1, <1>3, <1>4, <3>1, <3>2 DEF RequestInv, Good, Meant, Underway, name
  <2>2. CASE candidate[r] = 2
    <3>1. pc'[r] = "failed"
      BY <2>2, <1>1, <1>2 DEF ReadMissing, TypeOK
    <3>2. <<"src", name(r)>> \notin files /\ <<"dist", name(r)>> \notin files
      BY <2>2, <1>1 DEF ReadMissing, Directories, RequestInv
    <3>3. \E n \in FilesOf(task[r]) : ~ Exists(n)
      BY <3>2, <1>1, NameType DEF Exists
    <3>4. (\E n \in FilesOf(task[r]) : ~ Exists(n))'
      BY <3>3, <1>4 DEF Exists, FilesOf
    <3> QED
      BY <1>1, <1>3, <1>4, <3>1, <3>4 DEF RequestInv, Good, Meant, Underway
  <2> QED BY <1>2, <2>1, <2>2
<1>8. \A q \in Requests \ {r} : RequestInv(q)'
  <2> SUFFICES ASSUME NEW q \in Requests \ {r} PROVE RequestInv(q)'
    OBVIOUS
  <2>1. pc'[q] = pc[q] /\ candidate'[q] = candidate[q]
    BY <1>1, <1>2 DEF ReadMissing, TypeOK
  <2> QED BY <1>1, <1>4, <2>1, OthersKeep DEF TemplatesInv
<1> QED BY <1>5, <1>6, <1>7, <1>8 DEF TemplatesInv

LEMMA ReadErrorPreserves ==
    ASSUME TemplatesInv, NEW r \in Requests, ReadError(r)
    PROVE  TemplatesInv'
<1>1. pc[r] = "reading" /\ RequestInv(r) /\ TypeOK
  BY DEF ReadError, TemplatesInv
<1>2. r \notin warm
  BY <1>1 DEF RequestInv
<1>3. TypeOK'
  BY <1>1 DEF ReadError, TypeOK
<1>4. CacheInv'
  BY DEF ReadError, TemplatesInv, CacheInv, Meant
<1>5. pc'[r] = "failed" /\ r \in faulted'
  BY <1>1 DEF ReadError, TypeOK
<1>6. RequestInv(r)'
  BY <1>1, <1>2, <1>5 DEF ReadError, RequestInv, Good, Meant, Underway
<1>7. \A q \in Requests \ {r} : RequestInv(q)'
  <2> SUFFICES ASSUME NEW q \in Requests \ {r} PROVE RequestInv(q)'
    OBVIOUS
  <2> QED BY <1>1, OthersKeep DEF ReadError, TemplatesInv, TypeOK
<1> QED BY <1>3, <1>4, <1>6, <1>7 DEF TemplatesInv

LEMMA StorePreserves ==
    ASSUME TemplatesInv, NEW r \in Requests, Store(r)
    PROVE  TemplatesInv'
<1>1. pc[r] \in Underway /\ pc[r] = "stored" /\ RequestInv(r) /\ TypeOK
  BY DEF Store, Underway, TemplatesInv
<1>2. name(r) \in Names
  BY <1>1, NameType
<1>3. content[r] = Meant(name(r)) /\ content[r] \in File
  BY <1>1 DEF RequestInv
<1>4. cache' = [cache EXCEPT ![name(r)] = Meant(name(r))]
  BY <1>3 DEF Store
<1>5. Deliver(r, Meant(name(r))) /\ Meant(name(r)) \in File
  BY <1>3 DEF Store
<1>6. r \notin warm
  BY <1>1 DEF RequestInv
<1>7. /\ RequestInv(r)'
      /\ templates' \in [Requests -> Seq(File)]
      /\ pc' \in [Requests -> {"idle", "lookup", "reading", "stored", "built", "failed"}]
      /\ \A q \in Requests \ {r} : pc'[q] = pc[q] /\ templates'[q] = templates[q]
  BY <1>1, <1>5, <1>6, DeliverKeeps DEF Store
<1>8. cache' \in [Names -> File \cup {None}]
  BY <1>1, <1>2, <1>4, <1>5 DEF TypeOK
<1>9. TypeOK'
  BY <1>1, <1>7, <1>8 DEF Store, TypeOK
<1>10. \A n \in Names : cache'[n] = IF n = name(r) THEN Meant(n) ELSE cache[n]
  BY <1>1, <1>2, <1>4 DEF TypeOK
<1>11. CacheInv'
  BY <1>10 DEF Store, TemplatesInv, CacheInv, Meant
<1>12. \A n \in Names : cache[n] # None => cache'[n] # None
  BY <1>5, <1>10, NoneIsNoFile
<1>13. \A q \in Requests \ {r} : RequestInv(q)'
  BY <1>1, <1>7, <1>12, OthersKeep DEF Store, TemplatesInv
<1> QED BY <1>7, <1>9, <1>11, <1>13 DEF TemplatesInv

LEMMA StutterPreserves == ASSUME TemplatesInv, UNCHANGED vars PROVE TemplatesInv'
<1>1. TypeOK' /\ CacheInv'
  BY DEF vars, TemplatesInv, TypeOK, CacheInv, Meant
<1>2. \A q \in Requests : RequestInv(q)'
  BY OthersKeep DEF vars, TemplatesInv
<1> QED BY <1>1, <1>2 DEF TemplatesInv

-----------------------------------------------------------------------------
\* The inductive invariant of the requests and the cache they share.
THEOREM TemplatesInvariant == Spec => []TemplatesInv
<1>1. TemplatesInv /\ [Next]_vars => TemplatesInv'
  BY BeginPreserves, HitPreserves, MissPreserves, ReadOkPreserves, ReadMissingPreserves,
     ReadErrorPreserves, StorePreserves, StutterPreserves DEF Next, Resume
<1> QED BY <1>1, InitEstablishes, PTL DEF Spec

\* The state of a request is always a proper one.
THEOREM TypeCorrect == Spec => []TypeOK
<1>1. TemplatesInv => TypeOK
  BY DEF TemplatesInv
<1> QED BY <1>1, TemplatesInvariant, PTL

\* No prompt is built from the templates of another task, in another order, or from a
\* dist copy of a template that src has, whatever requests and faults interleave.
THEOREM RightPrompts == Spec => []PromptsAreRight
<1>1. TemplatesInv => PromptsAreRight
  <2> SUFFICES ASSUME TemplatesInv, NEW r \in Requests, pc[r] = "built"
               PROVE  templates[r] =
                        [i \in DOMAIN promptFiles[task[r]] |-> Meant(promptFiles[task[r]][i])]
    BY DEF PromptsAreRight
  <2>1. RequestInv(r) /\ templates[r] \in Seq(File)
    BY DEF TemplatesInv, TypeOK
  <2>2. task[r] \in TaskTypes /\ Len(templates[r]) = Len(promptFiles[task[r]])
    BY <2>1 DEF RequestInv
  <2>3. DOMAIN templates[r] = DOMAIN promptFiles[task[r]]
    BY <2>1, <2>2, PromptFilesType
  <2>4. \A i \in DOMAIN templates[r] : templates[r][i] = Meant(promptFiles[task[r]][i])
    BY <2>1 DEF RequestInv, Good
  <2> QED BY <2>1, <2>3, <2>4
<1> QED BY <1>1, TemplatesInvariant, PTL

\* A request fails for a fault of its own reads or a missing template only.
THEOREM OwnFailures == Spec => []FailuresAreOwn
<1>1. TemplatesInv => FailuresAreOwn
  BY DEF TemplatesInv, RequestInv, FailuresAreOwn
<1> QED BY <1>1, TemplatesInvariant, PTL

\* A request that finds all its templates cached never fails in reading them.
THEOREM WarmOnesSucceed == Spec => []WarmRequestsNeverFail
<1>1. TemplatesInv => WarmRequestsNeverFail
  BY DEF TemplatesInv, TypeOK, RequestInv, WarmRequestsNeverFail
<1> QED BY <1>1, TemplatesInvariant, PTL
-----------------------------------------------------------------------------
(* How far a request is from its prompt.                                    *)

\* The templates it still needs.
Missing(r) == Len(promptFiles[task[r]]) - Len(templates[r])

\* Each of them takes at most a lookup, two reads and a store.
StepsLeft(r) ==
    CASE pc[r] = "idle"              -> 9
      [] pc[r] = "lookup"            -> 4 * Missing(r)
      [] pc[r] = "reading"           -> 4 * Missing(r) - candidate[r]
      [] pc[r] = "stored"            -> 4 * Missing(r) - 3
      [] pc[r] \in {"built", "failed"} -> 0

StepsBounded ==
    \A r \in Requests :
        /\ StepsLeft(r) \in 0..9
        /\ StepsLeft(r) = 0 <=> pc[r] \in {"built", "failed"}

Progresses(r) == Resume(r) \/ \E t \in TaskTypes : Begin(r, t)

\* Every step of a request brings it closer to its prompt or its error, and no step of
\* another request takes it further away, whatever they read, store or fail in.
NothingSetsBack ==
    \A r \in Requests :
        /\ StepsLeft(r)' <= StepsLeft(r)
        /\ Progresses(r) => StepsLeft(r)' < StepsLeft(r)

\* Requests that read the same template at once store it one after the other, and the
\* later ones change nothing.
CacheIsStable == \A n \in Names : cache[n] # None => cache'[n] = cache[n]

LEMMA OneOrTwo ==
    ASSUME NEW n \in Nat, NEW m \in {1, 2}, n < m
    PROVE  m - n \in {1, 2}
OBVIOUS

LEMMA FourEach ==
    ASSUME NEW m \in {1, 2}, NEW i \in {1, 2}
    PROVE  /\ 4 * m \in 1..9 /\ 4 * m - i \in 1..9 /\ 4 * m - 3 \in 1..9
           /\ 4 * m >= 4 * m - 3
OBVIOUS

LEMMA MissingType ==
    ASSUME TypeOK, NEW r \in Requests, RequestInv(r), pc[r] \in Underway
    PROVE  /\ Missing(r) \in {1, 2}
           /\ Missing(r) = Len(promptFiles[task[r]]) - Len(templates[r])
           /\ Len(templates[r]) \in Nat /\ Len(promptFiles[task[r]]) \in {1, 2}
<1>1. Len(templates[r]) \in Nat /\ Len(templates[r]) < Len(promptFiles[task[r]])
  BY DEF TypeOK, RequestInv
<1>2. Len(promptFiles[task[r]]) \in {1, 2}
  BY PromptFilesType DEF RequestInv, Underway
<1>3. Missing(r) = Len(promptFiles[task[r]]) - Len(templates[r])
  BY DEF Missing
<1>4. Missing(r) \in {1, 2}
  BY <1>1, <1>2, <1>3, OneOrTwo
<1> QED BY <1>1, <1>2, <1>3, <1>4

LEMMA StepsLeftOf ==
    ASSUME TypeOK, NEW r \in Requests, RequestInv(r)
    PROVE  /\ pc[r] = "idle" => StepsLeft(r) = 9
           /\ pc[r] = "lookup" => StepsLeft(r) = 4 * Missing(r)
           /\ pc[r] = "reading" => /\ StepsLeft(r) = 4 * Missing(r) - candidate[r]
                                   /\ candidate[r] \in {1, 2}
           /\ pc[r] = "stored" => StepsLeft(r) = 4 * Missing(r) - 3
           /\ pc[r] \in {"built", "failed"} => StepsLeft(r) = 0
           /\ StepsLeft(r) \in 0..9
           /\ pc[r] \notin {"built", "failed"} => StepsLeft(r) > 0
<1>1. pc[r] \in {"idle", "lookup", "reading", "stored", "built", "failed"}
      /\ candidate[r] \in {1, 2}
  BY DEF TypeOK, Directories
<1>2. /\ pc[r] = "idle" => StepsLeft(r) = 9
      /\ pc[r] = "lookup" => StepsLeft(r) = 4 * Missing(r)
      /\ pc[r] = "reading" => StepsLeft(r) = 4 * Missing(r) - candidate[r]
      /\ pc[r] = "stored" => StepsLeft(r) = 4 * Missing(r) - 3
      /\ pc[r] \in {"built", "failed"} => StepsLeft(r) = 0
  BY DEF StepsLeft
<1>3. CASE pc[r] \in Underway
  <2>1. Missing(r) \in {1, 2}
    BY <1>3, MissingType
  <2>2. StepsLeft(r) \in 1..9
    BY <1>1, <1>2, <1>3, <2>1, FourEach DEF Underway
  <2> QED BY <1>1, <1>2, <1>3, <2>2 DEF Underway
<1>4. CASE pc[r] \notin Underway
  BY <1>1, <1>2, <1>4 DEF Underway
<1> QED BY <1>1, <1>2, <1>3, <1>4

\* A template that is there is one less to come.
LEMMA DeliverProgresses ==
    ASSUME TemplatesInv, NEW r \in Requests, pc[r] \in Underway, NEW text, Deliver(r, text),
           task' = task
    PROVE  /\ pc'[r] \in {"lookup", "built"}
           /\ pc'[r] = "built" => StepsLeft(r)' = 0
           /\ pc'[r] = "lookup" => StepsLeft(r)' = 4 * Missing(r) - 4
<1>1. TypeOK /\ RequestInv(r)
  BY DEF TemplatesInv
<1>2. /\ pc'[r] \in {"lookup", "built"} /\ templates'[r] = Append(templates[r], text)
      /\ task'[r] = task[r]
  BY <1>1 DEF Deliver, TypeOK
<1>3. Len(templates'[r]) = Len(templates[r]) + 1 /\ Len(templates[r]) \in Nat
  BY <1>1, <1>2 DEF TypeOK
<1>4. Missing(r)' = Missing(r) - 1 /\ Missing(r) \in {1, 2}
  BY <1>1, <1>2, <1>3, MissingType DEF Missing
<1>5. /\ pc'[r] = "built" => StepsLeft(r)' = 0
      /\ pc'[r] = "lookup" => StepsLeft(r)' = 4 * Missing(r)'
  BY DEF StepsLeft
<1> QED BY <1>2, <1>4, <1>5

\* What a step of a request does to the request itself.
LEMMA OwnStepProgresses ==
    ASSUME TemplatesInv, NEW r \in Requests, Progresses(r)
    PROVE  StepsLeft(r)' < StepsLeft(r)
<1>1. TypeOK /\ RequestInv(r)
  BY DEF TemplatesInv
<1>2. /\ pc'[r] = "lookup" => StepsLeft(r)' = 4 * Missing(r)'
      /\ pc'[r] = "reading" => StepsLeft(r)' = 4 * Missing(r)' - candidate'[r]
      /\ pc'[r] = "stored" => StepsLeft(r)' = 4 * Missing(r)' - 3
      /\ pc'[r] \in {"built", "failed"} => StepsLeft(r)' = 0
  BY DEF StepsLeft
<1>3. ASSUME NEW t \in TaskTypes, Begin(r, t) PROVE StepsLeft(r)' < StepsLeft(r)
  <2>1. pc[r] = "idle" /\ pc'[r] = "lookup" /\ task'[r] = t /\ templates'[r] = << >>
    BY <1>1, <1>3 DEF Begin, TypeOK, RequestInv
  <2>2. Missing(r)' \in {1, 2}
    BY <2>1, PromptFilesType DEF Missing
  <2> QED BY <1>1, <1>2, <2>1, <2>2, StepsLeftOf
<1>4. CASE Hit(r) \/ Store(r)
  <2>1. /\ pc[r] \in {"lookup", "stored"} /\ task' = task
        /\ \E text : Deliver(r, text)
    BY <1>4 DEF Hit, Store
  <2>2. /\ pc'[r] \in {"lookup", "built"}
        /\ pc'[r] = "built" => StepsLeft(r)' = 0
        /\ pc'[r] = "lookup" => StepsLeft(r)' = 4 * Missing(r) - 4
    BY <2>1, DeliverProgresses DEF Underway
  <2>3. StepsLeft(r) >= 4 * Missing(r) - 3 /\ Missing(r) \in {1, 2}
    <3>1. Missing(r) \in {1, 2}
      BY <1>1, <2>1, MissingType DEF Underway
    <3> QED BY <1>1, <2>1, <3>1, StepsLeftOf, FourEach
  <2> QED BY <1>1, <2>1, <2>2, <2>3, StepsLeftOf
<1>5. ASSUME pc[r] \in Underway, UNCHANGED <<task, templates>>
      PROVE  Missing(r)' = Missing(r) /\ Missing(r) \in {1, 2}
  BY <1>1, <1>5, MissingType DEF Missing
<1>6. CASE Miss(r)
  <2>1. pc[r] = "lookup" /\ pc'[r] = "reading" /\ candidate'[r] = 1
    BY <1>1, <1>6 DEF Miss, TypeOK
  <2>2. Missing(r)' = Missing(r) /\ Missing(r) \in {1, 2}
    BY <1>5, <1>6 DEF Miss, Underway
  <2> QED BY <1>1, <1>2, <2>1, <2>2, StepsLeftOf
<1>7. CASE ReadOk(r)
  <2>1. pc[r] = "reading" /\ pc'[r] = "stored"
    BY <1>1, <1>7 DEF ReadOk, TypeOK
  <2>2. Missing(r)' = Missing(r) /\ Missing(r) \in {1, 2}
    BY <1>5, <1>7 DEF ReadOk, Underway
  <2> QED BY <1>1, <1>2, <2>1, <2>2, StepsLeftOf
<1>8. CASE ReadMissing(r)
  <2>1. pc[r] = "reading" /\ \/ pc'[r] = "failed"
                             \/ pc'[r] = "reading" /\ candidate'[r] = candidate[r] + 1
    BY <1>1, <1>8 DEF ReadMissing, TypeOK
  <2>2. Missing(r)' = Missing(r) /\ Missing(r) \in {1, 2}
    BY <1>5, <1>8 DEF ReadMissing, Underway
  <2> QED BY <1>1, <1>2, <2>1, <2>2, StepsLeftOf
<1>9. CASE ReadError(r)
  <2>1. pc[r] = "reading" /\ pc'[r] = "failed"
    BY <1>1, <1>9 DEF ReadError, TypeOK
  <2> QED BY <1>1, <1>2, <2>1, StepsLeftOf
<1> QED BY <1>3, <1>4, <1>6, <1>7, <1>8, <1>9 DEF Progresses, Resume

\* What the steps of others leave alone.
LEMMA OthersAreLeftAlone ==
    ASSUME TypeOK, NEW r \in Requests, [Next]_vars, ~ Progresses(r)
    PROVE  /\ pc'[r] = pc[r] /\ task'[r] = task[r] /\ candidate'[r] = candidate[r]
           /\ templates'[r] = templates[r]
<1>1. CASE UNCHANGED vars
  BY <1>1 DEF vars
<1>2. ASSUME NEW q \in Requests, q # r, Progresses(q)
      PROVE  /\ pc'[r] = pc[r] /\ task'[r] = task[r] /\ candidate'[r] = candidate[r]
             /\ templates'[r] = templates[r]
  BY <1>2 DEF Progresses, Resume, Begin, Hit, Miss, ReadOk, ReadMissing, ReadError, Store,
              Deliver, TypeOK
<1> QED BY <1>1, <1>2 DEF Next, Progresses

\* A request takes at most 9 steps, reads and lookups, from create() to its prompt or its
\* error, whatever the disk does and however many requests read at once.
THEOREM ReadsAreBounded == Spec => []StepsBounded /\ [][NothingSetsBack]_vars
<1>1. TemplatesInv => StepsBounded
  BY StepsLeftOf DEF TemplatesInv, StepsBounded
<1>2. TemplatesInv' => StepsBounded'
  BY <1>1, PTL
<1>3. ASSUME TemplatesInv, TemplatesInv', [Next]_vars PROVE [NothingSetsBack]_vars
  <2> SUFFICES ASSUME NEW r \in Requests
               PROVE  /\ StepsLeft(r)' <= StepsLeft(r)
                      /\ Progresses(r) => StepsLeft(r)' < StepsLeft(r)
    BY DEF NothingSetsBack
  <2>1. StepsLeft(r) \in Nat /\ StepsLeft(r)' \in Nat
    BY <1>1, <1>2, <1>3 DEF StepsBounded
  <2>2. CASE Progresses(r)
    BY <1>3, <2>1, <2>2, OwnStepProgresses
  <2>3. CASE ~ Progresses(r)
    <3>1. /\ pc'[r] = pc[r] /\ task'[r] = task[r] /\ candidate'[r] = candidate[r]
          /\ templates'[r] = templates[r]
      BY <1>3, <2>3, OthersAreLeftAlone DEF TemplatesInv
    <3>2. StepsLeft(r)' = StepsLeft(r)
      BY <3>1 DEF StepsLeft, Missing
    <3> QED BY <2>1, <2>3, <3>2
  <2> QED BY <2>2, <2>3
<1> QED BY <1>1, <1>3, TemplatesInvariant, PTL DEF Spec

\* What is cached once stays as it is, however many requests store it again.
THEOREM StoresAreIdempotent == Spec => [][CacheIsStable]_vars
<1>1. ASSUME TemplatesInv, TemplatesInv', [Next]_vars PROVE [CacheIsStable]_vars
  <2> SUFFICES ASSUME NEW n \in Names, cache[n] # None PROVE cache'[n] = cache[n]
    BY DEF CacheIsStable
  <2>1. cache[n] = Meant(n) /\ files' = files
    BY <1>1 DEF TemplatesInv, CacheInv, Next, Resume, Begin, Hit, Miss, ReadOk, ReadMissing,
                ReadError, Store, vars
  <2>2. cache'[n] # None
    <3>1. ASSUME NEW r \in Requests, Store(r) PROVE cache'[n] # None
      <4>1. RequestInv(r) /\ TypeOK /\ pc[r] = "stored"
        BY <1>1, <3>1 DEF TemplatesInv, Store
      <4>2. content[r] \in File
        BY <4>1 DEF RequestInv
      <4> QED BY <3>1, <4>1, <4>2, NoneIsNoFile DEF Store, TypeOK
    <3>2. (\A r \in Requests : ~ Store(r)) => cache' = cache
      BY <1>1 DEF Next, Resume, Begin, Hit, Miss, ReadOk, ReadMissing, ReadError, vars
    <3> QED BY <3>1, <3>2
  <2>3. cache'[n] = Meant(n)'
    BY <1>1, <2>2 DEF TemplatesInv, CacheInv
  <2> QED BY <2>1, <2>3 DEF Meant
<1> QED BY <1>1, TemplatesInvariant, PTL DEF Spec
================================================================================
