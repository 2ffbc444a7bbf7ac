---------------------------- MODULE PromptTemplates ----------------------------
(***************************************************************************)
(* How a request gets its prompt templates: PromptFactory.create() reads   *)
(* the system template, Prompt.buildMessage() the user template, both      *)
(* through readMarkdown() and the templateCache that all requests share.   *)
(* A read looks in src/prompt/templates, then in dist/src/prompt/templates.*)
(* Each action goes from one await to the next.                            *)
(*                                                                         *)
(* The file system is the environment.  Which files exist is chosen once   *)
(* ("Templates are immutable for the process lifetime"), but any read of   *)
(* an existing or missing file may fail with an error other than ENOENT.   *)
(***************************************************************************)
EXTENDS Naturals, FiniteSets, Sequences

CONSTANTS Requests,   \* the requests being served
          TaskTypes,  \* the task types they may have
          FileSets    \* the possible contents of the disk

Directories == <<"src", "dist">>

\* getPromptFiles: the templates of a task type, in the order they are read.
promptFiles ==
    [ TEXT  |-> <<"text.system.prompt.md", "text.user.prompt.md">>,
      TABLE |-> <<"table.system.prompt.md", "table.user.prompt.md">>,
      IMAGE |-> <<"image.system.prompt.md">> ]

FilesOf(t) == {promptFiles[t][i] : i \in 1..Len(promptFiles[t])}
Names == UNION {FilesOf(t) : t \in DOMAIN promptFiles}

\* A file is known by its directory and name, and stands for its own text.
File == {"src", "dist"} \X Names

ASSUME TaskTypesAssumption == TaskTypes \subseteq DOMAIN promptFiles
ASSUME FileSetsAssumption == FileSets \subseteq SUBSET File

VARIABLES files,     \* the template files on disk
          cache,     \* templateCache
          pc,        \* where the request stands
          task,      \* its task type
          candidate, \* the index in Directories of the file being read
          content,   \* the text the last read returned
          templates, \* the texts the prompt has so far
          faulted,   \* history: requests one of whose reads failed, not with ENOENT
          warm       \* history: requests begun with all their templates cached

vars == <<files, cache, pc, task, candidate, content, templates, faulted, warm>>

None == <<"none", "none">>
Untold == "untold"

\* The template request r needs next.
name(r) == promptFiles[task[r]][Len(templates[r]) + 1]

-----------------------------------------------------------------------------
(* Variants with plausible bugs, which no specification uses.               *)

Abandon(r) ==
    /\ pc' = [pc EXCEPT ![r] = "failed"]
    /\ UNCHANGED <<files, cache, task, candidate, content, templates, warm>>

\* Any failed read sends the loop to the next candidate.
ReadErrorFallsBack(r) ==
    /\ pc[r] = "reading"
    /\ faulted' = faulted \cup {r}
    /\ IF candidate[r] < Len(Directories)
       THEN /\ candidate' = [candidate EXCEPT ![r] = @ + 1]
            /\ UNCHANGED <<files, cache, pc, task, content, templates, warm>>
       ELSE Abandon(r)

\* ENOENT of the first candidate is thrown on.
ReadMissingThrows(r) ==
    /\ pc[r] = "reading"
    /\ <<Directories[candidate[r]], name(r)>> \notin files
    /\ Abandon(r)
    /\ UNCHANGED faulted

\* A cached template is read again.
HitRereads(r) ==
    /\ pc[r] = "lookup"
    /\ pc' = [pc EXCEPT ![r] = "reading"]
    /\ candidate' = [candidate EXCEPT ![r] = 1]
    /\ UNCHANGED <<files, cache, task, content, templates, faulted, warm>>

\* A request joins the read in flight, but a failed read is never taken out.
MissJoins(r) ==
    /\ pc[r] = "lookup"
    /\ cache[name(r)] = None
    /\ \A q \in Requests : pc[q] \in {"reading", "stored", "failed"} => name(q) # name(r)
    /\ pc' = [pc EXCEPT ![r] = "reading"]
    /\ candidate' = [candidate EXCEPT ![r] = 1]
    /\ UNCHANGED <<files, cache, task, content, templates, faulted, warm>>

-----------------------------------------------------------------------------
Init ==
    /\ files \in FileSets
    /\ cache = [n \in Names |-> None]
    /\ pc = [r \in Requests |-> "idle"]
    /\ task = [r \in Requests |-> Untold]
    /\ candidate = [r \in Requests |-> 1]
    /\ content = [r \in Requests |-> None]
    /\ templates = [r \in Requests |-> << >>]
    /\ faulted = {}
    /\ warm = {}

\* create() is called with a dto of type t.
Begin(r, t) ==
    /\ pc[r] = "idle"
    /\ pc' = [pc EXCEPT ![r] = "lookup"]
    /\ task' = [task EXCEPT ![r] = t]
    /\ warm' = IF \A n \in FilesOf(t) : cache[n] # None THEN warm \cup {r} ELSE warm
    /\ UNCHANGED <<files, cache, candidate, content, templates, faulted>>

\* A template is there: the next one is looked up, or the prompt is complete.
Deliver(r, text) ==
    /\ templates' = [templates EXCEPT ![r] = Append(@, text)]
    /\ pc' = [pc EXCEPT ![r] =
                 IF Len(templates[r]) + 1 = Len(promptFiles[task[r]]) THEN "built" ELSE "lookup"]

\* readMarkdown finds the template in the cache ...
Hit(r) ==
    /\ pc[r] = "lookup"
    /\ cache[name(r)] # None
    /\ Deliver(r, cache[name(r)])
    /\ UNCHANGED <<files, cache, task, candidate, content, faulted, warm>>

\* ... or begins to read the first candidate.
Miss(r) ==
    /\ pc[r] = "lookup"
    /\ cache[name(r)] = None
    /\ pc' = [pc EXCEPT ![r] = "reading"]
    /\ candidate' = [candidate EXCEPT ![r] = 1]
    /\ UNCHANGED <<files, cache, task, content, templates, faulted, warm>>

\* fs.readFile returns the file.
ReadOk(r) ==
    LET file == <<Directories[candidate[r]], name(r)>>
    IN  /\ pc[r] = "reading"
        /\ file \in files
        /\ content' = [content EXCEPT ![r] = file]
        /\ pc' = [pc EXCEPT ![r] = "stored"]
        /\ UNCHANGED <<files, cache, task, candidate, templates, faulted, warm>>

\* ENOENT: the next candidate is read, if there is one.
ReadMissing(r) ==
    /\ pc[r] = "reading"
    /\ <<Directories[candidate[r]], name(r)>> \notin files
    /\ IF candidate[r] < Len(Directories)
       THEN candidate' = [candidate EXCEPT ![r] = @ + 1] /\ UNCHANGED pc
       ELSE pc' = [pc EXCEPT ![r] = "failed"] /\ UNCHANGED candidate
    /\ UNCHANGED <<files, cache, task, content, templates, faulted, warm>>

\* Any other error (EACCES, EMFILE, EIO...) is thrown on.
ReadError(r) ==
    /\ pc[r] = "reading"
    /\ pc' = [pc EXCEPT ![r] = "failed"]
    /\ faulted' = faulted \cup {r}
    /\ UNCHANGED <<files, cache, task, candidate, content, templates, warm>>

\* readMarkdown resumes with the text, stores it and returns it.
Store(r) ==
    /\ pc[r] = "stored"
    /\ cache' = [cache EXCEPT ![name(r)] = content[r]]
    /\ Deliver(r, content[r])
    /\ UNCHANGED <<files, task, candidate, content, faulted, warm>>

Resume(r) ==
    \/ Hit(r) \/ Miss(r)
    \/ ReadOk(r) \/ ReadMissing(r) \/ ReadError(r)
    \/ Store(r)

Next == \E r \in Requests : Resume(r) \/ \E t \in TaskTypes : Begin(r, t)

Spec == Init /\ [][Next]_vars

\* Every readFile settles and every continuation runs.
FairSpec == Spec /\ \A r \in Requests : WF_vars(Resume(r))

-----------------------------------------------------------------------------
TypeOK ==
    /\ files \in SUBSET File
    /\ cache \in [Names -> File \cup {None}]
    /\ pc \in [Requests -> {"idle", "lookup", "reading", "stored", "built", "failed"}]
    /\ task \in [Requests -> TaskTypes \cup {Untold}]
    /\ candidate \in [Requests -> DOMAIN Directories]
    /\ content \in [Requests -> File \cup {None}]
    /\ templates \in [Requests -> Seq(File)]
    /\ faulted \in SUBSET Requests
    /\ warm \in SUBSET Requests

\* The file that is meant by a name: the src one, or dist's when src has none.
Meant(n) == IF <<"src", n>> \in files THEN <<"src", n>> ELSE <<"dist", n>>
Exists(n) == \E d \in {"src", "dist"} : <<d, n>> \in files

\* A prompt that is built has the templates of its own task type, the system one
\* first, each from the first directory that has it: a fault in reading src never
\* lets a (possibly outdated) dist copy slip in, not even through the cache.
PromptsAreRight ==
    \A r \in Requests : pc[r] = "built" =>
        templates[r] = [i \in DOMAIN promptFiles[task[r]] |-> Meant(promptFiles[task[r]][i])]

\* A request fails for a reason of its own: one of its own reads met a fault, or
\* a template it needs is in neither directory.  The failure of one request is
\* never cached and never spreads to another.
FailuresAreOwn ==
    \A r \in Requests : pc[r] = "failed" =>
        r \in faulted \/ \E n \in FilesOf(task[r]) : ~ Exists(n)

\* Once its templates are cached a task type no longer depends on the disk: a
\* request begun from then on cannot fail in reading them.
WarmRequestsNeverFail == \A r \in warm : pc[r] # "failed"

\* Requests that find each other reading never wait for each other: every request
\* gets its prompt or its error.
EveryRequestSettles ==
    \A r \in Requests : (pc[r] = "lookup") ~> (pc[r] \in {"built", "failed"})
==============================================================================
