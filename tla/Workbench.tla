----------------------------- MODULE Workbench -----------------------------
(***************************************************************************)
(* The PDF page of the browser (apps/frontend main.rs and worker.rs), the  *)
(* worker it starts for every job (apps/pdf-worker), and the engine's page *)
(* operations (PdfPages) that the worker calls.  The document that is      *)
(* processed again and again is PdfPages' doc: the user downloads a result *)
(* and chooses it as the next job's file.  Of a job that began before      *)
(* another's answer only the outcome is followed, not its document.        *)
(*                                                                         *)
(* Operations differ here by what the page does for them: "merge" takes    *)
(* several files, "split" returns several, "text" (extract_text) returns a *)
(* text, and "page" is any other.  Handlers see the state of the last      *)
(* rendering, and the page is rendered between two of them.                *)
(*                                                                         *)
(* The browser is external: an error event is fired when the worker's      *)
(* script does not load, and none when its promise is rejected, by a       *)
(* failed init or a panic in handle_request.                               *)
(***************************************************************************)
EXTENDS PdfPages

CONSTANTS
    MaxJobs,    \* bound: the jobs of a behaviour
    MaxFaults   \* bound: the failures of files, browser and worker

VARIABLES
    operation,  \* the operation chosen
    files,      \* how many files are chosen
    busy,       \* a job is said to run: the inputs are disabled
    error,      \* an error message is shown
    downloads,  \* the object URLs of the files to download
    urls,       \* the object URLs that exist
    jobs,       \* job -> [operation, files, since, phase], those not over
    begun,      \* how many jobs were begun
    faults

ASSUME BoundAssumption == {MaxJobs, MaxFaults} \subseteq Nat

pageVars == <<operation, files, busy, error, downloads, urls, jobs, begun, faults>>
allVars == <<vars, pageVars>>

Offered == {"merge", "split", "text", "page"}

\* reading: its files are read; posted: the worker has it; answered, refused:
\* the worker's message is on its way; failed: an error event is; unposted:
\* its worker was started and got no request; silent: nothing will come.
Phases == {"reading", "posted", "answered", "refused", "failed", "unposted", "silent"}

Outputs(j) == {<<j, n>> : n \in 1 .. (IF jobs[j].operation = "split" THEN 2 ELSE 1)}

\* Bound: the user does nothing more when no further job could be followed.
Goes == begun < MaxJobs /\ Useful

Fault == faults < MaxFaults /\ faults' = faults + 1

Over(j) == jobs' = [i \in DOMAIN jobs \ {j} |-> jobs[i]]
To(j, phase) == jobs' = [jobs EXCEPT ![j].phase = phase]

-----------------------------------------------------------------------------
(* The form *)

\* A mutant: the URLs of the results that are taken away are not revoked.
ChangeOnly(choice) ==
    /\ ~busy /\ Goes
    /\ operation' = choice
    /\ files' = 0
    /\ downloads' = {}
    /\ UNCHANGED <<vars, busy, error, urls, jobs, begun, faults>>

ChangeOperation(choice) ==
    /\ ~busy /\ Goes
    /\ operation' = choice
    /\ files' = 0
    /\ downloads' = {}
    /\ urls' = urls \ downloads
    /\ UNCHANGED <<vars, busy, error, jobs, begun, faults>>

\* The input accepts several files for a merge only.
ChooseFiles(n) ==
    /\ ~busy /\ Goes
    /\ operation # "merge" => n <= 1
    /\ files' = n
    /\ error' = FALSE
    /\ UNCHANGED <<vars, operation, busy, downloads, urls, jobs, begun, faults>>

\* The ranges, the order, the rectangle or the watermark do not parse.
Mistake ==
    /\ ~busy /\ Goes /\ files > 0
    /\ operation # "merge"
    /\ error' = TRUE
    /\ UNCHANGED <<vars, operation, files, busy, downloads, urls, jobs, begun, faults>>

Process ==
    /\ ~busy /\ Goes /\ files > 0
    /\ busy' = TRUE
    /\ error' = FALSE
    /\ urls' = urls \ downloads
    /\ downloads' = {}
    /\ begun' = begun + 1
    /\ jobs' = [j \in DOMAIN jobs \cup {begun'} |->
                   IF j = begun' THEN [operation |-> operation, files |-> files,
                                       since |-> requests, phase |-> "reading"]
                                 ELSE jobs[j]]
    /\ UNCHANGED <<vars, operation, files, faults>>

-----------------------------------------------------------------------------
(* The worker's client *)

\* The page is told that the job is over, and why.
GiveUp ==
    /\ busy' = FALSE
    /\ error' = TRUE
    /\ UNCHANGED <<vars, operation, files, downloads, urls, begun>>

\* A file cannot be read, or no worker be started.
NotStarted(j) ==
    /\ jobs[j].phase = "reading"
    /\ Fault
    /\ Over(j)
    /\ GiveUp

Post(j) ==
    /\ jobs[j].phase = "reading"
    /\ To(j, "posted")
    /\ UNCHANGED <<vars, operation, files, busy, error, downloads, urls, begun, faults>>

\* A mutant: the page stays busy with a job that was not posted.
PostFailsBusy(j) ==
    /\ jobs[j].phase = "reading"
    /\ Fault
    /\ To(j, "unposted")
    /\ error' = TRUE
    /\ UNCHANGED <<vars, operation, files, busy, downloads, urls, begun>>

\* The worker is left running with the callbacks connected.
PostFails(j) ==
    /\ jobs[j].phase = "reading"
    /\ Fault
    /\ To(j, "unposted")
    /\ GiveUp

\* Of the files in an answer, those become downloads that a URL can be made of.
OnAnswer(j) ==
    /\ jobs[j].phase = "answered"
    /\ Over(j)
    /\ busy' = FALSE
    /\ \E made \in SUBSET Outputs(j) :
          /\ IF made = Outputs(j) THEN UNCHANGED faults ELSE Fault
          /\ error' = (error \/ made # Outputs(j))
          /\ downloads' = made
          /\ urls' = urls \cup made
    /\ Forget
    /\ UNCHANGED <<operation, files, begun>>

\* A mutant: the message is not shown.
OnRefusalQuiet(j) ==
    /\ jobs[j].phase \in {"refused", "failed"}
    /\ Over(j)
    /\ busy' = FALSE
    /\ UNCHANGED <<vars, operation, files, error, downloads, urls, begun, faults>>

\* The worker says why it refused, or an error event tells that it failed.
OnRefusal(j) ==
    /\ jobs[j].phase \in {"refused", "failed"}
    /\ Over(j)
    /\ GiveUp
    /\ UNCHANGED faults

-----------------------------------------------------------------------------
(* The worker *)

\* What the engine does for a job.
Work(job) ==
    \/ job.operation = "page" /\ Edit
    \/ job.operation = "split" /\ \E range \in Ranges : Split(range)
    \/ /\ job.operation = "merge"
       /\ IF job.files = 1 THEN MergeAlone
          ELSE \E other \in Documents, before \in BOOLEAN : MergeWith(other, before)

\* Bound: documents are followed for MaxRequests requests, for fewer when
\* there are faults, and not past another job's answer.
Followed(job) ==
    /\ job.operation # "text"
    /\ job.since = requests
    /\ Useful /\ requests + faults < MaxRequests

\* handle_request.
Succeed(j) ==
    /\ jobs[j].phase = "posted"
    /\ IF Followed(jobs[j]) THEN Work(jobs[j]) ELSE UNCHANGED vars
    /\ To(j, "answered")
    /\ UNCHANGED <<operation, files, busy, error, downloads, urls, begun, faults>>

\* The request is not valid or the engine refuses it.
Refuse(j) ==
    /\ jobs[j].phase = "posted"
    /\ To(j, "refused")
    /\ UNCHANGED <<vars, operation, files, busy, error, downloads, urls, begun, faults>>

\* init fails or the engine panics: the promise is rejected and nothing sent.
FallSilent(j) ==
    /\ jobs[j].phase = "posted"
    /\ Fault
    /\ To(j, "silent")
    /\ UNCHANGED <<vars, operation, files, busy, error, downloads, urls, begun>>

\* The script does not load, of a worker that got its request or that did not.
NotLoaded(j) ==
    /\ jobs[j].phase \in {"posted", "unposted"}
    /\ Fault
    /\ To(j, "failed")
    /\ UNCHANGED <<vars, operation, files, busy, error, downloads, urls, begun>>

-----------------------------------------------------------------------------

Start ==
    /\ Init
    /\ operation = "merge"
    /\ files = 0
    /\ busy = FALSE
    /\ error = FALSE
    /\ downloads = {}
    /\ urls = {}
    /\ jobs = <<>>
    /\ begun = 0
    /\ faults = 0

Step ==
    \/ \E choice \in Offered : ChangeOperation(choice)
    \/ \E n \in 0 .. 2 : ChooseFiles(n)
    \/ Mistake
    \/ Process
    \/ \E j \in DOMAIN jobs :
          NotStarted(j) \/ Post(j) \/ PostFails(j) \/ OnAnswer(j) \/ OnRefusal(j)
             \/ Succeed(j) \/ Refuse(j) \/ FallSilent(j) \/ NotLoaded(j)

\* What was begun goes on: a promise that is settled, a worker that computes
\* and an event that was fired are come to.  Post and Refuse are possible as
\* long as a job stays where it is, so these are fair to all that may happen to
\* it there.  Nothing makes the user act.
Fairness ==
    \A j \in 1 .. MaxJobs :
        WF_allVars(j \in DOMAIN jobs /\ (Post(j) \/ Refuse(j) \/ OnAnswer(j) \/ OnRefusal(j)))

WorkbenchSpec == Start /\ [][Step]_allVars /\ Fairness

-----------------------------------------------------------------------------
(* Properties *)

\* The types of what the page keeps.
PageTypeOK ==
    /\ operation \in Offered
    /\ files \in 0 .. 2
    /\ {busy, error} \subseteq BOOLEAN
    /\ downloads \subseteq urls
    /\ urls \subseteq (1 .. MaxJobs) \X (1 .. 2)
    /\ begun \in 0 .. MaxJobs
    /\ DOMAIN jobs \subseteq 1 .. begun
    /\ \A j \in DOMAIN jobs :
          jobs[j] \in [operation : Offered, files : 1 .. 2, since : 0 .. MaxRequests, phase : Phases]
    /\ faults \in 0 .. MaxFaults
    /\ requests \in 0 .. MaxRequests

\* Every variable has its type; what is offered exists.
WorkbenchTypeOK == TypeOK /\ PageTypeOK

Running == {j \in DOMAIN jobs : jobs[j].phase # "unposted"}

\* The page is busy exactly while its one job runs, so that no second job is
\* begun, unless a job could not be posted and its worker then fails as well:
\* the callback of the job given up ends the wait for another.
OneJob == faults < 2 => Cardinality(Running) = IF busy THEN 1 ELSE 0

\* Every object URL that was made is offered or was revoked, with the same
\* exception: a job's answer replaces those of another's without revoking them.
NoUrlLeaks == faults < 2 => urls = downloads

\* A job ends with a file or a message to show, unless its worker is silent:
\* the page does not limit the time it waits.
EveryJobShown ==
    busy ~> \/ ~busy /\ (error \/ downloads # {})
            \/ \E j \in DOMAIN jobs : jobs[j].phase = "silent"

-----------------------------------------------------------------------------
(* The inductive invariant behind the theorems of WorkbenchProofs, in parts *)

\* A job without a request is one of a fault.
UnpostedInv == faults = 0 => \A j \in DOMAIN jobs : jobs[j].phase # "unposted"

\* Until the second fault the page is busy with the job that runs, and offers
\* nothing meanwhile.
BusyInv ==
    faults < 2 =>
        /\ busy => downloads = {} /\ \E j \in DOMAIN jobs : Running = {j}
        /\ ~busy => Running = {}

IInv == UnpostedInv /\ BusyInv /\ NoUrlLeaks
=============================================================================
