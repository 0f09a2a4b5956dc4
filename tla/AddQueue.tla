------------------------------- MODULE AddQueue -------------------------------
(***************************************************************************)
(* The client's background queue of words to add (hooks/useAddQueue.tsx)   *)
(* and the sense picker (hooks/useSenseFlow.ts).  The queue lives twice:   *)
(* in React's state, which changes at a render, and in jobsRef, which the  *)
(* worker reads.  React may run the updater that enqueue passes at once,   *)
(* if no update is pending, or at the next render.                         *)
(***************************************************************************)
EXTENDS Integers, Sequences

CONSTANTS
  JobIds,       \* jobs that may be enqueued, each once
  SeekWords,    \* words looked up in the picker
  MaxSeeks      \* bound: lookups of the picker

ASSUME AddAssumption == MaxSeeks \in Nat

VARIABLES
  jobs,       \* React's state: a sequence of jobs
  coming,     \* what the next render makes of it, by the updates queued for it
  updated,    \* there are such updates
  jobsRef,    \* what the worker sees
  adder,      \* the worker: "off", or the call it waits for and the job
  lookedUp,   \* how often each job was looked up
  picker,     \* the picker's state
  seeks,      \* lookups of the picker in flight
  seeksBegun  \* for the bound

addVars == <<jobs, coming, updated, jobsRef, adder, lookedUp, picker, seeks, seeksBegun>>
queueVars == <<jobs, coming, updated, jobsRef, adder, lookedUp>>
pickerVars == <<picker, seeks, seeksBegun>>

JobStatus == {"queued", "processing", "done", "error"}
Job == [id : JobIds, status : JobStatus]
AdderOff == [at |-> "off"]
Seek == [word : SeekWords, forced : BOOLEAN]

AddTypeOK ==
  /\ jobs \in Seq(Job) /\ coming \in Seq(Job) /\ jobsRef \in Seq(Job)
  /\ updated \in BOOLEAN
  /\ adder = AdderOff \/ adder \in [at : {"lookup", "add"}, job : JobIds]
  /\ lookedUp \in [JobIds -> Nat]
  /\ picker \in [visible : BOOLEAN, word : SeekWords \cup {"none"}, options : SeekWords \cup {"none"},
                 looking : BOOLEAN, confirming : BOOLEAN]
  /\ \A f \in seeks : f \in Seek
  /\ seeksBegun \in 0 .. MaxSeeks

Queued(list) == {i \in DOMAIN list : list[i].status = "queued"}
FirstQueued(list) == list[CHOOSE i \in Queued(list) : \A j \in Queued(list) : i <= j].id
Marked(list, id, status) ==
  [i \in DOMAIN list |-> IF list[i].id = id THEN [list[i] EXCEPT !.status = status] ELSE list[i]]

(* Mutant: updateJob leaves jobsRef to the next render. *)
UpdateUnseen(list, id, status) == [ref |-> list, set |-> Marked(list, id, status)]

(* updateJob writes jobsRef and hands React the whole list, so that updates *)
(* queued before it are lost.                                              *)
UpdateJob(list, id, status) == [ref |-> Marked(list, id, status), set |-> Marked(list, id, status)]

(* runWorker from the head of its loop to its next await, or its end, with *)
(* what its caller made of jobsRef and of the state.                       *)
RunWorker(list, state) ==
  \/ /\ Queued(list) = {}
     /\ adder' = AdderOff /\ jobsRef' = list /\ coming' = state
     /\ UNCHANGED lookedUp
  \/ /\ Queued(list) # {}
     /\ LET id == FirstQueued(list)
            next == UpdateJob(list, id, "processing") IN
        /\ adder' = [at |-> "lookup", job |-> id]
        /\ jobsRef' = next.ref /\ coming' = next.set
        /\ lookedUp' = [lookedUp EXCEPT ![id] = @ + 1]
-----------------------------------------------------------------------------
AddInit ==
  /\ jobs = <<>> /\ coming = <<>> /\ updated = FALSE /\ jobsRef = <<>> /\ adder = AdderOff
  /\ lookedUp = [j \in JobIds |-> 0]
  /\ picker = [visible |-> FALSE, word |-> "none", options |-> "none", looking |-> FALSE, confirming |-> FALSE]
  /\ seeks = {} /\ seeksBegun = 0

Unused == {j \in JobIds : lookedUp[j] = 0 /\ \A i \in DOMAIN coming : coming[i].id # j}

(* enqueue and enqueueMany: setJobs, then a kick of the worker, which does *)
(* nothing if it is running or if it does not see the new jobs.            *)
Enqueue(batch) ==
  LET more == [i \in DOMAIN batch |-> [id |-> batch[i], status |-> "queued"]]
      state == coming \o more IN
  /\ updated' = TRUE
  /\ \E ref \in {jobsRef} \cup IF updated THEN {} ELSE {state} :
       IF adder = AdderOff THEN RunWorker(ref, state)
       ELSE jobsRef' = ref /\ coming' = state /\ UNCHANGED <<adder, lookedUp>>
  /\ UNCHANGED <<jobs, pickerVars>>

EnqueueSome ==
  \E batch \in [{1} -> Unused] \cup {f \in [1 .. 2 -> Unused] : f[1] # f[2]} : Enqueue(batch)

Render ==
  /\ updated
  /\ jobs' = coming /\ jobsRef' = coming /\ updated' = FALSE
  /\ UNCHANGED <<coming, adder, lookedUp, pickerVars>>

(* The job the worker waits for gets a status, and the worker goes on.     *)
Settle(status) ==
  LET next == UpdateJob(jobsRef, adder.job, status) IN
  updated' = TRUE /\ RunWorker(next.ref, next.set)

(* The lookup answers with a match, without one, or fails. *)
LookupAnswers ==
  /\ adder.at = "lookup"
  /\ \/ adder' = [adder EXCEPT !.at = "add"] /\ UNCHANGED <<coming, updated, jobsRef, lookedUp>>
     \/ Settle("error")
  /\ UNCHANGED <<jobs, pickerVars>>

AddAnswers ==
  /\ adder.at = "add"
  /\ \E status \in {"done", "error"} : Settle(status)
  /\ UNCHANGED <<jobs, pickerVars>>
-----------------------------------------------------------------------------
(* useSenseFlow.  lookup opens the picker on a word; force looks again for *)
(* the last word; an answer is not tied to the lookup awaited last.  The   *)
(* picker covers the field and its buttons are disabled while it is busy.  *)
SeekWord(w) ==
  /\ ~picker.visible /\ seeksBegun < MaxSeeks /\ seeksBegun' = seeksBegun + 1
  /\ seeks' = seeks \cup {[word |-> w, forced |-> FALSE]}
  /\ picker' = [picker EXCEPT !.visible = TRUE, !.word = w, !.options = "none", !.looking = TRUE]
  /\ UNCHANGED queueVars

SeekMore ==
  /\ picker.visible /\ ~picker.looking /\ ~picker.confirming
  /\ seeksBegun < MaxSeeks /\ seeksBegun' = seeksBegun + 1
  /\ seeks' = seeks \cup {[word |-> picker.word, forced |-> TRUE]}
  /\ picker' = [picker EXCEPT !.looking = TRUE]
  /\ UNCHANGED queueVars

SeekAnswers(f) ==
  /\ f \in seeks /\ seeks' = seeks \ {f}
  /\ \E options \in {f.word, picker.options} :
       picker' = [picker EXCEPT !.options = options, !.looking = FALSE]
  /\ UNCHANGED <<queueVars, seeksBegun>>

ConfirmSense ==
  /\ picker.visible /\ ~picker.looking /\ ~picker.confirming /\ picker.options # "none"
  /\ picker' = [picker EXCEPT !.confirming = TRUE]
  /\ UNCHANGED <<queueVars, seeks, seeksBegun>>

ConfirmAnswers ==
  /\ picker.confirming
  /\ \E added \in BOOLEAN :
       picker' = [picker EXCEPT !.confirming = FALSE, !.visible = @ /\ ~added]
  /\ UNCHANGED <<queueVars, seeks, seeksBegun>>

ClosePicker ==
  /\ picker.visible /\ ~picker.confirming
  /\ picker' = [picker EXCEPT !.visible = FALSE, !.looking = FALSE]
  /\ UNCHANGED <<queueVars, seeks, seeksBegun>>

QueueNext == EnqueueSome \/ Render \/ LookupAnswers \/ AddAnswers

PickerNext ==
  \/ \E w \in SeekWords : SeekWord(w)
  \/ SeekMore \/ (\E f \in seeks : SeekAnswers(f))
  \/ ConfirmSense \/ ConfirmAnswers \/ ClosePicker

AddNext == QueueNext \/ PickerNext

AddSpec == AddInit /\ [][AddNext]_addVars
-----------------------------------------------------------------------------
(* However renders, enqueues and answers interleave, a job is looked up    *)
(* once: a render never makes the worker see a job as queued again.        *)
LookedUpOnce == \A j \in JobIds : lookedUp[j] <= 1
=============================================================================
