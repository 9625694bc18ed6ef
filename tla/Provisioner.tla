---------------------------- MODULE Provisioner ----------------------------
(***************************************************************************)
(* The provisioner of internal/provisioner at the grain of its docker      *)
(* commands.  Worker takes each container as one step; here every command  *)
(* is a step (docker run is two, create and start), so calls for the same  *)
(* job interleave inside Provision and Deprovision.                        *)
(*                                                                         *)
(* Calls are made by handlers: several at once when a message was          *)
(* reclaimed from a slow handler, one after a crash when it was reclaimed  *)
(* from a dead one.  A handler that dies stops its call, but a docker      *)
(* command it had started may still run to its end.                        *)
(*                                                                         *)
(* A container is known by the call that ran it, which also stands for the *)
(* random credentials it was given: a call runs at most one container of   *)
(* each kind.                                                              *)
(***************************************************************************)
EXTENDS Naturals, FiniteSets

CONSTANTS
  Provisions, Teardowns,  \* the calls of Provision and of Deprovision
  Jobs, JobOf,            \* JobOf[c]: the job call c is about
  Ports, NoPort, NoCall,
  CmdErrs,                \* the errors docker commands may return
  TeardownsOverlap,       \* whether a teardown may overlap a Provision of its job
  MaxErrs,                \* bound on the commands that fail
  MaxDeaths,              \* bound on the calls whose process dies
  MaxStops                \* bound on the containers that stop by themselves

Calls == Provisions \cup Teardowns
Kinds == {"pg", "svc"}
Names == Jobs \X Kinds

\* The errors a call may return: the daemon is unreachable, its host cannot
\* be resolved, the name is taken, the container did not become ready, it
\* publishes no port, or anything else.
Errors == {"daemon", "dns", "conflict", "timeout", "noport", "other"}

ASSUME ProvisionerAssumption ==
  /\ Provisions \cap Teardowns = {}
  /\ NoCall \notin Calls
  /\ JobOf \in [Calls -> Jobs]
  /\ NoPort \notin Ports
  /\ CmdErrs \subseteq {"daemon", "dns", "other"}
  /\ TeardownsOverlap \in BOOLEAN
  /\ MaxErrs \in Nat /\ MaxDeaths \in Nat /\ MaxStops \in Nat

VARIABLES
  box,      \* box[n]: the container of that name
  pc,       \* pc[c]: the command call c issues next
  kind,     \* kind[c]: the container c is bringing up
  got,      \* got[c][k]: the credentials and port c will return for k
  ids,      \* ids[t]: the containers docker ps listed for t, not removed yet
  answer,   \* answer[c]: what c returned
  cause,    \* cause[c]: the error behind the answer
  errs, deaths, stops   \* counters of the bounds

boundVars == <<errs, deaths, stops>>
callVars  == <<pc, kind, got, ids, answer, cause>>
vars == <<box, callVars, boundVars>>

Container == [owner : Calls, running : BOOLEAN, port : Ports \cup {NoPort}]
NoBox  == [owner |-> NoCall, running |-> FALSE, port |-> NoPort]
NoInfo == [creds |-> NoCall, port |-> NoPort]

Labels  == {"new", "inspect", "start", "reinspect", "create", "boot",
            "inspectNew", "wait", "ps", "rm", "rmFailed", "done"}
Answers == {"none", "ok", "transient", "permanent", "failed", "panic", "died"}

TypeOK ==
  /\ box \in [Names -> Container \cup {NoBox}]
  /\ pc \in [Calls -> Labels]
  /\ kind \in [Calls -> Kinds]
  /\ got \in [Calls -> [Kinds -> [creds : Calls \cup {NoCall}, port : Ports \cup {NoPort}]]]
  /\ ids \in [Teardowns -> SUBSET (Names \X Calls)]
  /\ answer \in [Calls -> Answers]
  /\ cause \in [Calls -> Errors \cup {"none", "nil"}]
  /\ errs \in 0 .. MaxErrs /\ deaths \in 0 .. MaxDeaths /\ stops \in 0 .. MaxStops

Init ==
  /\ box = [n \in Names |-> NoBox]
  /\ pc = [c \in Calls |-> "new"]
  /\ kind = [c \in Calls |-> "pg"]
  /\ got = [c \in Calls |-> [k \in Kinds |-> NoInfo]]
  /\ ids = [t \in Teardowns |-> {}]
  /\ answer = [c \in Calls |-> "none"]
  /\ cause = [c \in Calls |-> "none"]
  /\ errs = 0 /\ deaths = 0 /\ stops = 0

Exists(n) == box[n] # NoBox
NameOf(c) == <<JobOf[c], kind[c]>>
FreePorts == Ports \ {box[n].port : n \in Names}

\* The call has commands left to run, or one that outlives its process.
InProgress(c) == pc[c] \notin {"new", "done"}

-----------------------------------------------------------------------------
(* Moves of a call *)

\* The command is over: go on, unless the process is gone.
Goto(c, l) ==
  /\ pc' = [pc EXCEPT ![c] = IF answer[c] = "died" THEN "done" ELSE l]
  /\ UNCHANGED <<answer, cause>>

Return(c, a, e) ==
  /\ pc' = [pc EXCEPT ![c] = "done"]
  /\ answer' = [answer EXCEPT ![c] = IF @ = "died" THEN @ ELSE a]
  /\ cause' = [cause EXCEPT ![c] = IF answer[c] = "died" THEN @ ELSE e]

\* Classify: an allowlist of causes is transient, the rest permanent.
Classify(e) == IF e \in {"daemon", "dns"} THEN "transient" ELSE "permanent"

\* Deprovision does not classify its errors.
Fail(c, e) == Return(c, IF c \in Teardowns THEN "failed" ELSE Classify(e), e)

\* A command of c returns error e.
CmdFails(e) ==
  /\ e \in CmdErrs
  /\ errs < MaxErrs
  /\ errs' = errs + 1
  /\ UNCHANGED <<deaths, stops>>

CmdWorks == UNCHANGED boundVars

\* A nil inspect result is dereferenced: the process panics.
Panic(c) == Return(c, "panic", "nil")

-----------------------------------------------------------------------------
(* provisionPostgres and provisionHTTP *)

\* Handlers of one job: nothing in the code keeps a teardown from running
\* while another handler provisions; without TeardownsOverlap they happen to
\* come one after the other.
MayBegin(c) ==
  \/ TeardownsOverlap
  \/ \A d \in Calls : InProgress(d) /\ JobOf[d] = JobOf[c] =>
                        (c \in Provisions <=> d \in Provisions)

BeginProvision(c) ==
  /\ pc[c] = "new" /\ MayBegin(c)
  /\ Goto(c, "inspect")
  /\ UNCHANGED <<box, kind, got, ids, boundVars>>

\* What dockerInspect makes of an error: one that says "no such" means the
\* container is absent, an unresolvable host ("no such host") included.
TakenForAbsent(e) == e = "dns"

\* The first inspect: reuse, start, or run.
Inspect(c) ==
  LET b == box[NameOf(c)] IN
  /\ pc[c] = "inspect"
  /\ \/ /\ CmdWorks
        /\ CASE ~Exists(NameOf(c))            -> Goto(c, "create") /\ UNCHANGED got
             [] Exists(NameOf(c)) /\ ~b.running -> Goto(c, "start") /\ UNCHANGED got
             [] OTHER ->
                  /\ Goto(c, "wait")
                  /\ got' = [got EXCEPT ![c][kind[c]] = [creds |-> b.owner, port |-> b.port]]
     \/ /\ \E e \in CmdErrs :
             /\ CmdFails(e)
             /\ IF TakenForAbsent(e) THEN Goto(c, "create") ELSE Fail(c, e)
        /\ UNCHANGED got
  /\ UNCHANGED <<box, kind, ids>>

\* Docker starts a container on a port of its choice; one that runs already
\* is left alone.
Started(n, b) ==
  IF b[n].running THEN {b}
  ELSE {[b EXCEPT ![n] = [owner |-> @.owner, running |-> TRUE, port |-> p]] :
          p \in FreePorts}

\* A command that changes the containers to one of the outcomes in after: it
\* works and c goes on to l, or fails, with its effect or without.
Command(c, after, l) ==
  \/ CmdWorks /\ box' \in after /\ Goto(c, l)
  \/ \E e \in CmdErrs : CmdFails(e) /\ box' \in after \cup {box} /\ Fail(c, e)

Start(c) ==
  /\ pc[c] = "start"
  /\ \/ Exists(NameOf(c)) /\ Command(c, Started(NameOf(c), box), "reinspect")
     \/ ~Exists(NameOf(c)) /\ CmdWorks /\ Fail(c, "other") /\ UNCHANGED box
  /\ UNCHANGED <<kind, got, ids>>

\* Mutant of Create: the error of docker run is not looked at.
CreateUnchecked(c) ==
  /\ pc[c] = "create"
  /\ \/ /\ ~Exists(NameOf(c)) /\ CmdWorks /\ Goto(c, "boot")
        /\ box' = [box EXCEPT ![NameOf(c)] =
                     [owner |-> c, running |-> FALSE, port |-> NoPort]]
     \/ \E e \in CmdErrs : CmdFails(e) /\ Goto(c, "inspectNew") /\ UNCHANGED box
     \/ Exists(NameOf(c)) /\ CmdWorks /\ Goto(c, "inspectNew") /\ UNCHANGED box
  /\ UNCHANGED <<kind, got, ids>>

\* docker run, first half: the name must be free.  The command goes on to its
\* second half even if the process dies.
Create(c) ==
  /\ pc[c] = "create"
  /\ \/ /\ ~Exists(NameOf(c))
        /\ LET made == [box EXCEPT ![NameOf(c)] =
                          [owner |-> c, running |-> FALSE, port |-> NoPort]] IN
           \/ /\ CmdWorks /\ box' = made
              /\ pc' = [pc EXCEPT ![c] = "boot"]
              /\ UNCHANGED <<answer, cause>>
           \/ \E e \in CmdErrs : CmdFails(e) /\ box' \in {made, box} /\ Fail(c, e)
     \/ Exists(NameOf(c)) /\ CmdWorks /\ Fail(c, "conflict") /\ UNCHANGED box
  /\ UNCHANGED <<kind, got, ids>>

\* docker run, second half: it starts the container it created, by its id.
Boot(c) ==
  /\ pc[c] = "boot"
  /\ \/ /\ box[NameOf(c)].owner = c
        /\ Command(c, Started(NameOf(c), box), "inspectNew")
     \/ box[NameOf(c)].owner # c /\ CmdWorks /\ Fail(c, "other") /\ UNCHANGED box
  /\ UNCHANGED <<kind, got, ids>>

\* Mutant of Credentials: a reused container gets new credentials too.
CredentialsAlwaysNew(c, b) == c

\* connectionFromInspect reads the credentials of the container, and after a
\* docker run they are replaced by the ones just made.
Credentials(c, b) == IF pc[c] = "inspectNew" THEN c ELSE b.owner

\* The second inspect, after docker start or docker run: whether the
\* container was found is ignored.
InspectAgain(c) ==
  LET b == box[NameOf(c)] IN
  /\ pc[c] \in {"reinspect", "inspectNew"}
  /\ \/ CmdWorks /\ ~Exists(NameOf(c)) /\ Panic(c) /\ UNCHANGED got
     \/ CmdWorks /\ Exists(NameOf(c)) /\ b.port = NoPort
          /\ Fail(c, "noport") /\ UNCHANGED got
     \/ /\ CmdWorks /\ b.port # NoPort /\ Goto(c, "wait")
        /\ got' = [got EXCEPT ![c][kind[c]] =
                     [creds |-> Credentials(c, b), port |-> b.port]]
     \/ /\ \E e \in CmdErrs :
             /\ CmdFails(e)
             /\ IF TakenForAbsent(e) THEN Panic(c) ELSE Fail(c, e)
        /\ UNCHANGED got
  /\ UNCHANGED <<box, kind, ids>>

\* pg_isready runs inside the container that has the name; the HTTP probe
\* goes to the published port, whoever listens there.
Answers200(c) ==
  IF kind[c] = "pg" THEN box[NameOf(c)].running
  ELSE \E j \in Jobs : box[<<j, "svc">>].running /\ box[<<j, "svc">>].port = got[c]["svc"].port

\* Mutant of Ready: the probe is left out.
ReadyUnprobed(c) ==
  /\ pc[c] = "wait"
  /\ \/ kind[c] = "pg" /\ kind' = [kind EXCEPT ![c] = "svc"] /\ Goto(c, "inspect")
     \/ kind[c] = "svc" /\ UNCHANGED kind /\ Return(c, "ok", "none")
  /\ UNCHANGED <<box, got, ids, boundVars>>

\* The probe succeeds: Postgres is followed by the HTTP service, and the HTTP
\* service by the answer.
Ready(c) ==
  /\ pc[c] = "wait" /\ Answers200(c)
  /\ \/ kind[c] = "pg" /\ kind' = [kind EXCEPT ![c] = "svc"] /\ Goto(c, "inspect")
     \/ kind[c] = "svc" /\ UNCHANGED kind /\ Return(c, "ok", "none")
  /\ UNCHANGED <<box, got, ids, boundVars>>

\* The deadline of the probe passes, whatever kept it from succeeding.
TimesOut(c) ==
  /\ pc[c] = "wait"
  /\ Fail(c, "timeout")
  /\ UNCHANGED <<box, kind, got, ids, boundVars>>

-----------------------------------------------------------------------------
(* Deprovision *)

BeginDeprovision(t) ==
  /\ pc[t] = "new" /\ MayBegin(t)
  /\ Goto(t, "ps")
  /\ UNCHANGED <<box, kind, got, ids, boundVars>>

\* Mutant of Listed: names are listed whether or not a container has them.
ListedByName(j) == {<<n, box[n].owner>> : n \in {m \in Names : m[1] = j}}

\* docker ps -aq with the job's label: running or not.
Listed(j) ==
  {<<n, box[n].owner>> : n \in {m \in Names : m[1] = j /\ Exists(m)}}

Ps(t) ==
  LET found == Listed(JobOf[t]) IN
  /\ pc[t] = "ps"
  /\ \/ /\ CmdWorks
        /\ ids' = [ids EXCEPT ![t] = found]
        /\ IF found = {} THEN Return(t, "ok", "none") ELSE Goto(t, "rm")
     \/ \E e \in CmdErrs : CmdFails(e) /\ Fail(t, e) /\ UNCHANGED ids
  /\ UNCHANGED <<box, kind, got>>

\* docker rm -f works through the ids.  One that is gone already is an error
\* for some versions of docker; the other ids are removed all the same.
Rm(t, x) ==
  /\ pc[t] \in {"rm", "rmFailed"} /\ x \in ids[t]
  /\ ids' = [ids EXCEPT ![t] = @ \ {x}]
  /\ \/ /\ box[x[1]].owner = x[2] /\ CmdWorks
        /\ box' = [box EXCEPT ![x[1]] = NoBox]
        /\ UNCHANGED pc
     \/ /\ box[x[1]].owner # x[2] /\ CmdWorks
        /\ pc' \in {pc, [pc EXCEPT ![t] = "rmFailed"]}
        /\ UNCHANGED box
     \/ /\ \E e \in CmdErrs : CmdFails(e)
        /\ pc' = [pc EXCEPT ![t] = "rmFailed"]
        /\ UNCHANGED box
  /\ UNCHANGED <<kind, got, answer, cause>>

RmDone(t) ==
  /\ ids[t] = {}
  /\ \/ pc[t] = "rm" /\ Return(t, "ok", "none")
     \/ pc[t] = "rmFailed" /\ Fail(t, "other")
  /\ UNCHANGED <<box, kind, got, ids, boundVars>>

-----------------------------------------------------------------------------
(* The environment *)

\* The process of the call dies.  The command in flight dies with it or runs
\* on by itself.
Die(c) ==
  /\ InProgress(c) /\ answer[c] = "none"
  /\ deaths < MaxDeaths
  /\ deaths' = deaths + 1
  /\ answer' = [answer EXCEPT ![c] = "died"]
  /\ \/ pc' = [pc EXCEPT ![c] = "done"]
     \/ pc[c] \in {"create", "boot", "start", "rm", "rmFailed"} /\ UNCHANGED pc
  /\ UNCHANGED <<box, kind, got, ids, cause, errs, stops>>

\* A container exits, and its restart policy may bring it up again, on a port
\* of Docker's choice.
Stop(n) ==
  /\ box[n].running
  /\ stops < MaxStops
  /\ stops' = stops + 1
  /\ box' = [box EXCEPT ![n] = [owner |-> @.owner, running |-> FALSE, port |-> NoPort]]
  /\ UNCHANGED <<callVars, errs, deaths>>

Restart(n) ==
  /\ stops > 0 /\ Exists(n) /\ ~box[n].running
  /\ box' \in Started(n, box)
  /\ UNCHANGED <<callVars, boundVars>>

-----------------------------------------------------------------------------
ProvisionStep(c) ==
  \/ Inspect(c) \/ Start(c) \/ Create(c) \/ Boot(c) \/ InspectAgain(c)
  \/ Ready(c) \/ TimesOut(c)

DeprovisionStep(t) ==
  Ps(t) \/ (\E x \in ids[t] : Rm(t, x)) \/ RmDone(t)

Next ==
  \/ \E c \in Provisions : BeginProvision(c) \/ ProvisionStep(c)
  \/ \E t \in Teardowns : BeginDeprovision(t) \/ DeprovisionStep(t)
  \/ \E c \in Calls : Die(c)
  \/ \E n \in Names : Stop(n) \/ Restart(n)

Spec == Init /\ [][Next]_vars

-----------------------------------------------------------------------------
(* What a caller relies on *)

\* The tag of Resources for an answer: a dead call gives none, and a panic is
\* none the interface allows.
Tag(a) ==
  CASE a \in {"none", "died"} -> "none"
    [] a = "ok" -> "ok"
    [] a = "panic" -> "panic"
    [] OTHER -> "error"

Promise == INSTANCE Resources WITH
  Ids <- Calls, NoId <- NoCall,
  resource <- [n \in Names |-> box[n].owner],
  answer <- [c \in Calls |->
    [tag |-> Tag(answer[c]),
     of  |-> [k \in Kinds |-> IF c \in Provisions /\ answer[c] = "ok"
                              THEN got[c][k].creds ELSE NoCall]]]

\* However calls for one job interleave, die and leave commands behind,
\* Provision returns the containers the job has with the credentials they
\* have, so two calls never return different resources, and Deprovision
\* returns once none is left (provisioner.go 65-73, docker.go 86-109).
KeepsPromise == Promise!Spec

\* The second inspect always finds the container (docker.go 97, 130, 159,
\* 198: the result is dereferenced without looking at ok).
NeverNil == \A c \in Calls : cause[c] # "nil"

\* At the moment Provision returns, the HTTP endpoint it read some commands
\* before is still the one the job's container is published on, unless that
\* container stopped meanwhile and one of another job has taken its port over,
\* which the probe cannot tell apart (docker.go 163-170, 202-209, 367-391).
AnswerIsReachable ==
  [][\A c \in Provisions : answer[c] = "none" /\ answer'[c] = "ok" =>
       \E j \in Jobs :
         /\ box[<<j, "svc">>].port = got[c]["svc"].port
         /\ j = JobOf[c] \/ stops > 0]_vars

\* No call fails because the container it wants has been made already
\* (docker.go 86-87).
DuplicateNameIsReused == \A c \in Calls : cause[c] # "conflict"

=============================================================================
