-------------------------- MODULE ProvisionerProofs --------------------------
(***************************************************************************)
(* Proofs about the provisioner, for any calls, jobs and ports and any     *)
(* bounds on errors, deaths and stops.                                     *)
(***************************************************************************)
EXTENDS Provisioner, TLAPS

-----------------------------------------------------------------------------
(* What each step of Provision and of Deprovision keeps *)

Boxes == [Names -> Container \cup {NoBox}]

\* A name has a container exactly if the container has an owner.
LEMMA OwnerOf ==
  ASSUME TypeOK, NEW n \in Names
  PROVE  /\ Exists(n) <=> box[n].owner # NoCall
         /\ Exists(n) <=> box[n].owner \in Calls
         /\ Exists(n) => box[n] \in Container
         /\ box[n].running => Exists(n)
  BY ProvisionerAssumption DEF TypeOK, Exists, Container, NoBox

\* Starting a container keeps it the container it is.
LEMMA StartedKeeps ==
  ASSUME TypeOK, NEW n \in Names, Exists(n), NEW b \in Started(n, box)
  PROVE  /\ b \in Boxes
         /\ \A m \in Names : b[m].owner = box[m].owner
  <1>1. box \in Boxes /\ box[n] \in Container
    BY Zenon, OwnerOf DEF TypeOK, Boxes
  <1>2. CASE b = box
    BY Zenon, <1>1, <1>2
  <1>3. ASSUME NEW p \in FreePorts,
               b = [box EXCEPT ![n] = [owner |-> @.owner, running |-> TRUE, port |-> p]]
        PROVE  b \in Boxes /\ \A m \in Names : b[m].owner = box[m].owner
    <2>1. p \in Ports
      BY Zenon DEF FreePorts
    <2>2. [owner |-> box[n].owner, running |-> TRUE, port |-> p] \in Container
      BY Zenon, <1>1, <2>1 DEF Container
    <2> QED
      BY Zenon, <1>1, <1>3, <2>2 DEF Boxes
  <1> QED
    BY Zenon, <1>2, <1>3 DEF Started

-----------------------------------------------------------------------------
(* What a step may touch *)

Infos == [creds : Calls \cup {NoCall}, port : Ports \cup {NoPort}]
Causes == Errors \cup {"none", "nil"}

LocalTypes ==
  /\ pc \in [Calls -> Labels]
  /\ kind \in [Calls -> Kinds]
  /\ got \in [Calls -> [Kinds -> Infos]]
  /\ answer \in [Calls -> Answers]
  /\ cause \in [Calls -> Causes]

\* A step of call c leaves the local state of the other calls alone.
OnlyCall(c) ==
  \A d \in Calls \ {c} :
    /\ pc'[d] = pc[d] /\ kind'[d] = kind[d] /\ got'[d] = got[d]
    /\ answer'[d] = answer[d] /\ cause'[d] = cause[d]

SameOwners == \A n \in Names : box'[n].owner = box[n].owner

\* Call c makes the container it is bringing up.
Makes(c) ==
  /\ ~Exists(NameOf(c)) /\ box'[NameOf(c)].owner = c
  /\ \A n \in Names \ {NameOf(c)} : box'[n].owner = box[n].owner

\* The type invariant by parts.
LEMMA Unfold ==
  TypeOK <=> /\ LocalTypes /\ box \in Boxes
             /\ ids \in [Teardowns -> SUBSET (Names \X Calls)]
             /\ errs \in 0 .. MaxErrs /\ deaths \in 0 .. MaxDeaths /\ stops \in 0 .. MaxStops
  BY Zenon DEF TypeOK, LocalTypes, Boxes, Infos, Causes

\* The two ways a command ends.
LEMMA GotoMoves ==
  ASSUME TypeOK, NEW c \in Calls, NEW l \in Labels, Goto(c, l)
  PROVE  /\ pc' \in [Calls -> Labels] /\ pc'[c] \in {l, "done"}
         /\ answer[c] # "died" => pc'[c] = l
         /\ answer[c] = "died" => pc'[c] = "done"
         /\ \A d \in Calls \ {c} : pc'[d] = pc[d]
         /\ answer' = answer /\ cause' = cause
  BY Zenon DEF TypeOK, Goto, Labels

\* A call returns, unless its process is gone.
LEMMA ReturnMoves ==
  ASSUME TypeOK, NEW c \in Calls, NEW a \in Answers, NEW e \in Causes, Return(c, a, e)
  PROVE  /\ pc' \in [Calls -> Labels] /\ answer' \in [Calls -> Answers]
         /\ cause' \in [Calls -> Causes]
         /\ pc'[c] = "done"
         /\ answer'[c] = (IF answer[c] = "died" THEN "died" ELSE a)
         /\ cause'[c] \in {e, cause[c]}
         /\ \A d \in Calls \ {c} :
              pc'[d] = pc[d] /\ answer'[d] = answer[d] /\ cause'[d] = cause[d]
  BY Zenon DEF TypeOK, Return, Labels, Causes

\* A call returns an error.
LEMMA FailMoves ==
  ASSUME TypeOK, NEW c \in Calls, NEW e \in Errors, Fail(c, e)
  PROVE  /\ pc' \in [Calls -> Labels] /\ answer' \in [Calls -> Answers]
         /\ cause' \in [Calls -> Causes]
         /\ pc'[c] = "done"
         /\ \/ answer'[c] = answer[c] /\ answer[c] = "died"
            \/ answer[c] # "died" /\ answer'[c] \in {"transient", "permanent", "failed"}
         /\ cause'[c] \in {e, cause[c]}
         /\ \A d \in Calls \ {c} :
              pc'[d] = pc[d] /\ answer'[d] = answer[d] /\ cause'[d] = cause[d]
  <1> DEFINE a == IF c \in Teardowns THEN "failed" ELSE Classify(e)
  <1>1. a \in Answers /\ a \in {"transient", "permanent", "failed"} /\ e \in Causes
    BY Zenon DEF Answers, Classify, Causes
  <1>2. Return(c, a, e)
    BY Zenon DEF Fail
  <1> HIDE DEF a
  <1> QED
    BY Zenon, <1>1, <1>2, ReturnMoves

\* Counting an error keeps the counters within their bounds.
LEMMA BoundsKept ==
  ASSUME TypeOK, CmdWorks \/ \E e \in CmdErrs : CmdFails(e)
  PROVE  errs' \in 0 .. MaxErrs /\ deaths' \in 0 .. MaxDeaths /\ stops' \in 0 .. MaxStops
  BY ProvisionerAssumption DEF TypeOK, CmdWorks, CmdFails, boundVars

-----------------------------------------------------------------------------
(* The steps of Provision *)

\* What every step of Provision keeps.
Frame(c) ==
  /\ LocalTypes' /\ box' \in Boxes /\ ids' = ids
  /\ errs' \in 0 .. MaxErrs /\ deaths' \in 0 .. MaxDeaths /\ stops' \in 0 .. MaxStops
  /\ OnlyCall(c)
  /\ SameOwners \/ Makes(c)

\* A command that starts a container, worked or failed.
LEMMA CommandFrame ==
  ASSUME TypeOK, NEW c \in Calls, NEW after, NEW l \in Labels, Command(c, after, l),
         \A b \in after : b \in Boxes /\ \A m \in Names : b[m].owner = box[m].owner
  PROVE  /\ box' \in Boxes /\ SameOwners
         /\ errs' \in 0 .. MaxErrs /\ deaths' \in 0 .. MaxDeaths /\ stops' \in 0 .. MaxStops
         /\ Goto(c, l) \/ \E e \in Errors : Fail(c, e)
  <1>1. box \in Boxes
    BY Zenon, Unfold
  <1>2. box' \in Boxes /\ SameOwners
    BY Zenon, <1>1 DEF Command, SameOwners
  <1>3. CmdWorks \/ \E e \in CmdErrs : CmdFails(e)
    BY Zenon DEF Command
  <1>4. CmdErrs \subseteq Errors
    BY Zenon, ProvisionerAssumption DEF Errors
  <1>5. Goto(c, l) \/ \E e \in Errors : Fail(c, e)
    BY Zenon, <1>4 DEF Command
  <1> QED
    BY Zenon, <1>2, <1>3, <1>5, BoundsKept

\* Moving on, failing and panicking change no type and no other call.
LEMMA MovesFrame ==
  ASSUME TypeOK, NEW c \in Calls,
         \/ \E l \in Labels : Goto(c, l)
         \/ \E e \in Errors : Fail(c, e)
         \/ Panic(c)
         \/ Return(c, "ok", "none"),
         kind' \in [Calls -> Kinds], got' \in [Calls -> [Kinds -> Infos]],
         \A d \in Calls \ {c} : kind'[d] = kind[d] /\ got'[d] = got[d]
  PROVE  LocalTypes' /\ OnlyCall(c)
  <1>1. ASSUME NEW l \in Labels, Goto(c, l) PROVE LocalTypes' /\ OnlyCall(c)
    BY Zenon, <1>1, GotoMoves, Unfold DEF LocalTypes, OnlyCall
  <1>2. ASSUME NEW e \in Errors, Fail(c, e) PROVE LocalTypes' /\ OnlyCall(c)
    BY <1>2, FailMoves, Unfold DEF LocalTypes, OnlyCall
  <1>3. ASSUME NEW a \in Answers, NEW e \in Causes, Return(c, a, e)
        PROVE  LocalTypes' /\ OnlyCall(c)
    BY <1>3, ReturnMoves, Unfold DEF LocalTypes, OnlyCall
  <1>4. {"ok", "panic"} \subseteq Answers /\ {"none", "nil"} \subseteq Causes
    BY Zenon DEF Answers, Causes
  <1> QED
    BY Zenon, <1>1, <1>2, <1>3, <1>4 DEF Panic

\* Reading a container yields well-formed information.
LEMMA GotType ==
  ASSUME TypeOK, NEW c \in Calls, NEW i \in Infos
  PROVE  /\ [got EXCEPT ![c][kind[c]] = i] \in [Calls -> [Kinds -> Infos]]
         /\ \A d \in Calls \ {c} : [got EXCEPT ![c][kind[c]] = i][d] = got[d]
         /\ [got EXCEPT ![c][kind[c]] = i][c][kind[c]] = i
         /\ \A k \in Kinds \ {kind[c]} : [got EXCEPT ![c][kind[c]] = i][c][k] = got[c][k]
  <1>1. got \in [Calls -> [Kinds -> Infos]] /\ kind[c] \in Kinds
    BY Zenon, Unfold DEF LocalTypes
  <1> QED
    BY Zenon, <1>1

\* The name a call is about.
LEMMA NameType ==
  ASSUME TypeOK, NEW c \in Calls
  PROVE  NameOf(c) \in Names /\ kind[c] \in Kinds /\ NameOf(c) = <<JobOf[c], kind[c]>>
  BY Zenon, ProvisionerAssumption DEF TypeOK, NameOf, Names

\* What a call keeps of a container it has read.
LEMMA InfoType ==
  ASSUME TypeOK, NEW n \in Names, NEW o \in Calls
  PROVE  /\ [creds |-> o, port |-> box[n].port] \in Infos
         /\ [creds |-> box[n].owner, port |-> box[n].port] \in Infos
  BY DEF TypeOK, Infos, Container, NoBox

\* The errors of commands are among those a call may return.
LEMMA ErrorsOfCommands == CmdErrs \subseteq Errors
  BY Zenon, ProvisionerAssumption DEF Errors

\* Call c has read the container of kind k that is there.
Has(c, k) == box[<<JobOf[c], k>>].owner = got[c][k].creds /\ got[c][k].creds \in Calls

\* What a call of Provision relies on at each of its commands, while no
\* teardown of its job is in progress.
ProvisionOK(c) ==
  /\ pc[c] \notin {"ps", "rm", "rmFailed"}
  /\ pc[c] = "new" => answer[c] = "none" /\ kind[c] = "pg"
  /\ InProgress(c) =>
       /\ \/ answer[c] = "none"
          \/ answer[c] = "died" /\ pc[c] \in {"create", "boot", "start"}
       /\ kind[c] = "svc" => Has(c, "pg")
       /\ pc[c] = "wait" => Has(c, kind[c])
       /\ pc[c] \in {"start", "reinspect"} => Exists(NameOf(c))
       /\ pc[c] \in {"boot", "inspectNew"} => box[NameOf(c)].owner = c
  /\ cause[c] # "nil" /\ answer[c] # "panic"

\* How a step of Provision bears on its answer.
Outcome(c) ==
  \/ answer'[c] = answer[c]
  \/ answer[c] = "none" /\ answer'[c] \in {"transient", "permanent", "failed"}
  \/ /\ answer[c] = "none" /\ answer'[c] = "ok"
     /\ box' = box /\ got' = got /\ Has(c, "pg") /\ Has(c, "svc")

\* A Provision that fails relies on nothing any more.
LEMMA FailOK ==
  ASSUME TypeOK, NEW c \in Calls, ProvisionOK(c), InProgress(c),
         NEW e \in Errors, Fail(c, e)
  PROVE  ProvisionOK(c)' /\ Outcome(c)
  <1>1. e # "nil"
    BY Zenon DEF Errors
  <1>2. pc'[c] = "done" /\ cause'[c] # "nil" /\ answer'[c] # "panic"
    BY Zenon, <1>1, FailMoves DEF ProvisionOK
  <1>3. ProvisionOK(c)'
    BY Zenon, <1>2 DEF ProvisionOK, InProgress
  <1>4. Outcome(c)
    BY Zenon, FailMoves DEF Outcome, ProvisionOK
  <1> QED
    BY Zenon, <1>3, <1>4

\* Going on keeps the containers read before.
LEMMA GotoOK ==
  ASSUME TypeOK, NEW c \in Calls, ProvisionOK(c), InProgress(c),
         NEW l \in Labels \ {"ps", "rm", "rmFailed", "new"}, Goto(c, l),
         kind'[c] = kind[c],
         kind[c] = "svc" => Has(c, "pg")',
         l = "wait" => Has(c, kind[c])',
         l \in {"start", "reinspect"} => box'[NameOf(c)].owner # NoCall,
         l \in {"boot", "inspectNew"} => box'[NameOf(c)].owner = c,
         box' \in Boxes
  PROVE  ProvisionOK(c)' /\ Outcome(c)
  <1>1. pc'[c] \in {l, "done"} /\ (pc'[c] # "done" => answer[c] = "none")
        /\ answer' = answer /\ cause' = cause
    BY Zenon, GotoMoves DEF ProvisionOK
  <1>2. NameOf(c)' = NameOf(c) /\ NameOf(c) \in Names
    BY Zenon, NameType DEF NameOf
  <1>3. box'[NameOf(c)].owner # NoCall => Exists(NameOf(c))'
    BY <1>2 DEF Exists, NoBox
  <1>4. CASE pc'[c] = "done"
    BY Zenon, <1>1, <1>4 DEF ProvisionOK, InProgress, Outcome
  <1>5. CASE pc'[c] = l /\ answer[c] = "none"
    <2>1. kind'[c] = "svc" => Has(c, "pg")'
      OBVIOUS
    <2>2. pc'[c] = "wait" => Has(c, kind[c])'
      BY Zenon, <1>5
    <2>3. pc'[c] \in {"start", "reinspect"} => Exists(NameOf(c))'
      BY Zenon, <1>3, <1>5
    <2>4. pc'[c] \in {"boot", "inspectNew"} => box'[NameOf(c)'].owner = c
      BY Zenon, <1>2, <1>5
    <2>5. pc'[c] \notin {"ps", "rm", "rmFailed", "new"} /\ answer'[c] = "none"
          /\ cause'[c] # "nil"
      BY Zenon, <1>1, <1>5 DEF ProvisionOK
    <2>6. ProvisionOK(c)'
      BY Zenon, <2>1, <2>2, <2>3, <2>4, <2>5 DEF ProvisionOK
    <2> QED
      BY Zenon, <1>1, <2>6 DEF Outcome
  <1> QED
    BY Zenon, <1>1, <1>4, <1>5

\* The first inspect.
LEMMA InspectStep ==
  ASSUME TypeOK, "dns" \notin CmdErrs, NEW c \in Provisions, ProvisionOK(c), Inspect(c)
  PROVE  Frame(c) /\ ProvisionOK(c)' /\ Outcome(c)
  <1> c \in Calls
    BY Zenon DEF Calls
  <1>1. /\ NameOf(c) \in Names /\ kind[c] \in Kinds /\ box \in Boxes
        /\ NameOf(c) = <<JobOf[c], kind[c]>> /\ InProgress(c)
        /\ CmdErrs \subseteq Errors
    BY Zenon, NameType, Unfold, ErrorsOfCommands DEF Inspect, InProgress
  <1>2. box' = box /\ kind' = kind /\ ids' = ids /\ SameOwners
    BY Zenon DEF Inspect, SameOwners
  <1>3. CmdWorks \/ \E e \in CmdErrs : CmdFails(e)
    BY Zenon DEF Inspect
  <1>4. CASE got' = got /\ \E l \in {"create", "start"} :
                (l = "start" => Exists(NameOf(c))) /\ Goto(c, l)
    <2>1. PICK l \in {"create", "start"} : (l = "start" => Exists(NameOf(c))) /\ Goto(c, l)
      BY Zenon, <1>4
    <2>2. l \in Labels \ {"ps", "rm", "rmFailed", "new"}
      BY Zenon DEF Labels
    <2>3. ProvisionOK(c)' /\ Outcome(c)
      BY Zenon, <1>1, <1>2, <1>4, <2>1, <2>2, GotoOK, OwnerOf DEF ProvisionOK, Has
    <2> QED
      BY Zenon, <1>1, <1>2, <1>3, <1>4, <2>1, <2>2, <2>3, MovesFrame, BoundsKept, Unfold
      DEF Frame, LocalTypes
  <1>5. CASE /\ Exists(NameOf(c)) /\ Goto(c, "wait")
             /\ got' = [got EXCEPT ![c][kind[c]] =
                          [creds |-> box[NameOf(c)].owner, port |-> box[NameOf(c)].port]]
    <2> DEFINE i == [creds |-> box[NameOf(c)].owner, port |-> box[NameOf(c)].port]
    <2>a. i \in Infos /\ i.creds = box[NameOf(c)].owner
      BY Zenon, <1>1, InfoType
    <2>b. got' = [got EXCEPT ![c][kind[c]] = i]
      BY Zenon, <1>5
    <2> HIDE DEF i
    <2>1. /\ got' \in [Calls -> [Kinds -> Infos]]
          /\ \A d \in Calls \ {c} : got'[d] = got[d]
          /\ got'[c][kind[c]].creds = box[NameOf(c)].owner
          /\ \A k \in Kinds \ {kind[c]} : got'[c][k] = got[c][k]
      BY <2>a, <2>b, GotType
    <2>2. Has(c, kind[c])'
      BY Zenon, <1>1, <1>2, <1>5, <2>1, OwnerOf DEF Has
    <2>3. kind[c] = "svc" => Has(c, "pg")'
      BY Zenon, <1>1, <1>2, <2>1 DEF Has, ProvisionOK, Kinds
    <2>4. "wait" \in Labels \ {"ps", "rm", "rmFailed", "new"}
      BY Zenon DEF Labels
    <2>5. ProvisionOK(c)' /\ Outcome(c)
      BY Zenon, <1>1, <1>2, <1>5, <2>2, <2>3, <2>4, GotoOK
    <2> QED
      BY Zenon, <1>1, <1>2, <1>3, <1>5, <2>1, <2>4, <2>5, MovesFrame, BoundsKept, Unfold
      DEF Frame, LocalTypes
  <1>6. CASE got' = got /\ \E e \in CmdErrs : Fail(c, e)
    BY Zenon, <1>1, <1>2, <1>3, <1>6, FailOK, MovesFrame, BoundsKept, Unfold
    DEF Frame, LocalTypes
  <1> QED
    BY Zenon, <1>4, <1>5, <1>6 DEF Inspect, TakenForAbsent

\* docker start, and the second half of docker run.
LEMMA StartingStep ==
  ASSUME TypeOK, NEW c \in Provisions, ProvisionOK(c),
         pc[c] \in {"start", "boot"},
         NEW l \in {"reinspect", "inspectNew"},
         l = "inspectNew" => box[NameOf(c)].owner = c,
         Exists(NameOf(c)), Command(c, Started(NameOf(c), box), l),
         UNCHANGED <<kind, got, ids>>
  PROVE  Frame(c) /\ ProvisionOK(c)' /\ Outcome(c)
  <1> c \in Calls
    BY Zenon DEF Calls
  <1>1. /\ NameOf(c) \in Names /\ kind[c] \in Kinds /\ box \in Boxes
        /\ NameOf(c) = <<JobOf[c], kind[c]>> /\ InProgress(c)
        /\ l \in Labels \ {"ps", "rm", "rmFailed", "new"}
    BY Zenon, NameType, Unfold DEF InProgress, Labels
  <1>2. /\ box' \in Boxes /\ SameOwners
        /\ errs' \in 0 .. MaxErrs /\ deaths' \in 0 .. MaxDeaths /\ stops' \in 0 .. MaxStops
        /\ Goto(c, l) \/ \E e \in Errors : Fail(c, e)
    BY Zenon, <1>1, StartedKeeps, CommandFrame
  <1>3. <<JobOf[c], "pg">> \in Names
    BY Zenon, ProvisionerAssumption DEF Names, Kinds
  <1>4. kind[c] = "svc" => Has(c, "pg")'
    BY Zenon, <1>1, <1>2, <1>3 DEF ProvisionOK, Has, SameOwners
  <1>5. box'[NameOf(c)].owner # NoCall
    BY Zenon, <1>1, <1>2, OwnerOf DEF SameOwners
  <1>6. ASSUME Goto(c, l) PROVE ProvisionOK(c)' /\ Outcome(c)
    BY Zenon, <1>1, <1>2, <1>4, <1>5, <1>6, GotoOK DEF SameOwners
  <1>7. ASSUME NEW e \in Errors, Fail(c, e) PROVE ProvisionOK(c)' /\ Outcome(c)
    BY Zenon, <1>1, <1>7, FailOK
  <1>8. LocalTypes' /\ OnlyCall(c)
    BY Zenon, <1>1, <1>2, MovesFrame, Unfold DEF LocalTypes
  <1> QED
    BY Zenon, <1>2, <1>6, <1>7, <1>8 DEF Frame

\* A command fails without an effect.
LEMMA FailingStep ==
  ASSUME TypeOK, NEW c \in Provisions, ProvisionOK(c), InProgress(c),
         NEW e \in Errors, Fail(c, e),
         CmdWorks \/ \E x \in CmdErrs : CmdFails(x),
         UNCHANGED <<box, kind, got, ids>>
  PROVE  Frame(c) /\ ProvisionOK(c)' /\ Outcome(c)
  <1> c \in Calls
    BY Zenon DEF Calls
  <1>1. LocalTypes' /\ OnlyCall(c)
    BY Zenon, MovesFrame, Unfold DEF LocalTypes
  <1>2. box' \in Boxes /\ SameOwners
    BY Zenon, Unfold DEF SameOwners
  <1>3. ProvisionOK(c)' /\ Outcome(c)
    BY Zenon, FailOK
  <1> QED
    BY Zenon, <1>1, <1>2, <1>3, BoundsKept DEF Frame

\* docker start.
LEMMA StartStep ==
  ASSUME TypeOK, NEW c \in Provisions, ProvisionOK(c), Start(c)
  PROVE  Frame(c) /\ ProvisionOK(c)' /\ Outcome(c)
  <1>1. InProgress(c) /\ "other" \in Errors
    BY Zenon DEF Start, InProgress, Errors
  <1>2. CASE Exists(NameOf(c)) /\ Command(c, Started(NameOf(c), box), "reinspect")
    BY Zenon, <1>2, StartingStep DEF Start
  <1>3. CASE ~Exists(NameOf(c)) /\ CmdWorks /\ Fail(c, "other") /\ UNCHANGED box
    BY Zenon, <1>1, <1>3, FailingStep DEF Start
  <1> QED
    BY Zenon, <1>2, <1>3 DEF Start

\* docker run, second half: the container is still the one it made.
LEMMA BootStep ==
  ASSUME TypeOK, NEW c \in Provisions, ProvisionOK(c), Boot(c)
  PROVE  Frame(c) /\ ProvisionOK(c)' /\ Outcome(c)
  <1> c \in Calls
    BY Zenon DEF Calls
  <1>1. InProgress(c) /\ NameOf(c) \in Names
    BY Zenon, NameType DEF Boot, InProgress
  <1>2. box[NameOf(c)].owner = c /\ Exists(NameOf(c))
    BY Zenon, <1>1, OwnerOf DEF Boot, ProvisionOK
  <1>3. Command(c, Started(NameOf(c), box), "inspectNew")
    BY Zenon, <1>2 DEF Boot
  <1> QED
    BY Zenon, <1>2, <1>3, StartingStep DEF Boot

\* docker run, first half.
LEMMA CreateStep ==
  ASSUME TypeOK, NEW c \in Provisions, ProvisionOK(c), Create(c)
  PROVE  Frame(c) /\ ProvisionOK(c)' /\ Outcome(c)
  <1> c \in Calls
    BY Zenon DEF Calls
  <1> DEFINE made == [box EXCEPT ![NameOf(c)] =
                        [owner |-> c, running |-> FALSE, port |-> NoPort]]
  <1>1. /\ NameOf(c) \in Names /\ kind[c] \in Kinds /\ box \in Boxes
        /\ NameOf(c) = <<JobOf[c], kind[c]>> /\ InProgress(c)
        /\ CmdErrs \subseteq Errors /\ pc[c] = "create"
        /\ <<JobOf[c], "pg">> \in Names
    BY Zenon, NameType, Unfold, ErrorsOfCommands, ProvisionerAssumption
    DEF Create, InProgress, Names, Kinds
  <1>2. kind' = kind /\ got' = got /\ ids' = ids
    BY Zenon DEF Create
  <1>3. CmdWorks \/ \E e \in CmdErrs : CmdFails(e)
    BY Zenon DEF Create
  <1>4. /\ made \in Boxes /\ made[NameOf(c)].owner = c
        /\ \A n \in Names \ {NameOf(c)} : made[n] = box[n]
    <2>1. [owner |-> c, running |-> FALSE, port |-> NoPort] \in Container
      BY Zenon DEF Container
    <2> QED
      BY Zenon, <1>1, <2>1 DEF Boxes
  <1> HIDE DEF made
  <1>5. ASSUME ~Exists(NameOf(c)), box' = made
        PROVE  Makes(c) /\ (kind[c] = "svc" => Has(c, "pg")')
    <2>1. Makes(c)
      BY Zenon, <1>4, <1>5 DEF Makes
    <2>2. kind[c] = "svc" => box'[<<JobOf[c], "pg">>] = box[<<JobOf[c], "pg">>]
      BY <1>1, <1>4, <1>5
    <2> QED
      BY Zenon, <1>1, <1>2, <2>1, <2>2 DEF Has, ProvisionOK
  <1>6. CASE /\ ~Exists(NameOf(c)) /\ CmdWorks /\ box' = made
             /\ pc' = [pc EXCEPT ![c] = "boot"]
             /\ UNCHANGED <<answer, cause>>
    <2>1. /\ pc' \in [Calls -> Labels] /\ pc'[c] = "boot"
          /\ \A d \in Calls \ {c} : pc'[d] = pc[d]
      BY Zenon, <1>6 DEF TypeOK, Labels
    <2>2. LocalTypes' /\ OnlyCall(c)
      BY Zenon, <1>2, <1>6, <2>1, Unfold DEF LocalTypes, OnlyCall
    <2>3. NameOf(c)' = NameOf(c)
      BY Zenon, <1>2 DEF NameOf
    <2>4. ProvisionOK(c)'
      BY Zenon, <1>1, <1>2, <1>4, <1>5, <1>6, <2>1, <2>3 DEF ProvisionOK
    <2> QED
      BY Zenon, <1>2, <1>3, <1>4, <1>5, <1>6, <2>2, <2>4, BoundsKept DEF Frame, Outcome
  <1>7. CASE /\ ~Exists(NameOf(c)) /\ box' = made
             /\ \E e \in CmdErrs : CmdFails(e) /\ Fail(c, e)
    <2>1. LocalTypes' /\ OnlyCall(c)
      BY Zenon, <1>1, <1>2, <1>7, MovesFrame, Unfold DEF LocalTypes
    <2> QED
      BY Zenon, <1>1, <1>2, <1>3, <1>4, <1>5, <1>7, <2>1, FailOK, BoundsKept DEF Frame
  <1>8. CASE box' = box /\ \E e \in CmdErrs : CmdFails(e) /\ Fail(c, e)
    BY Zenon, <1>1, <1>2, <1>3, <1>8, FailingStep
  <1>9. CASE CmdWorks /\ Fail(c, "conflict") /\ UNCHANGED box
    BY Zenon, <1>1, <1>2, <1>3, <1>9, FailingStep DEF Errors
  <1> QED
    BY Zenon, <1>6, <1>7, <1>8, <1>9 DEF Create, made

\* The second inspect finds the container, so its result is never nil.
LEMMA InspectAgainStep ==
  ASSUME TypeOK, "dns" \notin CmdErrs, NEW c \in Provisions, ProvisionOK(c), InspectAgain(c)
  PROVE  Frame(c) /\ ProvisionOK(c)' /\ Outcome(c)
  <1> c \in Calls
    BY Zenon DEF Calls
  <1>1. /\ NameOf(c) \in Names /\ kind[c] \in Kinds /\ box \in Boxes
        /\ NameOf(c) = <<JobOf[c], kind[c]>> /\ InProgress(c)
        /\ CmdErrs \subseteq Errors
    BY Zenon, NameType, Unfold, ErrorsOfCommands DEF InspectAgain, InProgress
  <1>2. box' = box /\ kind' = kind /\ ids' = ids /\ SameOwners
    BY Zenon DEF InspectAgain, SameOwners
  <1>3. CmdWorks \/ \E e \in CmdErrs : CmdFails(e)
    BY Zenon DEF InspectAgain
  <1>4. Exists(NameOf(c)) /\ (pc[c] = "inspectNew" => box[NameOf(c)].owner = c)
    BY Zenon, <1>1, OwnerOf DEF InspectAgain, ProvisionOK
  <1> DEFINE i == [creds |-> Credentials(c, box[NameOf(c)]), port |-> box[NameOf(c)].port]
  <1>5. i.creds = box[NameOf(c)].owner /\ i \in Infos
    BY Zenon, <1>1, <1>4, InfoType DEF Credentials
  <1> HIDE DEF i
  <1>6. CASE Goto(c, "wait") /\ got' = [got EXCEPT ![c][kind[c]] = i]
    <2>1. /\ got' \in [Calls -> [Kinds -> Infos]]
          /\ \A d \in Calls \ {c} : got'[d] = got[d]
          /\ got'[c][kind[c]].creds = box[NameOf(c)].owner
          /\ \A k \in Kinds \ {kind[c]} : got'[c][k] = got[c][k]
      BY <1>5, <1>6, GotType
    <2>2. Has(c, kind[c])'
      BY Zenon, <1>1, <1>2, <1>4, <2>1, OwnerOf DEF Has
    <2>3. kind[c] = "svc" => Has(c, "pg")'
      BY Zenon, <1>1, <1>2, <2>1 DEF Has, ProvisionOK, Kinds
    <2>4. "wait" \in Labels \ {"ps", "rm", "rmFailed", "new"}
      BY Zenon DEF Labels
    <2>5. ProvisionOK(c)' /\ Outcome(c)
      BY Zenon, <1>1, <1>2, <1>6, <2>2, <2>3, <2>4, GotoOK
    <2> QED
      BY Zenon, <1>1, <1>2, <1>3, <1>6, <2>1, <2>4, <2>5, MovesFrame, BoundsKept, Unfold
      DEF Frame, LocalTypes
  <1>7. CASE got' = got /\ \E e \in Errors : Fail(c, e)
    BY Zenon, <1>1, <1>2, <1>3, <1>7, FailingStep
  <1>8. \/ got' = got /\ \E e \in Errors : Fail(c, e)
        \/ Goto(c, "wait") /\ got' = [got EXCEPT ![c][kind[c]] = i]
    <2>1. "noport" \in Errors
      BY Zenon DEF Errors
    <2> QED
      BY Zenon, <1>1, <1>4, <2>1 DEF InspectAgain, TakenForAbsent, i
  <1> QED
    BY Zenon, <1>6, <1>7, <1>8

\* The probe succeeds: what the call has read is what it returns.
LEMMA ReadyStep ==
  ASSUME TypeOK, NEW c \in Provisions, ProvisionOK(c), Ready(c)
  PROVE  Frame(c) /\ ProvisionOK(c)' /\ Outcome(c)
  <1> c \in Calls
    BY Zenon DEF Calls
  <1>1. /\ InProgress(c) /\ pc[c] = "wait" /\ answer[c] = "none" /\ Has(c, kind[c])
        /\ cause[c] # "nil"
    BY Zenon DEF Ready, InProgress, ProvisionOK
  <1>2. /\ box' = box /\ got' = got /\ ids' = ids /\ CmdWorks /\ SameOwners
        /\ box' \in Boxes /\ got' \in [Calls -> [Kinds -> Infos]]
    BY Zenon, Unfold DEF Ready, CmdWorks, SameOwners, LocalTypes
  <1>3. CASE kind[c] = "pg" /\ kind' = [kind EXCEPT ![c] = "svc"] /\ Goto(c, "inspect")
    <2>1. /\ kind' \in [Calls -> Kinds] /\ kind'[c] = "svc"
          /\ \A d \in Calls \ {c} : kind'[d] = kind[d]
      BY Zenon, <1>3 DEF TypeOK, Kinds
    <2>2. /\ "inspect" \in Labels /\ pc'[c] = "inspect" /\ answer' = answer
          /\ cause' = cause
      BY Zenon, <1>1, <1>3, GotoMoves DEF Labels
    <2>3. LocalTypes' /\ OnlyCall(c)
      BY Zenon, <1>2, <1>3, <2>1, <2>2, MovesFrame
    <2>4. Has(c, "pg")'
      BY Zenon, <1>1, <1>2, <1>3 DEF Has
    <2>5. ProvisionOK(c)'
      BY Zenon, <1>1, <2>1, <2>2, <2>4 DEF ProvisionOK
    <2> QED
      BY Zenon, <1>2, <2>2, <2>3, <2>5, BoundsKept DEF Frame, Outcome
  <1>4. CASE kind[c] = "svc" /\ UNCHANGED kind /\ Return(c, "ok", "none")
    <2>1. LocalTypes' /\ OnlyCall(c)
      BY Zenon, <1>2, <1>4, MovesFrame, Unfold DEF LocalTypes
    <2>2. "ok" \in Answers /\ "none" \in Causes
      BY Zenon DEF Answers, Causes
    <2>3. pc'[c] = "done" /\ answer'[c] = "ok" /\ cause'[c] # "nil"
      BY Zenon, <1>1, <1>4, <2>2, ReturnMoves
    <2>4. ProvisionOK(c)'
      BY Zenon, <2>3 DEF ProvisionOK, InProgress
    <2>5. Has(c, "pg") /\ Has(c, "svc")
      BY Zenon, <1>1, <1>4 DEF ProvisionOK
    <2> QED
      BY Zenon, <1>1, <1>2, <2>1, <2>3, <2>4, <2>5, BoundsKept DEF Frame, Outcome
  <1> QED
    BY Zenon, <1>3, <1>4 DEF Ready

\* Every step of Provision.
LEMMA ProvisionStepKeeps ==
  ASSUME TypeOK, "dns" \notin CmdErrs, NEW c \in Provisions, ProvisionOK(c), ProvisionStep(c)
  PROVE  Frame(c) /\ ProvisionOK(c)' /\ Outcome(c)
  <1>1. CASE TimesOut(c)
    BY Zenon, <1>1, FailingStep DEF TimesOut, InProgress, Errors, CmdWorks
  <1> QED
    BY Zenon, <1>1, InspectStep, StartStep, CreateStep, BootStep, InspectAgainStep, ReadyStep
    DEF ProvisionStep

-----------------------------------------------------------------------------
(* The steps of Deprovision *)

\* What a call of Deprovision relies on, while no Provision of its job is in
\* progress: what is left of the job's containers is among the ids to remove.
TeardownOK(t) ==
  /\ pc[t] \in {"new", "ps", "rm", "rmFailed", "done"}
  /\ pc[t] = "new" => answer[t] = "none"
  /\ InProgress(t) =>
       answer[t] = "none" \/ (answer[t] = "died" /\ pc[t] \in {"rm", "rmFailed"})
  /\ \A x \in ids[t] : x[1][1] = JobOf[t]
  /\ pc[t] = "rm" =>
       \A n \in Names : n[1] = JobOf[t] /\ Exists(n) => <<n, box[n].owner>> \in ids[t]
  /\ cause[t] # "nil" /\ answer[t] # "panic"

NothingLeft(j) == \A n \in Names : n[1] = j => ~Exists(n)

\* Every container is the one it was, or one of job j is removed.
Removes(j) ==
  \/ box' = box
  \/ \E n \in Names : n[1] = j /\ box' = [box EXCEPT ![n] = NoBox]

TeardownFrame(t) ==
  /\ TypeOK' /\ OnlyCall(t)
  /\ \A u \in Teardowns \ {t} : ids'[u] = ids[u]
  /\ Removes(JobOf[t])
  /\ \/ answer'[t] = answer[t]
     \/ answer[t] = "none" /\ answer'[t] = "failed" /\ box' = box
     \/ answer[t] = "none" /\ answer'[t] = "ok" /\ box' = box /\ NothingLeft(JobOf[t])

\* A step of a call that keeps the types of everything else.
LEMMA TypeFromParts ==
  ASSUME LocalTypes', box' \in Boxes, ids' \in [Teardowns -> SUBSET (Names \X Calls)],
         errs' \in 0 .. MaxErrs, deaths' \in 0 .. MaxDeaths, stops' \in 0 .. MaxStops
  PROVE  TypeOK'
  BY Zenon DEF TypeOK, LocalTypes, Boxes, Infos, Causes

\* docker ps lists the containers the job has.
LEMMA ListedType ==
  ASSUME TypeOK, NEW j
  PROVE  /\ Listed(j) \subseteq Names \X Calls
         /\ \A x \in Listed(j) : x[1][1] = j
         /\ \A n \in Names : n[1] = j /\ Exists(n) => <<n, box[n].owner>> \in Listed(j)
  BY OwnerOf DEF Listed

\* docker ps.
LEMMA PsStep ==
  ASSUME TypeOK, NEW t \in Teardowns, TeardownOK(t), Ps(t)
  PROVE  TeardownFrame(t) /\ TeardownOK(t)'
  <1> t \in Calls
    BY Zenon DEF Calls
  <1>1. /\ box' = box /\ kind' = kind /\ got' = got /\ InProgress(t) /\ answer[t] = "none"
        /\ CmdErrs \subseteq Errors
    BY Zenon, ErrorsOfCommands DEF Ps, InProgress, TeardownOK
  <1>2. CmdWorks \/ \E e \in CmdErrs : CmdFails(e)
    BY Zenon DEF Ps
  <1>3. /\ box' \in Boxes /\ kind' \in [Calls -> Kinds] /\ got' \in [Calls -> [Kinds -> Infos]]
        /\ ids \in [Teardowns -> SUBSET (Names \X Calls)]
    BY Zenon, <1>1, Unfold DEF LocalTypes
  <1>4. CASE ids' = ids /\ \E e \in CmdErrs : Fail(t, e)
    <2>1. PICK e \in Errors : Fail(t, e)
      BY Zenon, <1>1, <1>4
    <2>2. LocalTypes' /\ OnlyCall(t)
      BY Zenon, <1>1, <1>3, <2>1, MovesFrame
    <2>3. TypeOK'
      BY Zenon, <1>2, <1>3, <1>4, <2>2, BoundsKept, TypeFromParts
    <2>4. pc'[t] = "done" /\ answer'[t] = "failed" /\ cause'[t] # "nil"
      <3>1. Return(t, "failed", e) /\ "failed" \in Answers /\ e \in Causes /\ e # "nil"
        BY Zenon, <2>1 DEF Fail, Answers, Causes, Errors
      <3> QED
        BY Zenon, <1>1, <3>1, ReturnMoves DEF TeardownOK
    <2>5. TeardownOK(t)'
      BY Zenon, <1>4, <2>4 DEF TeardownOK, InProgress
    <2> QED
      BY Zenon, <1>1, <1>4, <2>2, <2>3, <2>4, <2>5 DEF TeardownFrame, Removes
  <1>5. CASE /\ ids' = [ids EXCEPT ![t] = Listed(JobOf[t])]
             /\ \/ Listed(JobOf[t]) = {} /\ Return(t, "ok", "none")
                \/ Goto(t, "rm")
    <2>1. /\ ids' \in [Teardowns -> SUBSET (Names \X Calls)] /\ ids'[t] = Listed(JobOf[t])
          /\ \A u \in Teardowns \ {t} : ids'[u] = ids[u]
      BY <1>3, <1>5, ListedType
    <2>2. /\ \A x \in ids'[t] : x[1][1] = JobOf[t]
          /\ \A n \in Names : n[1] = JobOf[t] /\ Exists(n)' => <<n, box'[n].owner>> \in ids'[t]
      <3>1. \A n \in Names : box'[n] = box[n] /\ (Exists(n)' <=> Exists(n))
        BY Zenon, <1>1 DEF Exists
      <3>2. /\ \A x \in Listed(JobOf[t]) : x[1][1] = JobOf[t]
            /\ \A n \in Names : n[1] = JobOf[t] /\ Exists(n)
                                 => <<n, box[n].owner>> \in Listed(JobOf[t])
        BY Zenon, ListedType
      <3> QED
        BY Zenon, <2>1, <3>1, <3>2
    <2>3. CASE Listed(JobOf[t]) = {} /\ Return(t, "ok", "none")
      <3>1. LocalTypes' /\ OnlyCall(t)
        BY Zenon, <1>1, <1>3, <2>3, MovesFrame
      <3>2. TypeOK'
        BY Zenon, <1>2, <1>3, <2>1, <3>1, BoundsKept, TypeFromParts
      <3>3. "ok" \in Answers /\ "none" \in Causes
        BY Zenon DEF Answers, Causes
      <3>4. pc'[t] = "done" /\ answer'[t] = "ok" /\ cause'[t] # "nil"
        BY Zenon, <1>1, <2>3, <3>3, ReturnMoves DEF TeardownOK
      <3>5. NothingLeft(JobOf[t])
        BY Zenon, <2>3, ListedType DEF NothingLeft
      <3>6. TeardownOK(t)'
        BY Zenon, <2>2, <3>4 DEF TeardownOK, InProgress
      <3> QED
        BY Zenon, <1>1, <2>1, <3>1, <3>2, <3>4, <3>5, <3>6 DEF TeardownFrame, Removes
    <2>4. CASE Goto(t, "rm")
      <3>1. "rm" \in Labels
        BY Zenon DEF Labels
      <3>2. LocalTypes' /\ OnlyCall(t)
        BY Zenon, <1>1, <1>3, <2>4, <3>1, MovesFrame
      <3>3. TypeOK'
        BY Zenon, <1>2, <1>3, <2>1, <3>2, BoundsKept, TypeFromParts
      <3>4. pc'[t] = "rm" /\ answer' = answer /\ cause' = cause
        BY Zenon, <1>1, <2>4, <3>1, GotoMoves
      <3>5. TeardownOK(t)'
        BY Zenon, <1>1, <2>2, <3>4 DEF TeardownOK
      <3> QED
        BY Zenon, <1>1, <2>1, <3>2, <3>3, <3>4, <3>5 DEF TeardownFrame, Removes
    <2> QED
      BY Zenon, <1>5, <2>3, <2>4
  <1> QED
    BY Zenon, <1>4, <1>5 DEF Ps

\* docker rm removes one of the ids.
LEMMA RmStep ==
  ASSUME TypeOK, NEW t \in Teardowns, TeardownOK(t), NEW x \in ids[t], Rm(t, x)
  PROVE  TeardownFrame(t) /\ TeardownOK(t)'
  <1> t \in Calls
    BY Zenon DEF Calls
  <1>1. /\ kind' = kind /\ got' = got /\ answer' = answer /\ cause' = cause
        /\ ids' = [ids EXCEPT ![t] = ids[t] \ {x}] /\ pc[t] \in {"rm", "rmFailed"}
    BY Zenon DEF Rm
  <1>2. CmdWorks \/ \E e \in CmdErrs : CmdFails(e)
    BY Zenon DEF Rm
  <1>3. box \in Boxes /\ LocalTypes /\ ids \in [Teardowns -> SUBSET (Names \X Calls)]
    BY Zenon, Unfold
  <1>4. /\ ids' \in [Teardowns -> SUBSET (Names \X Calls)] /\ ids'[t] = ids[t] \ {x}
        /\ \A u \in Teardowns \ {t} : ids'[u] = ids[u]
    BY Zenon, <1>1, <1>3
  <1>5. x[1] \in Names /\ x[2] \in Calls /\ x = <<x[1], x[2]>> /\ x[1][1] = JobOf[t]
    <2>1. x \in Names \X Calls /\ x[1][1] = JobOf[t]
      BY Zenon, <1>3 DEF TeardownOK
    <2> QED
      BY <2>1
  <1>6. /\ pc' \in [Calls -> Labels] /\ pc'[t] \in {"rm", "rmFailed"}
        /\ \A d \in Calls \ {t} : pc'[d] = pc[d]
    BY Zenon, <1>1, <1>3 DEF Rm, LocalTypes, Labels
  <1>7. Removes(JobOf[t]) /\ box' \in Boxes
    BY Zenon, <1>3, <1>5 DEF Rm, Removes, Boxes
  <1>8. LocalTypes' /\ OnlyCall(t)
    BY Zenon, <1>1, <1>3, <1>6 DEF LocalTypes, OnlyCall
  <1>9. TypeOK'
    BY Zenon, <1>2, <1>4, <1>7, <1>8, BoundsKept, TypeFromParts
  <1>10. pc'[t] = "rm" =>
           \A n \in Names : n[1] = JobOf[t] /\ Exists(n)' => <<n, box'[n].owner>> \in ids'[t]
    <2> SUFFICES ASSUME pc'[t] = "rm", NEW n \in Names, n[1] = JobOf[t], Exists(n)'
                 PROVE  <<n, box'[n].owner>> \in ids[t] /\ <<n, box'[n].owner>> # x
      BY Zenon, <1>4
    <2>1. pc[t] = "rm"
      BY Zenon, <1>1, <1>3 DEF Rm, LocalTypes
    <2>2. CASE box[x[1]].owner = x[2] /\ box' = [box EXCEPT ![x[1]] = NoBox]
      <3>1. n # x[1] /\ box'[n] = box[n]
        BY Zenon, <1>3, <1>5, <2>2 DEF Exists, Boxes
      <3> QED
        BY <1>5, <2>1, <3>1 DEF TeardownOK, Exists
    <2>3. CASE box[x[1]].owner # x[2] /\ box' = box
      BY <1>5, <2>1, <2>3 DEF TeardownOK, Exists
    <2>4. pc' # [pc EXCEPT ![t] = "rmFailed"]
      BY Zenon, <1>3 DEF LocalTypes
    <2> QED
      BY Zenon, <2>2, <2>3, <2>4 DEF Rm
  <1>11. TeardownOK(t)'
    BY Zenon, <1>1, <1>4, <1>6, <1>10 DEF TeardownOK, InProgress
  <1> QED
    BY Zenon, <1>1, <1>4, <1>7, <1>8, <1>9, <1>11 DEF TeardownFrame

\* docker rm is through.
LEMMA RmDoneStep ==
  ASSUME TypeOK, NEW t \in Teardowns, TeardownOK(t), RmDone(t)
  PROVE  TeardownFrame(t) /\ TeardownOK(t)'
  <1> t \in Calls
    BY Zenon DEF Calls
  <1>1. /\ box' = box /\ kind' = kind /\ got' = got /\ ids' = ids /\ ids[t] = {}
        /\ InProgress(t) /\ CmdWorks
    BY Zenon DEF RmDone, InProgress, CmdWorks
  <1>2. box \in Boxes /\ LocalTypes /\ ids \in [Teardowns -> SUBSET (Names \X Calls)]
    BY Zenon, Unfold
  <1>3. "ok" \in Answers /\ "failed" \in Answers /\ "none" \in Causes /\ "other" \in Causes
        /\ "other" \in Errors
    BY Zenon DEF Answers, Causes, Errors
  <1>4. CASE pc[t] = "rm" /\ Return(t, "ok", "none")
    <2>1. LocalTypes' /\ OnlyCall(t)
      BY Zenon, <1>1, <1>2, <1>4, MovesFrame DEF LocalTypes
    <2>2. TypeOK'
      BY Zenon, <1>1, <1>2, <2>1, BoundsKept, TypeFromParts
    <2>3. /\ pc'[t] = "done" /\ answer'[t] = (IF answer[t] = "died" THEN "died" ELSE "ok")
          /\ cause'[t] # "nil"
      BY Zenon, <1>3, <1>4, ReturnMoves DEF TeardownOK
    <2>4. NothingLeft(JobOf[t])
      BY Zenon, <1>1, <1>4 DEF TeardownOK, NothingLeft
    <2>5. TeardownOK(t)'
      BY Zenon, <1>1, <2>3 DEF TeardownOK, InProgress
    <2> QED
      BY Zenon, <1>1, <2>1, <2>2, <2>3, <2>4, <2>5 DEF TeardownFrame, Removes, TeardownOK
  <1>5. CASE pc[t] = "rmFailed" /\ Fail(t, "other")
    <2>1. LocalTypes' /\ OnlyCall(t)
      BY Zenon, <1>1, <1>2, <1>3, <1>5, MovesFrame DEF LocalTypes
    <2>2. TypeOK'
      BY Zenon, <1>1, <1>2, <2>1, BoundsKept, TypeFromParts
    <2>3. Return(t, "failed", "other")
      BY Zenon, <1>5 DEF Fail
    <2>4. /\ pc'[t] = "done" /\ answer'[t] = (IF answer[t] = "died" THEN "died" ELSE "failed")
          /\ cause'[t] # "nil"
      BY Zenon, <1>3, <2>3, ReturnMoves DEF TeardownOK
    <2>5. TeardownOK(t)'
      BY Zenon, <1>1, <2>4 DEF TeardownOK, InProgress
    <2> QED
      BY Zenon, <1>1, <2>1, <2>2, <2>4, <2>5 DEF TeardownFrame, Removes, TeardownOK
  <1> QED
    BY Zenon, <1>4, <1>5 DEF RmDone

-----------------------------------------------------------------------------
(* The inductive invariant *)

\* A teardown and a Provision of the same job are not in progress at once.
Apart ==
  \A c \in Provisions, t \in Teardowns :
    JobOf[c] = JobOf[t] => ~(InProgress(c) /\ InProgress(t))

IInv ==
  /\ TypeOK
  /\ \A c \in Provisions : ProvisionOK(c)
  /\ \A t \in Teardowns : TeardownOK(t)
  /\ Apart

SameCall(d) ==
  /\ pc'[d] = pc[d] /\ kind'[d] = kind[d] /\ got'[d] = got[d]
  /\ answer'[d] = answer[d] /\ cause'[d] = cause[d]

\* A Provision whose containers stay is not disturbed by the others.
LEMMA ProvisionUndisturbed ==
  ASSUME TypeOK, NEW d \in Provisions, ProvisionOK(d), SameCall(d),
         InProgress(d) =>
           \A n \in Names : n[1] = JobOf[d] /\ Exists(n) => box'[n].owner = box[n].owner
  PROVE  ProvisionOK(d)'
  <1> d \in Calls
    BY Zenon DEF Calls
  <1>1. InProgress(d)' <=> InProgress(d)
    BY Zenon DEF SameCall, InProgress
  <1>2. NameOf(d)' = NameOf(d) /\ NameOf(d) \in Names /\ NameOf(d)[1] = JobOf[d]
        /\ kind[d] \in Kinds
    BY Zenon, NameType DEF SameCall, NameOf
  <1>3. ASSUME InProgress(d), NEW k \in Kinds, Has(d, k) PROVE Has(d, k)'
    <2>1. <<JobOf[d], k>> \in Names /\ <<JobOf[d], k>>[1] = JobOf[d]
      BY Zenon, ProvisionerAssumption DEF Names
    <2>2. Exists(<<JobOf[d], k>>)
      BY Zenon, <1>3, <2>1, OwnerOf DEF Has
    <2> QED
      BY Zenon, <1>3, <2>1, <2>2 DEF Has, SameCall
  <1>4. ASSUME InProgress(d), Exists(NameOf(d))
        PROVE  Exists(NameOf(d))' /\ box'[NameOf(d)].owner = box[NameOf(d)].owner
    <2>1. box'[NameOf(d)].owner = box[NameOf(d)].owner /\ box[NameOf(d)].owner # NoCall
      BY Zenon, <1>2, <1>4, OwnerOf
    <2> QED
      BY <1>2, <2>1 DEF Exists, NoBox
  <1>5. CASE ~InProgress(d)
    BY Zenon, <1>1, <1>5 DEF ProvisionOK, SameCall
  <1>6. CASE InProgress(d)
    <2>1. box[NameOf(d)].owner = d => Exists(NameOf(d))
      BY Zenon, <1>2, OwnerOf
    <2>2. "pg" \in Kinds
      BY Zenon DEF Kinds
    <2>3. kind'[d] = "svc" => Has(d, "pg")'
      BY Zenon, <1>3, <1>6, <2>2 DEF ProvisionOK, SameCall
    <2>4. pc'[d] = "wait" => Has(d, kind[d])'
      <3>1. pc[d] = "wait" => Has(d, kind[d])
        BY Zenon, <1>6 DEF ProvisionOK
      <3> QED
        BY Zenon, <1>2, <1>3, <1>6, <3>1 DEF SameCall, Has
    <2>5. pc'[d] \in {"start", "reinspect"} => Exists(NameOf(d))'
      BY Zenon, <1>4, <1>6 DEF ProvisionOK, SameCall
    <2>6. pc'[d] \in {"boot", "inspectNew"} => box'[NameOf(d)'].owner = d
      BY Zenon, <1>2, <1>4, <1>6, <2>1 DEF ProvisionOK, SameCall
    <2>7. /\ pc'[d] \notin {"ps", "rm", "rmFailed", "new"}
          /\ \/ answer'[d] = "none"
             \/ answer'[d] = "died" /\ pc'[d] \in {"create", "boot", "start"}
          /\ cause'[d] # "nil" /\ answer'[d] # "panic"
      BY Zenon, <1>6 DEF ProvisionOK, SameCall, InProgress
    <2> QED
      BY Zenon, <2>3, <2>4, <2>5, <2>6, <2>7 DEF ProvisionOK
  <1> QED
    BY Zenon, <1>5, <1>6

\* A teardown is not disturbed unless its job gets a new container.
LEMMA TeardownUndisturbed ==
  ASSUME NEW t \in Teardowns, TeardownOK(t), SameCall(t), ids'[t] = ids[t],
         pc[t] = "rm" =>
           \A n \in Names : n[1] = JobOf[t] /\ Exists(n)' =>
                              Exists(n) /\ box'[n].owner = box[n].owner
  PROVE  TeardownOK(t)'
  BY Zenon DEF TeardownOK, SameCall, InProgress

\* A step that keeps the owners keeps what the other calls rely on.
LEMMA OwnersMatch ==
  ASSUME TypeOK, TypeOK', NEW n \in Names, box'[n].owner = box[n].owner
  PROVE  Exists(n)' <=> Exists(n)
  BY ProvisionerAssumption DEF TypeOK, Exists, Container, NoBox

\* A step of Provision keeps what the other calls rely on.
LEMMA ProvisionKeepsIInv ==
  ASSUME IInv, "dns" \notin CmdErrs, NEW c \in Provisions, ProvisionStep(c)
  PROVE  IInv'
  <1> c \in Calls /\ Provisions \subseteq Calls /\ Teardowns \subseteq Calls
    BY Zenon DEF Calls
  <1> c \notin Teardowns
    BY Zenon, ProvisionerAssumption
  <1>1. Frame(c) /\ ProvisionOK(c)'
    BY Zenon, ProvisionStepKeeps DEF IInv
  <1>2. TypeOK /\ TypeOK'
    BY Zenon, <1>1, Unfold, TypeFromParts DEF IInv, Frame
  <1>3. InProgress(c) /\ NameOf(c) \in Names /\ NameOf(c)[1] = JobOf[c]
    <2>1. InProgress(c)
      BY
      DEF ProvisionStep, Inspect, Start, Create, Boot, InspectAgain, Ready, TimesOut, InProgress
    <2> QED
      BY <1>2, <2>1, NameType
  <1>4. \A d \in Calls \ {c} : SameCall(d)
    BY Zenon, <1>1 DEF Frame, OnlyCall, SameCall
  <1>5. \A n \in Names : \/ box'[n].owner = box[n].owner
                         \/ n = NameOf(c) /\ ~Exists(n)
    BY Zenon, <1>1 DEF Frame, SameOwners, Makes
  <1>6. ASSUME NEW d \in Provisions PROVE ProvisionOK(d)'
    <2>1. CASE d = c
      BY Zenon, <1>1, <2>1
    <2>2. CASE d # c
      BY Zenon, <1>2, <1>4, <1>5, <2>2, ProvisionUndisturbed DEF IInv
    <2> QED
      BY Zenon, <2>1, <2>2
  <1>7. ASSUME NEW t \in Teardowns PROVE TeardownOK(t)'
    <2>1. SameCall(t) /\ ids'[t] = ids[t] /\ TeardownOK(t)
      BY Zenon, <1>1, <1>4 DEF Frame, IInv
    <2>2. pc[t] = "rm" => JobOf[t] # JobOf[c]
      BY Zenon, <1>3 DEF IInv, Apart, InProgress
    <2>3. ASSUME pc[t] = "rm", NEW n \in Names, n[1] = JobOf[t], Exists(n)'
          PROVE  Exists(n) /\ box'[n].owner = box[n].owner
      BY Zenon, <1>2, <1>3, <1>5, <2>2, <2>3, OwnersMatch
    <2> QED
      BY Zenon, <2>1, <2>3, TeardownUndisturbed
  <1>8. Apart'
    BY Zenon, <1>3, <1>4 DEF IInv, Apart, SameCall, InProgress
  <1> QED
    BY Zenon, <1>2, <1>6, <1>7, <1>8 DEF IInv

\* Every step of Deprovision.
LEMMA DeprovisionStepKeeps ==
  ASSUME TypeOK, NEW t \in Teardowns, TeardownOK(t), DeprovisionStep(t)
  PROVE  TeardownFrame(t) /\ TeardownOK(t)' /\ InProgress(t)
  <1>1. InProgress(t)
    BY Zenon DEF DeprovisionStep, Ps, Rm, RmDone, InProgress
  <1> QED
    BY Zenon, <1>1, PsStep, RmStep, RmDoneStep DEF DeprovisionStep

\* A step of Deprovision keeps what the other calls rely on.
LEMMA DeprovisionKeepsIInv ==
  ASSUME IInv, NEW t \in Teardowns, DeprovisionStep(t)
  PROVE  IInv'
  <1> t \in Calls /\ Provisions \subseteq Calls /\ Teardowns \subseteq Calls
    BY Zenon DEF Calls
  <1> t \notin Provisions
    BY Zenon, ProvisionerAssumption
  <1>1. TeardownFrame(t) /\ TeardownOK(t)' /\ InProgress(t)
    BY Zenon, DeprovisionStepKeeps DEF IInv
  <1>2. TypeOK /\ TypeOK'
    BY Zenon, <1>1 DEF IInv, TeardownFrame
  <1>3. \A d \in Calls \ {t} : SameCall(d)
    BY Zenon, <1>1 DEF TeardownFrame, OnlyCall, SameCall
  <1>4. \A n \in Names : /\ n[1] # JobOf[t] => box'[n] = box[n]
                         /\ Exists(n)' => Exists(n) /\ box'[n] = box[n]
    <2>1. box \in Boxes
      BY Zenon, <1>2, Unfold
    <2> QED
      BY Zenon, <1>1, <2>1 DEF TeardownFrame, Removes, Exists, Boxes
  <1>5. ASSUME NEW d \in Provisions PROVE ProvisionOK(d)'
    <2>1. InProgress(d) => JobOf[d] # JobOf[t]
      BY Zenon, <1>1 DEF IInv, Apart
    <2> QED
      BY Zenon, <1>2, <1>3, <1>4, <2>1, ProvisionUndisturbed DEF IInv
  <1>6. ASSUME NEW u \in Teardowns PROVE TeardownOK(u)'
    <2>1. CASE u = t
      BY Zenon, <1>1, <2>1
    <2>2. CASE u # t
      <3>1. SameCall(u) /\ ids'[u] = ids[u] /\ TeardownOK(u)
        BY Zenon, <1>1, <1>3, <2>2 DEF TeardownFrame, IInv
      <3> QED
        BY Zenon, <1>4, <3>1, TeardownUndisturbed
    <2> QED
      BY Zenon, <2>1, <2>2
  <1>7. Apart'
    BY Zenon, <1>1, <1>3 DEF IInv, Apart, SameCall, InProgress
  <1> QED
    BY Zenon, <1>2, <1>5, <1>6, <1>7 DEF IInv

\* A call begins: the guard MayBegin is what keeps Apart.
LEMMA BeginKeepsIInv ==
  ASSUME IInv, ~TeardownsOverlap, NEW c \in Calls,
         \/ c \in Provisions /\ BeginProvision(c)
         \/ c \in Teardowns /\ BeginDeprovision(c)
  PROVE  IInv' /\ box' = box /\ got' = got /\ answer' = answer
  <1> Provisions \subseteq Calls /\ Teardowns \subseteq Calls
    BY Zenon DEF Calls
  <1>1. /\ pc[c] = "new" /\ MayBegin(c) /\ (Goto(c, "inspect") \/ Goto(c, "ps"))
        /\ UNCHANGED <<box, kind, got, ids, boundVars>>
        /\ "inspect" \in Labels /\ "ps" \in Labels /\ TypeOK
    BY Zenon DEF BeginProvision, BeginDeprovision, Labels, IInv
  <1>2. answer[c] = "none" /\ cause[c] # "nil"
    BY Zenon, <1>1 DEF IInv, ProvisionOK, TeardownOK, Calls
  <1>3. /\ pc' \in [Calls -> Labels] /\ answer' = answer /\ cause' = cause
        /\ \A d \in Calls \ {c} : pc'[d] = pc[d]
        /\ c \in Provisions => pc'[c] = "inspect"
        /\ c \in Teardowns => pc'[c] = "ps"
    <2>1. CASE c \in Provisions
      BY Zenon, <1>1, <1>2, <2>1, GotoMoves, ProvisionerAssumption DEF BeginProvision
    <2>2. CASE c \in Teardowns
      BY Zenon, <1>1, <1>2, <2>2, GotoMoves, ProvisionerAssumption DEF BeginDeprovision
    <2> QED
      BY Zenon, <2>1, <2>2
  <1>4. TypeOK'
    BY Zenon, <1>1, <1>3 DEF TypeOK, boundVars
  <1>5. \A d \in Calls \ {c} : SameCall(d)
    BY Zenon, <1>1, <1>3 DEF SameCall
  <1>6. \A n \in Names : (Exists(n)' <=> Exists(n)) /\ box'[n] = box[n]
    BY Zenon, <1>1 DEF Exists
  <1>7. ASSUME NEW d \in Provisions PROVE ProvisionOK(d)'
    <2>1. CASE d = c
      <3>1. /\ ProvisionOK(c) /\ kind[c] = "pg" /\ kind'[c] = kind[c]
            /\ pc'[c] = "inspect" /\ answer'[c] = "none" /\ cause'[c] # "nil"
        BY Zenon, <1>1, <1>2, <1>3, <2>1 DEF ProvisionOK, IInv
      <3> QED
        BY Zenon, <2>1, <3>1 DEF ProvisionOK
    <2>2. CASE d # c
      BY Zenon, <1>1, <1>5, <1>6, <2>2, ProvisionUndisturbed DEF IInv
    <2> QED
      BY Zenon, <2>1, <2>2
  <1>8. ASSUME NEW t \in Teardowns PROVE TeardownOK(t)'
    <2>1. CASE t = c
      <3>1. /\ TeardownOK(c) /\ pc'[c] = "ps" /\ ids'[c] = ids[c]
            /\ answer'[c] = "none" /\ cause'[c] # "nil"
        BY Zenon, <1>1, <1>2, <1>3, <2>1 DEF IInv
      <3> QED
        BY Zenon, <2>1, <3>1 DEF TeardownOK
    <2>2. CASE t # c
      BY Zenon, <1>1, <1>5, <1>6, <2>2, TeardownUndisturbed DEF IInv
    <2> QED
      BY SMTT(20), <2>1, <2>2
  <1>9. Apart'
    <2> SUFFICES ASSUME NEW p \in Provisions, NEW t \in Teardowns, JobOf[p] = JobOf[t],
                        InProgress(p)', InProgress(t)'
                 PROVE  FALSE
      BY Zenon DEF Apart
    <2>1. p # t
      BY Zenon, ProvisionerAssumption
    <2>2. CASE p = c
      BY Zenon, <1>1, <1>3, <2>1, <2>2, ProvisionerAssumption DEF MayBegin, InProgress
    <2>3. CASE t = c
      BY Zenon, <1>1, <1>3, <2>1, <2>3, ProvisionerAssumption DEF MayBegin, InProgress
    <2>4. CASE p # c /\ t # c
      BY Zenon, <1>3, <2>4 DEF IInv, Apart, InProgress
    <2> QED
      BY Zenon, <2>2, <2>3, <2>4
  <1> QED
    BY Zenon, <1>1, <1>3, <1>4, <1>7, <1>8, <1>9 DEF IInv

\* A process dies, and its command ends or goes on.
LEMMA DieKeepsIInv ==
  ASSUME IInv, NEW c \in Calls, Die(c)
  PROVE  IInv'
  <1> Provisions \subseteq Calls /\ Teardowns \subseteq Calls
    BY Zenon DEF Calls
  <1>1. /\ InProgress(c) /\ answer[c] = "none" /\ TypeOK
        /\ UNCHANGED <<box, kind, got, ids, cause, errs, stops>>
        /\ answer' = [answer EXCEPT ![c] = "died"]
        /\ \/ pc' = [pc EXCEPT ![c] = "done"]
           \/ pc[c] \in {"create", "boot", "start", "rm", "rmFailed"} /\ pc' = pc
    BY Zenon DEF Die, IInv
  <1>2. /\ pc' \in [Calls -> Labels] /\ answer' \in [Calls -> Answers]
        /\ answer'[c] = "died"
        /\ \/ pc'[c] = "done"
           \/ pc[c] \in {"create", "boot", "start", "rm", "rmFailed"} /\ pc'[c] = pc[c]
        /\ \A d \in Calls \ {c} : pc'[d] = pc[d] /\ answer'[d] = answer[d]
    BY Zenon, <1>1 DEF TypeOK, Labels, Answers
  <1>3. deaths' \in 0 .. MaxDeaths
    BY <1>1, ProvisionerAssumption DEF Die, TypeOK
  <1>4. TypeOK'
    BY Zenon, <1>1, <1>2, <1>3 DEF TypeOK
  <1>5. \A d \in Calls \ {c} : SameCall(d)
    BY Zenon, <1>1, <1>2 DEF SameCall
  <1>6. \A n \in Names : (Exists(n)' <=> Exists(n)) /\ box'[n] = box[n]
    BY Zenon, <1>1 DEF Exists
  <1>7. ASSUME NEW d \in Provisions PROVE ProvisionOK(d)'
    <2>1. CASE d = c
      <3>1. ProvisionOK(c)
        BY Zenon, <2>1 DEF IInv
      <3>2. (\A k \in Kinds : Has(c, k)' <=> Has(c, k)) /\ NameOf(c)' = NameOf(c)
        BY Zenon, <1>1 DEF Has, NameOf
      <3>3. CASE pc'[c] = "done"
        BY Zenon, <1>1, <1>2, <2>1, <3>1, <3>3 DEF ProvisionOK, InProgress
      <3>4. CASE pc[c] \in {"create", "boot", "start"} /\ pc'[c] = pc[c]
        <4>1. /\ kind'[c] = kind[c] /\ cause'[c] = cause[c] /\ box' = box
              /\ answer'[c] = "died" /\ (Exists(NameOf(c))' <=> Exists(NameOf(c)))
              /\ kind[c] = "svc" => (Has(c, "pg")' <=> Has(c, "pg"))
          BY Zenon, <1>1, <1>2, <3>2 DEF Exists, Kinds
        <4> QED
          BY Zenon, <1>1, <2>1, <3>1, <3>2, <3>4, <4>1 DEF ProvisionOK, InProgress
      <3> QED
        BY Zenon, <1>2, <3>1, <3>3, <3>4 DEF ProvisionOK
    <2>2. CASE d # c
      BY Zenon, <1>1, <1>5, <1>6, <2>2, ProvisionUndisturbed DEF IInv
    <2> QED
      BY SMTT(20), <2>1, <2>2
  <1>8. ASSUME NEW t \in Teardowns PROVE TeardownOK(t)'
    <2>1. CASE t = c
      <3>1. TeardownOK(c) /\ ids'[c] = ids[c] /\ cause'[c] = cause[c] /\ box' = box
        BY Zenon, <1>1, <2>1 DEF IInv
      <3> QED
        BY Zenon, <1>1, <1>2, <1>6, <2>1, <3>1 DEF TeardownOK, InProgress
    <2>2. CASE t # c
      BY Zenon, <1>1, <1>5, <1>6, <2>2, TeardownUndisturbed DEF IInv
    <2> QED
      BY SMTT(20), <2>1, <2>2
  <1>9. Apart'
    BY Zenon, <1>1, <1>2 DEF IInv, Apart, InProgress
  <1> QED
    BY Zenon, <1>4, <1>7, <1>8, <1>9 DEF IInv

\* Containers stop and start by themselves; they stay the containers they are.
LEMMA ContainersKeepIInv ==
  ASSUME IInv, NEW n \in Names, Stop(n) \/ Restart(n)
  PROVE  IInv' /\ SameOwners /\ UNCHANGED callVars
  <1> Provisions \subseteq Calls /\ Teardowns \subseteq Calls
    BY Zenon DEF Calls
  <1>1. TypeOK /\ UNCHANGED callVars /\ Exists(n) /\ box \in Boxes
    BY Zenon, OwnerOf, Unfold DEF IInv, Stop, Restart
  <1>2. box' \in Boxes /\ SameOwners
    <2>1. CASE Restart(n)
      BY Zenon, <1>1, <2>1, StartedKeeps DEF Restart, SameOwners
    <2>2. CASE Stop(n)
      <3>1. [owner |-> box[n].owner, running |-> FALSE, port |-> NoPort] \in Container
        BY Zenon, <1>1, OwnerOf DEF Container
      <3> QED
        BY Zenon, <1>1, <2>2, <3>1 DEF Stop, SameOwners, Boxes
    <2> QED
      BY Zenon, <2>1, <2>2
  <1>3. errs' \in 0 .. MaxErrs /\ deaths' \in 0 .. MaxDeaths /\ stops' \in 0 .. MaxStops
    BY <1>1, ProvisionerAssumption DEF Stop, Restart, boundVars, TypeOK
  <1>4. TypeOK'
    BY Zenon, <1>1, <1>2, <1>3 DEF TypeOK, callVars, Boxes
  <1>5. \A d \in Calls : SameCall(d)
    BY Zenon, <1>1 DEF SameCall, callVars
  <1>6. \A m \in Names : (Exists(m)' <=> Exists(m)) /\ box'[m].owner = box[m].owner
    BY Zenon, <1>1, <1>2, <1>4, OwnersMatch DEF SameOwners
  <1>7. \A d \in Provisions : ProvisionOK(d)'
    BY Zenon, <1>1, <1>5, <1>6, ProvisionUndisturbed DEF IInv
  <1>8. \A t \in Teardowns : TeardownOK(t)'
    BY Zenon, <1>1, <1>5, <1>6, TeardownUndisturbed DEF IInv, callVars
  <1>9. Apart'
    BY Zenon, <1>1 DEF IInv, Apart, InProgress, callVars
  <1> QED
    BY Zenon, <1>1, <1>2, <1>4, <1>7, <1>8, <1>9 DEF IInv

\* The invariant holds at the start.
LEMMA InitIInv == Init => IInv
  <1> SUFFICES ASSUME Init PROVE IInv
    OBVIOUS
  <1>1. TypeOK
    BY ProvisionerAssumption DEF Init, TypeOK, NoInfo, Kinds, Labels, Answers
  <1>2. \A c \in Calls : /\ pc[c] = "new" /\ kind[c] = "pg" /\ answer[c] = "none"
                         /\ cause[c] = "none"
    BY Zenon DEF Init
  <1>3. \A c \in Provisions : ProvisionOK(c)
    BY Zenon, <1>2 DEF ProvisionOK, InProgress, Calls
  <1>4. \A t \in Teardowns : TeardownOK(t)
    BY Zenon, <1>2 DEF TeardownOK, InProgress, Calls, Init
  <1>5. Apart
    BY SMTT(20), <1>2 DEF Apart, InProgress, Calls
  <1> QED
    BY Zenon, <1>1, <1>3, <1>4, <1>5 DEF IInv

\* It is about nothing but the variables.
LEMMA StutterKeepsIInv == IInv /\ UNCHANGED vars => IInv'
  <1> SUFFICES ASSUME IInv, UNCHANGED vars PROVE IInv'
    OBVIOUS
  <1>1. UNCHANGED <<box, pc, kind, got, answer, cause, ids, errs, deaths, stops>>
    BY Zenon DEF vars, callVars, boundVars
  <1>2. TypeOK'
    BY Zenon, <1>1 DEF IInv, TypeOK
  <1>3. \A c \in Provisions : ProvisionOK(c)'
    BY Zenon, <1>1 DEF IInv, ProvisionOK, InProgress, Has, Exists, NameOf
  <1>4. \A t \in Teardowns : TeardownOK(t)'
    BY Zenon, <1>1 DEF IInv, TeardownOK, InProgress, Exists
  <1>5. Apart'
    BY Zenon, <1>1 DEF IInv, Apart, InProgress
  <1> QED
    BY Zenon, <1>2, <1>3, <1>4, <1>5 DEF IInv

\* Every step keeps it.
LEMMA StepKeepsIInv ==
  ASSUME ~TeardownsOverlap, "dns" \notin CmdErrs, IInv, [Next]_vars
  PROVE  IInv'
  <1> Provisions \subseteq Calls /\ Teardowns \subseteq Calls
    BY Zenon DEF Calls
  <1>1. CASE UNCHANGED vars
    BY Zenon, <1>1, StutterKeepsIInv
  <1>2. ASSUME NEW c \in Provisions, BeginProvision(c) \/ ProvisionStep(c) PROVE IInv'
    BY Zenon, <1>2, BeginKeepsIInv, ProvisionKeepsIInv
  <1>3. ASSUME NEW t \in Teardowns, BeginDeprovision(t) \/ DeprovisionStep(t) PROVE IInv'
    BY Zenon, <1>3, BeginKeepsIInv, DeprovisionKeepsIInv
  <1>4. ASSUME NEW c \in Calls, Die(c) PROVE IInv'
    BY Zenon, <1>4, DieKeepsIInv
  <1>5. ASSUME NEW n \in Names, Stop(n) \/ Restart(n) PROVE IInv'
    BY Zenon, <1>5, ContainersKeepIInv
  <1> QED
    BY Zenon, <1>1, <1>2, <1>3, <1>4, <1>5 DEF Next

\* While teardowns and provisions of a job come one after the other and
\* docker inspect is not misled by an unresolvable host, the result of the
\* second inspect is never nil (docker.go 97, 130, 159, 198).
THEOREM InspectFindsContainer ==
  ASSUME ~TeardownsOverlap, "dns" \notin CmdErrs
  PROVE  Spec => []NeverNil
  <1>1. IInv => NeverNil
    BY Zenon DEF IInv, NeverNil, ProvisionOK, TeardownOK, Calls
  <1> QED
    BY <1>1, InitIInv, StepKeepsIInv, PTL DEF Spec

-----------------------------------------------------------------------------
(* The provisioner implements its interface *)

Owner  == [n \in Names |-> box[n].owner]
Reply(c) ==
  [tag |-> Tag(answer[c]),
   of  |-> [k \in Kinds |-> IF c \in Provisions /\ answer[c] = "ok"
                            THEN got[c][k].creds ELSE NoCall]]
Replies == [c \in Calls |-> Reply(c)]

\* Answers that say nothing, and errors, name no resource.
LEMMA ReplyOf ==
  ASSUME NEW c \in Calls
  PROVE  /\ answer[c] \in {"none", "died"} =>
              Reply(c) = [tag |-> "none", of |-> [k \in Kinds |-> NoCall]]
         /\ answer[c] \in {"transient", "permanent", "failed"} =>
              Reply(c) = [tag |-> "error", of |-> [k \in Kinds |-> NoCall]]
         /\ answer[c] = "ok" /\ c \notin Provisions =>
              Reply(c) = [tag |-> "ok", of |-> [k \in Kinds |-> NoCall]]
         /\ answer[c] = "ok" /\ c \in Provisions =>
              Reply(c) = [tag |-> "ok", of |-> [k \in Kinds |-> got[c][k].creds]]
  BY Zenon DEF Reply, Tag

\* The start of the provisioner is the start of its promise.
LEMMA PromiseInit == Init => Promise!Init
  <1> SUFFICES ASSUME Init PROVE Promise!Init
    OBVIOUS
  <1>1. \A c \in Calls : Reply(c) = [tag |-> "none", of |-> [k \in Kinds |-> NoCall]]
    BY Zenon, ReplyOf DEF Init
  <1>2. Owner = [n \in Names |-> NoCall]
    BY Zenon DEF Owner, Init, NoBox
  <1>3. Replies = [c \in Calls |-> [tag |-> "none", of |-> [k \in Kinds |-> NoCall]]]
    BY Zenon, <1>1 DEF Replies
  <1> QED
    BY Zenon, <1>2, <1>3 DEF Promise!Init, Promise!None, Promise!Names, Promise!Calls, Owner,
       Replies, Reply, Names, Calls

\* The answer of c changes and no other does.
LEMMA OneReply ==
  ASSUME NEW c \in Calls, OnlyCall(c)
  PROVE  Replies' = [Replies EXCEPT ![c] = Reply(c)']
  <1>1. \A d \in Calls \ {c} : Reply(d)' = Reply(d)
    BY SMTT(20) DEF OnlyCall, Reply
  <1> QED
    BY Zenon, <1>1 DEF Replies

\* A step that changes the containers of one name, and no answer.
LEMMA WorkStep ==
  ASSUME Replies' = Replies, NEW n \in Names, Owner[n] = NoCall, NEW c \in Calls,
         Owner' = [Owner EXCEPT ![n] = c]
  PROVE  Promise!Next
  BY Zenon DEF Promise!Next, Promise!Work, Promise!Appears, Promise!Names, Promise!Calls,
         Owner, Replies, Reply, Names, Calls

\* A step that removes a container, and answers nothing.
LEMMA RemovalStep ==
  ASSUME Replies' = Replies, NEW n \in Names, Owner' = [Owner EXCEPT ![n] = NoCall]
  PROVE  Promise!Next
  BY Zenon
  DEF Promise!Next, Promise!Work, Promise!Disappears, Promise!Names, Owner, Replies,
         Reply, Names

\* A step that answers with an error, and may have made a container.
LEMMA ErrorStep ==
  ASSUME NEW c \in Calls, Replies[c].tag = "none",
         Replies' = [Replies EXCEPT ![c] = [tag |-> "error", of |-> [k \in Kinds |-> NoCall]]],
         \/ Owner' = Owner
         \/ \E n \in Names, d \in Calls : Owner[n] = NoCall /\ Owner' = [Owner EXCEPT ![n] = d]
  PROVE  Promise!Next
  <1>1. Promise!Answer(c, "error", Promise!None)
    BY Zenon DEF Promise!Answer, Promise!None, Replies, Reply
  <1>2. Owner' = Owner \/ \E n \in Names : Promise!Appears(n)
    BY Zenon DEF Promise!Appears, Owner
  <1>3. Promise!Failed(c)
    BY Zenon, <1>1, <1>2 DEF Promise!Failed, Promise!Names, Owner, Names
  <1> QED
    BY Zenon, <1>3 DEF Promise!Next, Promise!Calls, Calls

\* Provision answers with the resources the job has.
LEMMA ProvisionedStep ==
  ASSUME NEW c \in Provisions, Replies[c].tag = "none", Owner' = Owner,
         \A k \in Kinds : Owner[<<JobOf[c], k>>] # NoCall,
         Replies' = [Replies EXCEPT ![c] =
                       [tag |-> "ok", of |-> [k \in Kinds |-> Owner[<<JobOf[c], k>>]]]]
  PROVE  Promise!Next
  <1>1. Promise!Owned(JobOf[c]) = [k \in Kinds |-> Owner[<<JobOf[c], k>>]]
    BY Zenon DEF Promise!Owned, Owner
  <1>2. Promise!Answer(c, "ok", Promise!Owned(JobOf[c]))
    BY Zenon, <1>1 DEF Promise!Answer, Replies, Reply
  <1>3. \A k \in Kinds : Promise!Owned(JobOf[c])[k] # NoCall
    BY Zenon, <1>1
  <1>4. Promise!Provisioned(c)
    BY Zenon, <1>2, <1>3 DEF Promise!Provisioned, Owner
  <1> QED
    BY Zenon, <1>4 DEF Promise!Next

\* Deprovision answers when the job has none.
LEMMA DeprovisionedStep ==
  ASSUME NEW t \in Teardowns, Replies[t].tag = "none", Owner' = Owner,
         \A k \in Kinds : Owner[<<JobOf[t], k>>] = NoCall,
         Replies' = [Replies EXCEPT ![t] = [tag |-> "ok", of |-> [k \in Kinds |-> NoCall]]]
  PROVE  Promise!Next
  <1>1. Promise!Owned(JobOf[t]) = Promise!None
    BY Zenon DEF Promise!Owned, Promise!None, Owner
  <1>2. Promise!Answer(t, "ok", Promise!None)
    BY Zenon DEF Promise!Answer, Promise!None, Replies, Reply
  <1>3. Promise!Deprovisioned(t)
    BY Zenon, <1>1, <1>2 DEF Promise!Deprovisioned, Owner
  <1> QED
    BY Zenon, <1>3 DEF Promise!Next

\* What a step does with the containers, in the terms of the mapping.
LEMMA OwnerSteps ==
  ASSUME TypeOK, NEW c \in Calls
  PROVE  /\ SameOwners => Owner' = Owner
         /\ Makes(c) => Owner[NameOf(c)] = NoCall /\ Owner' = [Owner EXCEPT ![NameOf(c)] = c]
         /\ box' = box => Owner' = Owner
  <1>1. NameOf(c) \in Names
    BY Zenon, NameType
  <1>2. ~Exists(NameOf(c)) => box[NameOf(c)].owner = NoCall
    BY Zenon, <1>1, OwnerOf
  <1> QED
    BY Zenon, <1>1, <1>2 DEF Owner, SameOwners, Makes

\* A call that has not answered yet has no reply.
LEMMA NoReply ==
  ASSUME NEW c \in Calls, answer[c] = "none"
  PROVE  Replies[c].tag = "none"
  BY ReplyOf DEF Replies

\* A step without an answer changes no reply.
LEMMA SameReply ==
  ASSUME NEW c \in Calls, OnlyCall(c), answer'[c] = answer[c],
         answer[c] \in {"none", "died"}
  PROVE  Replies' = Replies
  <1>1. Reply(c)' = Reply(c)
    BY Zenon DEF Reply
  <1>2. \A d \in Calls \ {c} : Reply(d)' = Reply(d)
    BY Zenon DEF OnlyCall, Reply
  <1> QED
    BY Zenon, <1>1, <1>2 DEF Replies

\* A step of Provision is a step of the interface.
LEMMA ProvisionImplements ==
  ASSUME IInv, "dns" \notin CmdErrs, NEW c \in Provisions, ProvisionStep(c)
  PROVE  [Promise!Next]_(Promise!vars)
  <1> c \in Calls
    BY Zenon DEF Calls
  <1>1. Frame(c) /\ ProvisionOK(c)' /\ Outcome(c) /\ TypeOK
    BY SMTT(20), ProvisionStepKeeps DEF IInv
  <1>2. answer[c] \in {"none", "died"} /\ NameOf(c) \in Names
    <2>1. InProgress(c)
      BY
      DEF ProvisionStep, Inspect, Start, Create, Boot, InspectAgain, Ready, TimesOut, InProgress
    <2> QED
      BY Zenon, <1>1, <2>1, NameType DEF IInv, ProvisionOK
  <1>3. \/ Owner' = Owner
        \/ Owner[NameOf(c)] = NoCall /\ Owner' = [Owner EXCEPT ![NameOf(c)] = c]
    BY Zenon, <1>1, OwnerSteps DEF Frame
  <1>4. OnlyCall(c) /\ Replies' = [Replies EXCEPT ![c] = Reply(c)']
    BY Zenon, <1>1, OneReply DEF Frame
  <1>5. CASE answer'[c] = answer[c]
    <2>1. Replies' = Replies
      BY Zenon, <1>2, <1>4, <1>5, SameReply
    <2>2. CASE Owner' = Owner
      BY Zenon, <2>1, <2>2 DEF Promise!vars, Owner, Replies, Reply
    <2> QED
      BY Zenon, <1>2, <1>3, <2>1, <2>2, WorkStep
  <1>6. CASE answer[c] = "none" /\ answer'[c] \in {"transient", "permanent", "failed"}
    <2>1. Reply(c)' = [tag |-> "error", of |-> [k \in Kinds |-> NoCall]]
      BY Zenon, <1>6 DEF Reply, Tag
    <2> QED
      BY Zenon, <1>2, <1>3, <1>4, <1>6, <2>1, NoReply, ErrorStep
  <1>7. CASE /\ answer[c] = "none" /\ answer'[c] = "ok" /\ box' = box /\ got' = got
             /\ Has(c, "pg") /\ Has(c, "svc")
    <2>1. Reply(c)' = [tag |-> "ok", of |-> [k \in Kinds |-> got[c][k].creds]]
      BY Zenon, <1>7 DEF Reply, Tag
    <2>2. \A k \in Kinds : <<JobOf[c], k>> \in Names
      BY Zenon, ProvisionerAssumption DEF Names
    <2>3. \A k \in Kinds : Owner[<<JobOf[c], k>>] = got[c][k].creds
                           /\ Owner[<<JobOf[c], k>>] # NoCall
      BY Zenon, <1>7, <2>2, ProvisionerAssumption DEF Kinds, Has, Owner
    <2>4. Reply(c)' = [tag |-> "ok", of |-> [k \in Kinds |-> Owner[<<JobOf[c], k>>]]]
      BY Zenon, <2>1, <2>3
    <2>5. Owner' = Owner
      BY Zenon, <1>7 DEF Owner
    <2> QED
      BY Zenon, <1>4, <1>7, <2>3, <2>4, <2>5, NoReply, ProvisionedStep
  <1> QED
    BY Zenon, <1>1, <1>5, <1>6, <1>7 DEF Outcome

\* A step of Deprovision is a step of the interface.
LEMMA DeprovisionImplements ==
  ASSUME IInv, NEW t \in Teardowns, DeprovisionStep(t)
  PROVE  [Promise!Next]_(Promise!vars)
  <1> t \in Calls /\ t \notin Provisions
    BY Zenon, ProvisionerAssumption DEF Calls
  <1>1. TeardownFrame(t) /\ InProgress(t) /\ TypeOK
    BY Zenon, DeprovisionStepKeeps DEF IInv
  <1>2. answer[t] \in {"none", "died"}
    BY Zenon, <1>1 DEF IInv, TeardownOK
  <1>3. OnlyCall(t) /\ Replies' = [Replies EXCEPT ![t] = Reply(t)']
    BY Zenon, <1>1, OneReply DEF TeardownFrame
  <1>4. box' = box => Owner' = Owner
    BY Zenon DEF Owner
  <1>5. CASE answer'[t] = answer[t]
    <2>1. Replies' = Replies
      BY SMTT(20), <1>2, <1>3, <1>5, SameReply
    <2>2. CASE box' = box
      BY Zenon, <1>4, <2>1, <2>2 DEF Promise!vars, Owner, Replies, Reply
    <2>3. ASSUME NEW n \in Names, box' = [box EXCEPT ![n] = NoBox] PROVE Promise!Next
      <3>1. box \in Boxes
        BY Zenon, <1>1, Unfold
      <3>2. Owner' = [Owner EXCEPT ![n] = NoCall]
        BY Zenon, <2>3, <3>1 DEF Owner, NoBox, Boxes
      <3> QED
        BY Zenon, <2>1, <3>2, RemovalStep
    <2> QED
      BY Zenon, <1>1, <2>2, <2>3 DEF TeardownFrame, Removes
  <1>6. CASE answer[t] = "none" /\ answer'[t] = "failed" /\ box' = box
    <2>1. Reply(t)' = [tag |-> "error", of |-> [k \in Kinds |-> NoCall]]
      BY Zenon, <1>6 DEF Reply, Tag
    <2> QED
      BY Zenon, <1>3, <1>4, <1>6, <2>1, NoReply, ErrorStep
  <1>7. CASE answer[t] = "none" /\ answer'[t] = "ok" /\ box' = box /\ NothingLeft(JobOf[t])
    <2>1. Reply(t)' = [tag |-> "ok", of |-> [k \in Kinds |-> NoCall]]
      BY Zenon, <1>7 DEF Reply, Tag
    <2>2. \A k \in Kinds : Owner[<<JobOf[t], k>>] = NoCall
      BY Zenon, <1>1, <1>7, OwnerOf, ProvisionerAssumption DEF NothingLeft, Names, Owner
    <2> QED
      BY Zenon, <1>3, <1>4, <1>7, <2>1, <2>2, NoReply, DeprovisionedStep
  <1> QED
    BY Zenon, <1>1, <1>5, <1>6, <1>7 DEF TeardownFrame

\* Every step is a step of the interface or a stutter.
LEMMA StepImplements ==
  ASSUME ~TeardownsOverlap, "dns" \notin CmdErrs, IInv, [Next]_vars
  PROVE  [Promise!Next]_(Promise!vars)
  <1> Provisions \subseteq Calls /\ Teardowns \subseteq Calls
    BY Zenon DEF Calls
  <1>1. ASSUME UNCHANGED <<box, got, answer>> PROVE UNCHANGED Promise!vars
    BY Zenon, <1>1 DEF Promise!vars
  <1>2. CASE UNCHANGED vars
    BY Zenon, <1>1, <1>2 DEF vars, callVars
  <1>3. ASSUME NEW c \in Calls,
               \/ c \in Provisions /\ BeginProvision(c)
               \/ c \in Teardowns /\ BeginDeprovision(c)
        PROVE  [Promise!Next]_(Promise!vars)
    BY Zenon, <1>1, <1>3, BeginKeepsIInv
  <1>4. ASSUME NEW c \in Calls, Die(c) PROVE [Promise!Next]_(Promise!vars)
    <2>1. /\ box' = box /\ got' = got /\ answer[c] = "none"
          /\ answer' = [answer EXCEPT ![c] = "died"] /\ answer \in [Calls -> Answers]
      BY Zenon, <1>4 DEF Die, IInv, TypeOK
    <2>2. Owner' = Owner /\ \A d \in Calls : Reply(d)' = Reply(d)
      BY Zenon, <2>1 DEF Owner, Reply, Tag
    <2> QED
      BY Zenon, <2>2 DEF Promise!vars, Owner, Reply
  <1>5. ASSUME NEW n \in Names, Stop(n) \/ Restart(n) PROVE [Promise!Next]_(Promise!vars)
    <2>1. SameOwners /\ got' = got /\ answer' = answer
      BY Zenon, <1>5, ContainersKeepIInv DEF callVars
    <2> QED
      BY Zenon, <2>1 DEF Promise!vars, SameOwners
  <1> QED
    BY Zenon, <1>2, <1>3, <1>4, <1>5, ProvisionImplements, DeprovisionImplements DEF Next

\* The provisioner keeps the promise of its interface for any calls, jobs and
\* ports and however commands fail, processes die and containers stop, while
\* teardowns and provisions of a job come one after the other and docker
\* inspect is not misled by an unresolvable host (provisioner.go 65-73,
\* docker.go 50-210).
THEOREM ShellKeepsPromise ==
  ASSUME ~TeardownsOverlap, "dns" \notin CmdErrs
  PROVE  Spec => KeepsPromise
  <1>1. Init => Promise!Init
    BY Zenon, PromiseInit
  <1>2. IInv /\ [Next]_vars => IInv'
    BY Zenon, StepKeepsIInv
  <1>3. IInv /\ [Next]_vars => [Promise!Next]_(Promise!vars)
    BY Zenon, StepImplements
  <1> QED
    BY <1>1, <1>2, <1>3, InitIInv, PTL DEF Spec, KeepsPromise, Promise!Spec

-----------------------------------------------------------------------------
(* Type correctness, whatever overlaps and whatever docker inspect reports *)

\* How a call may end its command.
Ends(c) ==
  \/ \E l \in Labels : Goto(c, l)
  \/ \E e \in Errors : Fail(c, e)
  \/ Panic(c)
  \/ Return(c, "ok", "none")

\* A command that keeps the types of the containers and of what the call
\* keeps for itself keeps all types.
LEMMA EndsType ==
  ASSUME TypeOK, NEW c \in Calls, Ends(c), CmdWorks \/ \E e \in CmdErrs : CmdFails(e),
         box' \in Boxes, ids' \in [Teardowns -> SUBSET (Names \X Calls)],
         kind' \in [Calls -> Kinds], got' \in [Calls -> [Kinds -> Infos]],
         \A d \in Calls \ {c} : kind'[d] = kind[d] /\ got'[d] = got[d]
  PROVE  TypeOK'
  <1>1. LocalTypes'
    BY Zenon, MovesFrame DEF Ends
  <1> QED
    BY Zenon, <1>1, BoundsKept, TypeFromParts

\* Every step of a call keeps the types.
LEMMA CallType ==
  ASSUME TypeOK, NEW c \in Calls,
         \/ BeginProvision(c) \/ ProvisionStep(c) \/ BeginDeprovision(c)
         \/ c \in Teardowns /\ (Ps(c) \/ RmDone(c))
  PROVE  TypeOK'
  <1>1. /\ NameOf(c) \in Names /\ kind[c] \in Kinds /\ box \in Boxes /\ LocalTypes
        /\ ids \in [Teardowns -> SUBSET (Names \X Calls)]
        /\ CmdErrs \subseteq Errors
    BY Zenon, NameType, Unfold, ErrorsOfCommands
  <1>2. kind \in [Calls -> Kinds] /\ got \in [Calls -> [Kinds -> Infos]]
    BY Zenon, <1>1 DEF LocalTypes
  <1>3. /\ {"inspect", "create", "start", "wait", "reinspect", "boot", "inspectNew", "ps", "rm"}
             \subseteq Labels
        /\ {"conflict", "other", "noport", "timeout"} \subseteq Errors
    BY Zenon DEF Labels, Errors
  \* The commands that leave the containers, the ids and the copies alone.
  <1>4. ASSUME Ends(c), CmdWorks \/ \E e \in CmdErrs : CmdFails(e),
               UNCHANGED <<box, kind, got, ids>>
        PROVE  TypeOK'
    BY Zenon, <1>1, <1>2, <1>4, EndsType
  <1>5. CASE BeginProvision(c) \/ BeginDeprovision(c)
    BY Zenon, <1>3, <1>4, <1>5 DEF BeginProvision, BeginDeprovision, Ends, CmdWorks
  <1>6. ASSUME NEW i \in Infos, got' = [got EXCEPT ![c][kind[c]] = i],
               Goto(c, "wait"), CmdWorks, UNCHANGED <<box, kind, ids>>
        PROVE  TypeOK'
    <2>1. /\ got' \in [Calls -> [Kinds -> Infos]]
          /\ \A d \in Calls \ {c} : got'[d] = got[d]
      BY Zenon, <1>6, GotType
    <2>2. Ends(c)
      BY Zenon, <1>3, <1>6 DEF Ends
    <2> QED
      BY Zenon, <1>1, <1>2, <1>6, <2>1, <2>2, EndsType
  <1>7. /\ [creds |-> box[NameOf(c)].owner, port |-> box[NameOf(c)].port] \in Infos
        /\ [creds |-> Credentials(c, box[NameOf(c)]), port |-> box[NameOf(c)].port] \in Infos
    BY Zenon, <1>1, InfoType DEF Credentials
  <1>8. CASE Inspect(c)
    <2>1. UNCHANGED <<box, kind, ids>>
      BY Zenon, <1>8 DEF Inspect
    <2>2. CASE got' = got /\ CmdWorks /\ (Goto(c, "create") \/ Goto(c, "start"))
      BY Zenon, <1>3, <1>4, <2>1, <2>2 DEF Ends
    <2>3. CASE /\ Goto(c, "wait") /\ CmdWorks
               /\ got' = [got EXCEPT ![c][kind[c]] =
                            [creds |-> box[NameOf(c)].owner, port |-> box[NameOf(c)].port]]
      BY Zenon, <1>6, <1>7, <2>1, <2>3
    <2>4. ASSUME NEW e \in CmdErrs, CmdFails(e), Goto(c, "create") \/ Fail(c, e), got' = got
          PROVE  TypeOK'
      BY Zenon, <1>1, <1>3, <1>4, <2>1, <2>4 DEF Ends
    <2> QED
      BY Zenon, <1>8, <2>2, <2>3, <2>4 DEF Inspect
  \* A command on the containers.
  <1>9. ASSUME NEW after, NEW l \in Labels, Command(c, after, l), UNCHANGED <<kind, got, ids>>,
               \A b \in after : b \in Boxes /\ \A m \in Names : b[m].owner = box[m].owner
        PROVE  TypeOK'
    <2>1. box' \in Boxes /\ Ends(c)
      BY Zenon, <1>9, CommandFrame DEF Ends
    <2>2. CmdWorks \/ \E e \in CmdErrs : CmdFails(e)
      BY Zenon, <1>9 DEF Command
    <2> QED
      BY Zenon, <1>1, <1>2, <1>9, <2>1, <2>2, EndsType
  <1>10. CASE Start(c)
    <2>1. CASE Exists(NameOf(c)) /\ Command(c, Started(NameOf(c), box), "reinspect")
      BY Zenon, <1>1, <1>3, <1>9, <1>10, <2>1, StartedKeeps DEF Start
    <2>2. CASE CmdWorks /\ Fail(c, "other") /\ UNCHANGED box
      BY Zenon, <1>3, <1>4, <1>10, <2>2 DEF Start, Ends
    <2> QED
      BY Zenon, <1>10, <2>1, <2>2 DEF Start
  <1>11. CASE Create(c)
    <2> DEFINE b == [owner |-> c, running |-> FALSE, port |-> NoPort]
               made == [box EXCEPT ![NameOf(c)] = b]
    <2>1. made \in Boxes
      <3>1. b \in Container
        BY Zenon DEF Container
      <3> HIDE DEF b
      <3> QED
        BY Zenon, <1>1, <3>1 DEF Boxes
    <2>2. UNCHANGED <<kind, got, ids>>
      BY Zenon, <1>11 DEF Create
    <2>3. CASE CmdWorks /\ box' = made /\ pc' = [pc EXCEPT ![c] = "boot"]
               /\ UNCHANGED <<answer, cause>>
      <3>1. LocalTypes'
        BY Zenon, <1>1, <1>3, <2>2, <2>3 DEF LocalTypes
      <3> QED
        BY Zenon, <1>1, <2>1, <2>2, <2>3, <3>1, BoundsKept, TypeFromParts
    <2>4. ASSUME NEW e \in CmdErrs, CmdFails(e), box' \in {made, box}, Fail(c, e)
          PROVE  TypeOK'
      <3>1. Ends(c) /\ box' \in Boxes
        BY Zenon, <1>1, <2>1, <2>4 DEF Ends
      <3> QED
        BY Zenon, <1>1, <1>2, <2>2, <2>4, <3>1, EndsType
    <2>5. CASE CmdWorks /\ Fail(c, "conflict") /\ UNCHANGED box
      BY Zenon, <1>3, <1>4, <2>2, <2>5 DEF Ends
    <2> QED
      BY Zenon, <1>11, <2>3, <2>4, <2>5 DEF Create
  <1>12. CASE Boot(c)
    <2>1. CASE box[NameOf(c)].owner = c /\ Command(c, Started(NameOf(c), box), "inspectNew")
      <3>1. Exists(NameOf(c))
        BY Zenon, <1>1, <2>1, OwnerOf
      <3> QED
        BY Zenon, <1>1, <1>3, <1>9, <1>12, <2>1, <3>1, StartedKeeps DEF Boot
    <2>2. CASE CmdWorks /\ Fail(c, "other") /\ UNCHANGED box
      BY Zenon, <1>3, <1>4, <1>12, <2>2 DEF Boot, Ends
    <2> QED
      BY Zenon, <1>12, <2>1, <2>2 DEF Boot
  <1>13. CASE InspectAgain(c)
    <2>1. UNCHANGED <<box, kind, ids>>
      BY Zenon, <1>13 DEF InspectAgain
    <2>2. CASE CmdWorks /\ (Panic(c) \/ Fail(c, "noport")) /\ UNCHANGED got
      BY Zenon, <1>3, <1>4, <2>1, <2>2 DEF Ends
    <2>3. CASE /\ CmdWorks /\ Goto(c, "wait")
               /\ got' = [got EXCEPT ![c][kind[c]] =
                            [creds |-> Credentials(c, box[NameOf(c)]),
                             port |-> box[NameOf(c)].port]]
      BY Zenon, <1>6, <1>7, <2>1, <2>3
    <2>4. ASSUME NEW e \in CmdErrs, CmdFails(e), Panic(c) \/ Fail(c, e), UNCHANGED got
          PROVE  TypeOK'
      BY Zenon, <1>1, <1>4, <2>1, <2>4 DEF Ends
    <2> QED
      BY Zenon, <1>13, <2>2, <2>3, <2>4 DEF InspectAgain
  <1>14. CASE Ready(c)
    <2>1. kind' \in [Calls -> Kinds] /\ \A d \in Calls \ {c} : kind'[d] = kind[d]
      BY Zenon, <1>2, <1>14 DEF Ready, Kinds
    <2>2. Ends(c) /\ UNCHANGED <<box, got, ids>> /\ CmdWorks
      BY Zenon, <1>3, <1>14 DEF Ready, Ends, CmdWorks
    <2> QED
      BY Zenon, <1>1, <1>2, <2>1, <2>2, EndsType
  <1>15. CASE TimesOut(c)
    BY Zenon, <1>3, <1>4, <1>15 DEF TimesOut, Ends, CmdWorks
  <1>16. CASE c \in Teardowns /\ Ps(c)
    <2>1. UNCHANGED <<box, kind, got>> /\ (CmdWorks \/ \E e \in CmdErrs : CmdFails(e))
      BY Zenon, <1>16 DEF Ps
    <2>2. Ends(c)
      BY Zenon, <1>1, <1>3, <1>16 DEF Ps, Ends
    <2>3. ids' \in [Teardowns -> SUBSET (Names \X Calls)]
      BY <1>1, <1>16, ListedType DEF Ps
    <2> QED
      BY Zenon, <1>1, <1>2, <2>1, <2>2, <2>3, EndsType
  <1>17. CASE c \in Teardowns /\ RmDone(c)
    BY Zenon, <1>3, <1>4, <1>17 DEF RmDone, Ends, CmdWorks
  <1> QED
    BY Zenon, <1>5, <1>8, <1>10, <1>11, <1>12, <1>13, <1>14, <1>15, <1>16, <1>17 DEF ProvisionStep

\* Every variable of the provisioner keeps its type, also when teardowns and
\* provisions of a job overlap and when docker inspect takes an unresolvable
\* host for an absent container (docker.go 46-210, 237-391).
THEOREM TypeCorrect == Spec => []TypeOK
  <1>1. Init => TypeOK
    BY ProvisionerAssumption DEF Init, TypeOK, NoInfo, Kinds, Labels, Answers
  <1>2. TypeOK /\ [Next]_vars => TypeOK'
    <2> SUFFICES ASSUME TypeOK, [Next]_vars PROVE TypeOK'
      OBVIOUS
    <2> Provisions \subseteq Calls /\ Teardowns \subseteq Calls
      BY Zenon DEF Calls
    <2>1. ASSUME NEW c \in Provisions, BeginProvision(c) \/ ProvisionStep(c) PROVE TypeOK'
      BY Zenon, <2>1, CallType
    <2>2. ASSUME NEW t \in Teardowns, BeginDeprovision(t) \/ DeprovisionStep(t)
          PROVE  TypeOK'
      <3>1. ASSUME NEW x \in ids[t], Rm(t, x) PROVE TypeOK'
        <4>1. /\ kind' = kind /\ got' = got /\ answer' = answer /\ cause' = cause
              /\ ids' = [ids EXCEPT ![t] = ids[t] \ {x}]
              /\ CmdWorks \/ \E e \in CmdErrs : CmdFails(e)
          BY Zenon, <3>1 DEF Rm
        <4>2. box \in Boxes /\ LocalTypes /\ ids \in [Teardowns -> SUBSET (Names \X Calls)]
          BY Zenon, Unfold
        <4>3. x \in Names \X Calls /\ ids' \in [Teardowns -> SUBSET (Names \X Calls)]
          BY Zenon, <4>1, <4>2
        <4>4. box' \in Boxes
          BY Zenon, <3>1, <4>2, <4>3 DEF Rm, Boxes
        <4>5. pc' \in [Calls -> Labels]
          BY Zenon, <3>1, <4>2 DEF Rm, LocalTypes, Labels
        <4>6. LocalTypes'
          BY Zenon, <4>1, <4>2, <4>5 DEF LocalTypes
        <4> QED
          BY Zenon, <4>1, <4>3, <4>4, <4>6, BoundsKept, TypeFromParts
      <3> QED
        BY Zenon, <2>2, <3>1, CallType DEF DeprovisionStep
    <2>3. ASSUME NEW c \in Calls, Die(c) PROVE TypeOK'
      <3>1. UNCHANGED <<box, kind, got, ids, cause, errs, stops>>
        BY Zenon, <2>3 DEF Die
      <3>2. pc' \in [Calls -> Labels] /\ answer' \in [Calls -> Answers]
        BY Zenon, <2>3 DEF Die, TypeOK, Labels, Answers
      <3>3. deaths' \in 0 .. MaxDeaths
        BY <2>3, ProvisionerAssumption DEF Die, TypeOK
      <3> QED
        BY Zenon, <3>1, <3>2, <3>3 DEF TypeOK
    <2>4. ASSUME NEW n \in Names, Stop(n) \/ Restart(n) PROVE TypeOK'
      <3>1. UNCHANGED callVars /\ Exists(n) /\ box \in Boxes
        BY Zenon, <2>4, OwnerOf, Unfold DEF Stop, Restart
      <3>2. CASE Restart(n)
        <4>1. box' \in Boxes
          BY Zenon, <3>1, <3>2, StartedKeeps DEF Restart
        <4> QED
          BY Zenon, <3>1, <3>2, <4>1 DEF Restart, TypeOK, callVars, boundVars, Boxes
      <3>3. CASE Stop(n)
        <4>1. [owner |-> box[n].owner, running |-> FALSE, port |-> NoPort] \in Container
          BY Zenon, <3>1, OwnerOf DEF Container
        <4>2. box' \in Boxes
          BY Zenon, <3>1, <3>3, <4>1 DEF Stop, Boxes
        <4>3. stops' \in 0 .. MaxStops /\ UNCHANGED <<errs, deaths>>
          BY <3>3, ProvisionerAssumption DEF Stop, TypeOK
        <4> QED
          BY Zenon, <3>1, <4>2, <4>3 DEF TypeOK, callVars, Boxes
      <3> QED
        BY Zenon, <2>4, <3>2, <3>3
    <2>5. CASE UNCHANGED vars
      BY Zenon, <2>5 DEF vars, callVars, boundVars, TypeOK
    <2> QED
      BY Zenon, <2>1, <2>2, <2>3, <2>4, <2>5 DEF Next
  <1> QED
    BY <1>1, <1>2, PTL DEF Spec

-----------------------------------------------------------------------------
(* The endpoint Provision returns is where the container is published *)

\* A container that does not run is published nowhere.
Unpublished == \A n \in Names : ~box[n].running => box[n].port = NoPort

\* A call that probes the HTTP service has read the port it is published on.
Published(c) ==
  pc[c] = "wait" /\ kind[c] = "svc" =>
    box[NameOf(c)].running /\ box[NameOf(c)].port = got[c]["svc"].port

\* As long as no container stops by itself, that stays so: docker start leaves
\* a running container alone, and docker rm is about another job.
PortInv ==
  /\ Unpublished
  /\ Apart
  /\ \A t \in Teardowns : \A x \in ids[t] : x[1][1] = JobOf[t]
  /\ stops = 0 => \A c \in Provisions : Published(c)

\* Running containers stay as they are, the others are started at most.
Steady ==
  \A n \in Names :
    \/ box'[n] = box[n]
    \/ ~box[n].running /\ (box'[n].running \/ box'[n].port = NoPort)

\* What a step of call c of Provision means for the ports.
PortStep(c) ==
  /\ Steady /\ ids' = ids /\ stops' = stops
  /\ \A d \in Calls \ {c} :
       pc'[d] = pc[d] /\ kind'[d] = kind[d] /\ got'[d] = got[d] /\ answer'[d] = answer[d]
  /\ Published(c)'
  /\ answer[c] = "none" /\ answer'[c] = "ok" =>
       pc[c] = "wait" /\ kind[c] = "svc" /\ Answers200(c)

\* Starting a container leaves one that runs alone.
LEMMA StartedSteady ==
  ASSUME TypeOK, NEW n \in Names, NEW b \in Started(n, box), NEW m \in Names
  PROVE  b[m] = box[m] \/ (~box[m].running /\ b[m].running)
  <1>1. box \in Boxes
    BY Zenon, Unfold
  <1>2. ASSUME ~box[n].running, NEW p \in FreePorts,
               b = [box EXCEPT ![n] = [owner |-> @.owner, running |-> TRUE, port |-> p]]
        PROVE  b[m] = box[m] \/ (~box[m].running /\ b[m].running)
    BY <1>1, <1>2 DEF Boxes
  <1> QED
    BY Zenon, <1>2 DEF Started

\* A command ends, and c neither probes a container next nor returns one.
Continues(c) ==
  \/ \E l \in Labels \ {"wait"} : Goto(c, l)
  \/ \E e \in Errors : Fail(c, e)
  \/ Panic(c)

LEMMA ContinuesMoves ==
  ASSUME TypeOK, NEW c \in Calls, Continues(c)
  PROVE  /\ \A d \in Calls \ {c} : pc'[d] = pc[d] /\ answer'[d] = answer[d]
         /\ pc'[c] # "wait"
         /\ ~(answer[c] = "none" /\ answer'[c] = "ok")
  <1>1. CASE \E l \in Labels \ {"wait"} : Goto(c, l)
    BY Zenon, <1>1, GotoMoves
  <1>2. CASE \E e \in Errors : Fail(c, e)
    BY Zenon, <1>2, FailMoves
  <1>3. CASE Panic(c)
    <2>1. "panic" \in Answers /\ "nil" \in Causes
      BY Zenon DEF Answers, Causes
    <2> QED
      BY Zenon, <1>3, <2>1, ReturnMoves DEF Panic
  <1> QED
    BY Zenon, <1>1, <1>2, <1>3 DEF Continues

\* Every step of Provision.
LEMMA ProvisionPorts ==
  ASSUME TypeOK, Unpublished, NEW c \in Provisions, ProvisionStep(c)
  PROVE  PortStep(c) /\ InProgress(c)
  <1> SUFFICES PortStep(c)
    BY DEF ProvisionStep, Inspect, Start, Create, Boot, InspectAgain, Ready, TimesOut, InProgress
  <1> c \in Calls
    BY Zenon DEF Calls
  <1>1. /\ NameOf(c) \in Names /\ kind[c] \in Kinds /\ box \in Boxes /\ LocalTypes
        /\ CmdErrs \subseteq Errors
    BY Zenon, NameType, Unfold, ErrorsOfCommands
  <1>2. /\ {"inspect", "create", "start", "reinspect", "inspectNew"} \subseteq Labels \ {"wait"}
        /\ {"conflict", "other", "noport", "timeout"} \subseteq Errors
        /\ "wait" \in Labels
    BY Zenon DEF Labels, Errors
  <1>3. CmdWorks \/ (\E e \in CmdErrs : CmdFails(e)) => UNCHANGED stops
    BY Zenon DEF CmdWorks, CmdFails, boundVars
  <1>4. ASSUME Continues(c), kind' = kind, got' = got, ids' = ids, stops' = stops, Steady
        PROVE  PortStep(c)
    BY Zenon, <1>4, ContinuesMoves DEF PortStep, Published
  \* The port read is the one of the running container.
  <1>5. ASSUME NEW i \in Infos, got' = [got EXCEPT ![c][kind[c]] = i],
               i.port = box[NameOf(c)].port, box[NameOf(c)].running,
               Goto(c, "wait"), box' = box, kind' = kind, ids' = ids, stops' = stops
        PROVE  PortStep(c)
    <2>1. /\ \A d \in Calls \ {c} : got'[d] = got[d]
          /\ got'[c][kind[c]].port = box[NameOf(c)].port
      BY <1>5, GotType
    <2>2. Published(c)'
      BY Zenon, <1>5, <2>1 DEF Published, NameOf
    <2>3. /\ \A d \in Calls \ {c} : pc'[d] = pc[d] /\ answer'[d] = answer[d]
          /\ answer' = answer
      BY Zenon, <1>2, <1>5, GotoMoves
    <2> QED
      BY Zenon, <1>5, <2>1, <2>2, <2>3 DEF PortStep, Steady
  <1>6. /\ [creds |-> box[NameOf(c)].owner, port |-> box[NameOf(c)].port] \in Infos
        /\ [creds |-> Credentials(c, box[NameOf(c)]), port |-> box[NameOf(c)].port] \in Infos
    BY Zenon, <1>1, InfoType DEF Credentials
  <1>7. CASE Inspect(c)
    <2>1. box' = box /\ kind' = kind /\ ids' = ids /\ stops' = stops /\ Steady
      BY Zenon, <1>3, <1>7 DEF Inspect, Steady
    <2>2. CASE got' = got /\ Continues(c)
      BY Zenon, <1>4, <2>1, <2>2
    <2>3. CASE /\ Goto(c, "wait") /\ box[NameOf(c)].running
               /\ got' = [got EXCEPT ![c][kind[c]] =
                            [creds |-> box[NameOf(c)].owner, port |-> box[NameOf(c)].port]]
      <3>1. [creds |-> box[NameOf(c)].owner, port |-> box[NameOf(c)].port].port
              = box[NameOf(c)].port
        OBVIOUS
      <3> QED
        BY Zenon, <1>5, <1>6, <2>1, <2>3, <3>1
    <2> QED
      BY Zenon, <1>1, <1>2, <1>7, <2>2, <2>3 DEF Inspect, Continues
  <1>8. CASE InspectAgain(c)
    <2>1. box' = box /\ kind' = kind /\ ids' = ids /\ stops' = stops /\ Steady
      BY Zenon, <1>3, <1>8 DEF InspectAgain, Steady
    <2>2. CASE got' = got /\ Continues(c)
      BY Zenon, <1>4, <2>1, <2>2
    <2>3. CASE /\ Goto(c, "wait") /\ box[NameOf(c)].port # NoPort
               /\ got' = [got EXCEPT ![c][kind[c]] =
                            [creds |-> Credentials(c, box[NameOf(c)]),
                             port |-> box[NameOf(c)].port]]
      <3>1. box[NameOf(c)].running
        BY Zenon, <1>1, <2>3 DEF Unpublished
      <3>2. [creds |-> Credentials(c, box[NameOf(c)]), port |-> box[NameOf(c)].port].port
              = box[NameOf(c)].port
        OBVIOUS
      <3> QED
        BY Zenon, <1>5, <1>6, <2>1, <2>3, <3>1, <3>2
    <2> QED
      BY Zenon, <1>1, <1>2, <1>8, <2>2, <2>3 DEF InspectAgain, Continues
  \* docker start and docker run.
  <1>9. ASSUME NEW l \in {"reinspect", "inspectNew"}, kind' = kind, got' = got, ids' = ids,
               Command(c, Started(NameOf(c), box), l)
        PROVE  PortStep(c)
    <2>1. Steady
      BY Zenon, <1>1, <1>9, StartedSteady DEF Command, Steady
    <2>2. Continues(c) /\ UNCHANGED stops
      BY Zenon, <1>1, <1>2, <1>3, <1>9 DEF Command, Continues
    <2> QED
      BY Zenon, <1>4, <1>9, <2>1, <2>2
  <1>10. CASE Start(c) \/ Boot(c)
    <2>1. kind' = kind /\ got' = got /\ ids' = ids
      BY Zenon, <1>10 DEF Start, Boot
    <2>2. ASSUME CmdWorks, Fail(c, "other"), box' = box PROVE PortStep(c)
      <3>1. Continues(c) /\ Steady /\ stops' = stops
        BY Zenon, <1>2, <1>3, <2>2 DEF Continues, Steady
      <3> QED
        BY Zenon, <1>4, <2>1, <3>1
    <2>3. \/ CmdWorks /\ Fail(c, "other") /\ box' = box
          \/ \E l \in {"reinspect", "inspectNew"} : Command(c, Started(NameOf(c), box), l)
      BY Zenon, <1>10 DEF Start, Boot
    <2> QED
      BY Zenon, <1>9, <2>1, <2>2, <2>3
  <1>11. CASE Create(c)
    <2> DEFINE b == [owner |-> c, running |-> FALSE, port |-> NoPort]
               made == [box EXCEPT ![NameOf(c)] = b]
    <2>1. kind' = kind /\ got' = got /\ ids' = ids /\ stops' = stops
      BY Zenon, <1>3, <1>11 DEF Create
    <2>2. box' = box => Steady
      BY Zenon DEF Steady
    <2>3. ~Exists(NameOf(c)) /\ box' = made => Steady
      <3>1. b.port = NoPort /\ (~Exists(NameOf(c)) => ~box[NameOf(c)].running)
        BY Zenon, <1>1, OwnerOf
      <3> HIDE DEF b
      <3> QED
        BY Zenon, <1>1, <3>1 DEF Steady, Boxes
    <2>4. CASE Continues(c) /\ (box' = box \/ (~Exists(NameOf(c)) /\ box' = made))
      BY Zenon, <1>4, <2>1, <2>2, <2>3, <2>4
    <2>5. CASE /\ ~Exists(NameOf(c)) /\ box' = made /\ pc' = [pc EXCEPT ![c] = "boot"]
               /\ UNCHANGED <<answer, cause>>
      <3>1. pc'[c] = "boot" /\ \A d \in Calls \ {c} : pc'[d] = pc[d]
        BY Zenon, <1>1, <2>5 DEF LocalTypes
      <3> QED
        BY Zenon, <2>1, <2>3, <2>5, <3>1 DEF PortStep, Published
    <2> QED
      BY Zenon, <1>1, <1>2, <1>11, <2>4, <2>5 DEF Create, Continues
  <1>12. CASE Ready(c)
    <2>1. /\ box' = box /\ got' = got /\ ids' = ids /\ stops' = stops /\ Steady
          /\ pc[c] = "wait" /\ Answers200(c)
      BY Zenon, <1>12 DEF Ready, Steady, boundVars
    <2>2. CASE kind[c] = "pg" /\ kind' = [kind EXCEPT ![c] = "svc"] /\ Goto(c, "inspect")
      <3>1. Continues(c) /\ \A d \in Calls \ {c} : kind'[d] = kind[d]
        BY Zenon, <1>1, <1>2, <2>2 DEF Continues, LocalTypes
      <3> QED
        BY Zenon, <2>1, <3>1, ContinuesMoves DEF PortStep, Published
    <2>3. CASE kind[c] = "svc" /\ UNCHANGED kind /\ Return(c, "ok", "none")
      <3>1. "ok" \in Answers /\ "none" \in Causes
        BY Zenon DEF Answers, Causes
      <3>2. /\ pc'[c] = "done"
            /\ \A d \in Calls \ {c} : pc'[d] = pc[d] /\ answer'[d] = answer[d]
        BY Zenon, <2>3, <3>1, ReturnMoves
      <3> QED
        BY Zenon, <2>1, <2>3, <3>2 DEF PortStep, Published
    <2> QED
      BY Zenon, <1>12, <2>2, <2>3 DEF Ready
  <1>13. CASE TimesOut(c)
    <2>1. /\ box' = box /\ kind' = kind /\ got' = got /\ ids' = ids /\ stops' = stops
          /\ Continues(c)
      BY Zenon, <1>2, <1>13 DEF TimesOut, Continues, boundVars
    <2>2. Steady
      BY Zenon, <2>1 DEF Steady
    <2> QED
      BY Zenon, <1>4, <2>1, <2>2
  <1> QED
    BY Zenon, <1>7, <1>8, <1>10, <1>11, <1>12, <1>13 DEF ProvisionStep

\* A call that has not moved keeps what it read, if its container stays.
LEMMA PublishedStays ==
  ASSUME NEW c \in Calls, NameOf(c) \in Names, Published(c),
         pc'[c] = "wait" => pc[c] = "wait" /\ kind'[c] = kind[c] /\ got'[c] = got[c],
         pc[c] = "wait" /\ box[NameOf(c)].running => box'[NameOf(c)] = box[NameOf(c)]
  PROVE  Published(c)'
  BY Zenon DEF Published, NameOf

\* A step of call c of Provision, for the other calls.
LEMMA ProvisionKeepsPorts ==
  ASSUME TypeOK, PortInv, NEW c \in Provisions, PortStep(c), InProgress(c)
  PROVE  PortInv'
  <1> Provisions \subseteq Calls /\ Teardowns \subseteq Calls
    BY Zenon DEF Calls
  <1> USE DEF PortStep
  <1>1. Unpublished'
    BY Zenon DEF PortInv, Unpublished, Steady
  <1>2. Apart'
    BY Zenon, ProvisionerAssumption DEF PortInv, Apart, InProgress
  <1>3. ASSUME stops = 0, NEW d \in Provisions, d # c PROVE Published(d)'
    <2>1. NameOf(d) \in Names /\ Published(d)
      BY Zenon, <1>3, NameType DEF PortInv
    <2>2. box[NameOf(d)].running => box'[NameOf(d)] = box[NameOf(d)]
      BY Zenon, <2>1 DEF Steady
    <2> QED
      BY Zenon, <1>3, <2>1, <2>2, PublishedStays
  <1> QED
    BY Zenon, <1>1, <1>2, <1>3 DEF PortInv

\* A step of Deprovision removes containers of its own job only.
LEMMA DeprovisionKeepsPorts ==
  ASSUME TypeOK, PortInv, NEW t \in Teardowns, DeprovisionStep(t)
  PROVE  PortInv' /\ \A c \in Provisions : answer'[c] = answer[c]
  <1> Provisions \subseteq Calls /\ Teardowns \subseteq Calls /\ t \notin Provisions
    BY Zenon, ProvisionerAssumption DEF Calls
  <1>1. /\ box \in Boxes /\ LocalTypes /\ ids \in [Teardowns -> SUBSET (Names \X Calls)]
        /\ CmdErrs \subseteq Errors /\ InProgress(t)
    BY Zenon, Unfold, ErrorsOfCommands DEF DeprovisionStep, Ps, Rm, RmDone, InProgress
  <1>2. \A c \in Calls \ {t} : pc'[c] = pc[c] /\ answer'[c] = answer[c]
    <2>1. ASSUME NEW x \in ids[t], Rm(t, x)
          PROVE  \A c \in Calls \ {t} : pc'[c] = pc[c] /\ answer'[c] = answer[c]
      BY Zenon, <1>1, <2>1 DEF Rm, LocalTypes
    <2>2. CASE Ps(t) \/ RmDone(t)
      BY Zenon, <1>1, <2>2 DEF Ps, RmDone, Return, Goto, Fail, LocalTypes
    <2> QED
      BY Zenon, <2>1, <2>2 DEF DeprovisionStep
  <1>3. UNCHANGED <<kind, got, stops>>
    BY Zenon DEF DeprovisionStep, Ps, Rm, RmDone, CmdWorks, CmdFails, boundVars
  <1>4. \A n \in Names : box'[n] = box[n] \/ (n[1] = JobOf[t] /\ box'[n] = NoBox)
    <2>1. ASSUME NEW x \in ids[t], Rm(t, x)
          PROVE  \A n \in Names : box'[n] = box[n] \/ (n[1] = JobOf[t] /\ box'[n] = NoBox)
      <3>1. x[1][1] = JobOf[t]
        BY Zenon DEF PortInv
      <3> QED
        BY Zenon, <1>1, <2>1, <3>1 DEF Rm, Boxes
    <2> QED
      BY Zenon, <2>1 DEF DeprovisionStep, Ps, RmDone
  <1>5. \A u \in Teardowns : \A x \in ids'[u] : x[1][1] = JobOf[u]
    <2>1. ASSUME NEW x \in ids[t], Rm(t, x)
          PROVE  \A u \in Teardowns : ids'[u] \subseteq ids[u]
      BY Zenon, <1>1, <2>1 DEF Rm
    <2>2. ASSUME Ps(t), NEW u \in Teardowns, NEW x \in ids'[u] PROVE x[1][1] = JobOf[u]
      <3>1. ids'[u] = ids[u] \/ (u = t /\ ids'[u] = Listed(JobOf[t]))
        BY Zenon, <1>1, <2>2 DEF Ps
      <3>2. \A y \in Listed(JobOf[t]) : y[1][1] = JobOf[t]
        BY Zenon, ListedType
      <3> QED
        BY Zenon, <2>2, <3>1, <3>2 DEF PortInv
    <2> QED
      BY Zenon, <2>1, <2>2 DEF DeprovisionStep, RmDone, PortInv
  <1>6. Unpublished'
    BY <1>4 DEF PortInv, Unpublished, NoBox
  <1>7. Apart'
    BY Zenon, <1>1, <1>2 DEF PortInv, Apart, InProgress
  <1>8. ASSUME stops = 0, NEW c \in Provisions PROVE Published(c)'
    <2>1. NameOf(c) \in Names /\ Published(c) /\ NameOf(c)[1] = JobOf[c]
      BY <1>8, NameType DEF PortInv
    <2>2. pc[c] = "wait" => JobOf[c] # JobOf[t]
      BY Zenon, <1>1 DEF PortInv, Apart, InProgress
    <2>3. pc[c] = "wait" => box'[NameOf(c)] = box[NameOf(c)]
      BY Zenon, <1>4, <2>1, <2>2
    <2> QED
      BY Zenon, <1>2, <1>3, <2>1, <2>3, PublishedStays
  <1> QED
    BY Zenon, <1>2, <1>3, <1>5, <1>6, <1>7, <1>8 DEF PortInv

\* Beginning a call, dying and what containers do by themselves.
LEMMA OthersKeepPorts ==
  ASSUME TypeOK, PortInv, ~TeardownsOverlap,
         \/ \E c \in Provisions : BeginProvision(c)
         \/ \E t \in Teardowns : BeginDeprovision(t)
         \/ \E c \in Calls : Die(c)
         \/ \E n \in Names : Stop(n) \/ Restart(n)
         \/ UNCHANGED vars
  PROVE  PortInv' /\ \A c \in Provisions : answer'[c] \in {answer[c], "died"}
  <1> Provisions \subseteq Calls /\ Teardowns \subseteq Calls
    BY Zenon DEF Calls
  <1>1. box \in Boxes /\ LocalTypes
    BY Zenon, Unfold
  \* A step that leaves the containers alone.
  <1>2. ASSUME UNCHANGED <<box, kind, got, ids, stops>>, Apart',
               \A c \in Calls : pc'[c] = "wait" => pc[c] = "wait"
        PROVE  PortInv'
    <2>1. stops = 0 => \A c \in Provisions : Published(c)'
      BY Zenon, <1>2 DEF PortInv, Published, NameOf
    <2> QED
      BY Zenon, <1>2, <2>1 DEF PortInv, Unpublished
  <1>3. ASSUME NEW c \in Calls,
               \/ c \in Provisions /\ BeginProvision(c)
               \/ c \in Teardowns /\ BeginDeprovision(c)
        PROVE  PortInv' /\ answer' = answer
    <2>1. /\ pc[c] = "new" /\ MayBegin(c) /\ UNCHANGED <<box, kind, got, ids, boundVars, answer>>
          /\ pc' = [pc EXCEPT ![c] = pc'[c]] /\ pc'[c] \in {"inspect", "ps", "done"}
      BY Zenon, <1>1, <1>3 DEF BeginProvision, BeginDeprovision, Goto, LocalTypes
    <2>2. \A d \in Calls \ {c} : pc'[d] = pc[d]
      BY Zenon, <1>1, <2>1 DEF LocalTypes
    <2>3. Apart'
      <3> SUFFICES ASSUME NEW p \in Provisions, NEW t \in Teardowns, JobOf[p] = JobOf[t],
                          InProgress(p)', InProgress(t)'
                   PROVE  FALSE
        BY Zenon DEF Apart
      <3>1. p # t
        BY Zenon, ProvisionerAssumption
      <3>2. CASE p = c \/ t = c
        BY Zenon, <2>1, <2>2, <3>1, <3>2, ProvisionerAssumption DEF MayBegin, InProgress
      <3>3. CASE p # c /\ t # c
        BY Zenon, <2>2, <3>3 DEF PortInv, Apart, InProgress
      <3> QED
        BY Zenon, <3>2, <3>3
    <2>4. \A d \in Calls : pc'[d] = "wait" => pc[d] = "wait"
      BY Zenon, <2>1, <2>2
    <2> QED
      BY Zenon, <1>2, <2>1, <2>3, <2>4 DEF boundVars
  <1>4. ASSUME NEW c \in Calls, Die(c)
        PROVE  PortInv' /\ \A d \in Provisions : answer'[d] \in {answer[d], "died"}
    <2>1. \A d \in Calls : pc'[d] \in {pc[d], "done"} /\ answer'[d] \in {answer[d], "died"}
      BY Zenon, <1>1, <1>4 DEF Die, LocalTypes
    <2>2. Apart'
      BY Zenon, <2>1 DEF PortInv, Apart, InProgress
    <2>3. \A d \in Calls : pc'[d] = "wait" => pc[d] = "wait"
      BY Zenon, <2>1
    <2> QED
      BY Zenon, <1>2, <1>4, <2>1, <2>2, <2>3 DEF Die
  <1>5. ASSUME UNCHANGED vars PROVE PortInv' /\ answer' = answer
    <2>1. UNCHANGED <<box, kind, got, ids, stops, pc, answer>>
      BY Zenon, <1>5 DEF vars, callVars, boundVars
    <2>2. Apart'
      BY Zenon, <2>1 DEF PortInv, Apart, InProgress
    <2> QED
      BY Zenon, <1>2, <2>1, <2>2
  \* Once a container has stopped nothing is said about what calls have read.
  <1>6. ASSUME NEW n \in Names, Stop(n) \/ Restart(n) PROVE PortInv' /\ answer' = answer
    <2>1. UNCHANGED <<pc, kind, got, ids, answer>>
      BY Zenon, <1>6 DEF Stop, Restart, callVars
    <2>2. stops' # 0
      BY <1>6 DEF Stop, Restart, boundVars, TypeOK
    <2>3. Apart'
      BY Zenon, <2>1 DEF PortInv, Apart, InProgress
    <2>4. Unpublished'
      <3>1. CASE Stop(n)
        <4> DEFINE b == [owner |-> box[n].owner, running |-> FALSE, port |-> NoPort]
        <4>1. b.port = NoPort /\ \A m \in Names : box'[m] = box[m] \/ box'[m] = b
          BY Zenon, <1>1, <3>1 DEF Stop, Boxes
        <4> HIDE DEF b
        <4> QED
          BY Zenon, <4>1 DEF PortInv, Unpublished
      <3>2. CASE Restart(n)
        BY Zenon, <3>2, StartedSteady DEF Restart, PortInv, Unpublished
      <3> QED
        BY Zenon, <1>6, <3>1, <3>2
    <2> QED
      BY Zenon, <2>1, <2>2, <2>3, <2>4 DEF PortInv
  <1> QED
    BY Zenon, <1>3, <1>4, <1>5, <1>6

\* Where the endpoint of an answer leads.
Reaches(c) ==
  answer[c] = "none" /\ answer'[c] = "ok" =>
    \E j \in Jobs :
      /\ box[<<j, "svc">>].port = got[c]["svc"].port
      /\ j = JobOf[c] \/ stops > 0

\* The invariant is inductive, and its steps answer with what is published.
LEMMA StepKeepsPorts ==
  ASSUME ~TeardownsOverlap, TypeOK, PortInv, [Next]_vars
  PROVE  PortInv' /\ \A c \in Provisions : Reaches(c)
  <1> Provisions \subseteq Calls /\ Teardowns \subseteq Calls
    BY Zenon DEF Calls
  <1>1. ASSUME NEW c \in Provisions, ProvisionStep(c)
        PROVE  PortInv' /\ \A d \in Provisions : Reaches(d)
    <2>1. PortStep(c) /\ InProgress(c)
      BY Zenon, <1>1, ProvisionPorts DEF PortInv
    <2>2. PortInv'
      BY Zenon, <2>1, ProvisionKeepsPorts
    <2>3. ASSUME NEW d \in Provisions, d # c PROVE Reaches(d)
      BY Zenon, <2>1, <2>3 DEF PortStep, Reaches
    <2>4. ASSUME answer[c] = "none", answer'[c] = "ok"
          PROVE  \E j \in Jobs : /\ box[<<j, "svc">>].port = got[c]["svc"].port
                                 /\ j = JobOf[c] \/ stops > 0
      <3>1. pc[c] = "wait" /\ kind[c] = "svc" /\ Answers200(c)
        BY Zenon, <2>1, <2>4 DEF PortStep
      <3>2. CASE stops = 0
        <4>1. JobOf[c] \in Jobs /\ NameOf(c) = <<JobOf[c], "svc">>
          BY Zenon, <3>1, ProvisionerAssumption DEF NameOf
        <4> QED
          BY Zenon, <3>1, <3>2, <4>1 DEF PortInv, Published
      <3>3. CASE stops # 0
        <4>1. stops > 0
          BY <3>3 DEF TypeOK
        <4> QED
          BY Zenon, <3>1, <4>1 DEF Answers200
      <3> QED
        BY Zenon, <3>2, <3>3
    <2> QED
      BY Zenon, <2>2, <2>3, <2>4 DEF Reaches
  <1>2. ASSUME NEW t \in Teardowns, DeprovisionStep(t)
        PROVE  PortInv' /\ \A d \in Provisions : Reaches(d)
    BY Zenon, <1>2, DeprovisionKeepsPorts DEF Reaches
  <1>3. CASE \/ \E c \in Provisions : BeginProvision(c)
             \/ \E t \in Teardowns : BeginDeprovision(t)
             \/ \E c \in Calls : Die(c)
             \/ \E n \in Names : Stop(n) \/ Restart(n)
             \/ UNCHANGED vars
    BY Zenon, <1>3, OthersKeepPorts DEF Reaches
  <1> QED
    BY Zenon, <1>1, <1>2, <1>3 DEF Next

\* When Provision returns, the HTTP endpoint it read some commands before is
\* the one the job's container is published on, unless containers stop by
\* themselves: however calls for one job and calls for others interleave, fail
\* and die, and also when docker inspect takes an unresolvable host for an
\* absent container (docker.go 163-170, 202-209, 367-391).
THEOREM EndpointIsPublished ==
  ASSUME ~TeardownsOverlap
  PROVE  Spec => AnswerIsReachable
  <1>1. Init => PortInv
    <2> SUFFICES ASSUME Init PROVE PortInv
      OBVIOUS
    <2>1. Unpublished
      BY DEF Init, Unpublished, NoBox
    <2>2. \A c \in Calls : pc[c] = "new"
      BY Zenon DEF Init
    <2>3. Apart /\ \A c \in Provisions : Published(c)
      BY Zenon, <2>2 DEF Apart, InProgress, Published, Calls
    <2> QED
      BY Zenon, <2>1, <2>3 DEF PortInv, Init
  <1>2. TypeOK /\ PortInv /\ [Next]_vars => PortInv' /\ \A c \in Provisions : Reaches(c)
    BY Zenon, StepKeepsPorts
  <1>3. (\A c \in Provisions : Reaches(c)) =>
          [\A c \in Provisions : answer[c] = "none" /\ answer'[c] = "ok" =>
             \E j \in Jobs :
               /\ box[<<j, "svc">>].port = got[c]["svc"].port
               /\ j = JobOf[c] \/ stops > 0]_vars
    BY Zenon DEF Reaches
  <1> QED
    BY <1>1, <1>2, <1>3, TypeCorrect, PTL DEF Spec, AnswerIsReachable

=============================================================================
