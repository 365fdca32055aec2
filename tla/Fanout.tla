------------------------------- MODULE Fanout -------------------------------
(***************************************************************************)
(* The estimation module of the Masa policy (libs/masa-policy/src/module/  *)
(* est/) at position Est of the stack of ChildRpc: what it writes down     *)
(* about the child RPCs of a request, the fanout groups it recovers from   *)
(* their intervals, and what it predicts when a child RPC is issued: the   *)
(* path of groups before this one and a lower bound of this one.           *)
(*                                                                         *)
(* Its hooks run inside stack calls, under the request's lock.  A          *)
(* signature is a set of child RPCs, the finest the estimator could tell   *)
(* apart, and a path the sequence of its signatures: the rolling hash is   *)
(* taken to be injective.  fanout_enabled_for_parent is TRUE.              *)
(***************************************************************************)
EXTENDS ChildRpc, SequencesExt

CONSTANT Est   \* the position of the estimation module

ASSUME FanoutAssumption == Est \in 1 .. K

VARIABLES
  children,     \* FanoutInvocationState::children, with the child RPC each is about
  path_prefix,  \* FanoutInvocationState::path_prefix
  folded,       \* incorporated_child_count
  tracker,      \* ChildRPCTracker, per child RPC
  clock         \* Instant::now()

fanoutVars == <<children, path_prefix, folded, tracker, clock>>
allVars == <<vars, fanoutVars>>

NoTracker == [index |-> 0, path_prefix |-> <<>>, base |-> {}]

FanoutInit ==
  /\ Init
  /\ children = <<>> /\ path_prefix = <<>> /\ folded = 0
  /\ tracker = [c \in Child |-> NoTracker]
  /\ clock = 1

-----------------------------------------------------------------------------
(* Recovering groups.                                                      *)

Open == {r \in ToSet(children) : ~r.terminal}

Signatures(groups) == [i \in DOMAIN groups |-> groups[i].signature]

\* A record begins a group of its own, after the groups so far,
NewGroup(groups, r) ==
  Append(groups, [path_prefix |-> Signatures(groups), signature |-> {r.id}, max_end |-> r.end])

\* Mutant: the group ends when its last member does, not the longest.
Sweep_LastEnd(groups, r) ==
  IF groups # <<>> /\ r.start <= Last(groups).max_end
  THEN ReplaceAt(groups, Len(groups),
                 [Last(groups) EXCEPT !.signature = @ \cup {r.id}, !.max_end = r.end])
  ELSE NewGroup(groups, r)

\* or it joins the last one.
Sweep(groups, r) ==
  IF groups # <<>> /\ r.start <= Last(groups).max_end
  THEN ReplaceAt(groups, Len(groups),
                 [Last(groups) EXCEPT !.signature = @ \cup {r.id}, !.max_end = Max({@, r.end})])
  ELSE NewGroup(groups, r)

\* recover_path_groups.  The records are in issue order, and the clock is read
\* under the request's lock, so they are sorted by start.  A record without an
\* end is ignored.
Visit(groups, r) == IF r.end = 0 THEN groups ELSE Sweep(groups, r)
RecoverPathGroups(records) == FoldLeft(Visit, <<>>, records)

-----------------------------------------------------------------------------
(* The hooks.                                                              *)

\* refresh_path_prefix_before_open_group: the leading records that have ended
\* are folded into the path.
Pending == SubSeq(children, folded + 1, Len(children))
TerminalLen ==
  LET running == {i \in DOMAIN Pending : ~Pending[i].terminal}
  IN IF running = {} THEN Len(Pending) ELSE Min(running) - 1
RefreshedPrefix ==
  path_prefix \o Signatures(RecoverPathGroups(SubSeq(Pending, 1, TerminalLen)))

\* Mutant: the path is not brought up to date.
MustRefresh_Never == FALSE

\* begin_child has open siblings.
MustRefresh == Open # {}

\* Mutant: the lower bound counts the siblings that have ended.
Base_All(c) == {r.id : r \in ToSet(children)} \cup {c}

\* base_signature.
Base(c) == {r.id : r \in Open} \cup {c}

\* The clock may stand still between an end and the next begin; the order of
\* two begins or of two ends is never looked at, so only ends move it.
BeginTimes == IF clock \in {r.end : r \in ToSet(children)} THEN {clock, clock + 1} ELSE {clock}

\* begin_child.
BeginChild(c) ==
  /\ clock' \in BeginTimes
  /\ path_prefix' = IF MustRefresh THEN RefreshedPrefix ELSE path_prefix
  /\ folded' = IF MustRefresh THEN folded + TerminalLen ELSE folded
  /\ children' = Append(children, [id |-> c, start |-> clock', end |-> 0, terminal |-> FALSE])
  /\ tracker' = [tracker EXCEPT ![c] = [index |-> Len(children) + 1,
                                        path_prefix |-> path_prefix', base |-> Base(c)]]

\* record_child_complete.  The record of an early return gets no end.  After a
\* flush there may be no record at the tracker's index.
RecordChildComplete(c, early) ==
  /\ clock' = IF early THEN clock ELSE clock + 1
  /\ children' = IF tracker[c].index \in DOMAIN children
                 THEN [children EXCEPT ![tracker[c].index].terminal = TRUE,
                                       ![tracker[c].index].end = IF early THEN @ ELSE clock']
                 ELSE children
  /\ UNCHANGED <<path_prefix, folded, tracker>>

\* flush takes the state out and records its groups.
Flush ==
  /\ children' = <<>> /\ path_prefix' = <<>> /\ folded' = 0
  /\ UNCHANGED <<tracker, clock>>

-----------------------------------------------------------------------------
(* The stack with its estimation module.                                   *)

\* It accepts every child RPC: its proposal could only fail after an owner has
\* sealed the decision, and nobody seals before all have accepted.
EstBefore(c) == cat[c] = Est /\ BeforeOk(c) /\ BeginChild(c)

EstAfter(c) == cat[c] = Est /\ AfterStep(c) /\ \E early \in BOOLEAN : RecordChildComplete(c, early)

\* A request that returned early, or whose subtree signaled, is not flushed.
EstFinalize == at = Est /\ FinalizeStep /\ (Flush \/ UNCHANGED fanoutVars)

EstChildStep(c) ==
  \/ EstBefore(c) \/ EstAfter(c)
  \/ /\ \/ cat[c] # Est /\ (BeforeOk(c) \/ BeforeRejects(c) \/ AfterStep(c))
        \/ Unwind(c) \/ SealOk(c) \/ SealRejects(c) \/ Send(c)
     /\ UNCHANGED fanoutVars

EstRequestStep ==
  \/ EstFinalize
  \/ /\ \/ BeforePollOk \/ BeforePollEnds \/ AfterPollOk \/ AfterPollEnds
        \/ DropHandler \/ BeginFinalize
        \/ at # Est /\ FinalizeStep
     /\ UNCHANGED fanoutVars

FanoutNext ==
  \/ EstRequestStep
  \/ \E c \in Child : EstChildStep(c)
  \/ /\ \/ DecodeOk \/ DecodeFails \/ DropRequest \/ BeforePoll \/ HandlerPanics
        \/ \E r \in BOOLEAN : HandlerReturns(r)
        \/ \E c \in Child : Begin(c) \/ Respond(c) \/ BeginAfter(c) \/ DropChild(c)
     /\ UNCHANGED fanoutVars

FanoutSpec == FanoutInit /\ [][FanoutNext]_allVars

\* As in ChildRpc.
FanoutFairSpec ==
  /\ FanoutSpec
  /\ WF_allVars(EstRequestStep)
  /\ \A c \in Child : WF_allVars(EstChildStep(c))

-----------------------------------------------------------------------------
(***************************************************************************)
(* Properties                                                              *)
(***************************************************************************)

Groups == RecoverPathGroups(children)
Completed == {r \in ToSet(children) : r.end # 0}
RecordOf(c) == CHOOSE r \in ToSet(children) : r.id = c
Overlap(c, d) ==
  RecordOf(c).start <= RecordOf(d).end /\ RecordOf(d).start <= RecordOf(c).end

\* recover_path_groups: "connected-components on interval overlap".  The groups
\* partition the completed child RPCs, each is connected, two are apart, and
\* they come in the order of time, whatever nests in what.
GroupsAreComponents ==
  /\ UNION ToSet(Signatures(Groups)) = {r.id : r \in Completed}
  /\ \A i \in DOMAIN Groups :
       \A S \in (SUBSET Groups[i].signature) \ {{}, Groups[i].signature} :
         \E c \in S, d \in Groups[i].signature \ S : Overlap(c, d)
  /\ \A i, j \in DOMAIN Groups :
       i < j => \A c \in Groups[i].signature, d \in Groups[j].signature :
                  RecordOf(c).end < RecordOf(d).start

\* begin_child: the open siblings and the child are a lower bound of the
\* eventual group: whichever of them complete, they end up in one group.
BaseIsLowerBound ==
  \A i, j \in DOMAIN Groups :
    \A c \in Groups[i].signature, d \in Groups[j].signature :
      d \in tracker[c].base => i = j

\* A fanout whose members were all issued before any of them ended.
Joined(S) == \A c, d \in S : RecordOf(c).start < RecordOf(d).end

\* A child RPC issued before a flush has the index of another's record.
Misdirected ==
  \E c \in Child : /\ tracker[c].index \in DOMAIN children
                   /\ children[tracker[c].index].id # c

\* The path a child RPC was issued under is the one its group is recorded
\* under, so that what a request learns is found again by the next one, as
\* long as fanouts are joined before the next begins, no child RPC was
\* rejected by a later module, dropped by its caller or returned early, and
\* none that outlived a flush ends another's record.  A child without open
\* siblings is not looked up.
PrefixAsRecorded ==
  Completed = ToSet(children) /\ ~Misdirected /\ (\A g \in ToSet(Groups) : Joined(g.signature))
    => \A g \in ToSet(Groups) : \A c \in g.signature :
         Cardinality(tracker[c].base) > 1 => tracker[c].path_prefix = g.path_prefix
=============================================================================
