----------------------------- MODULE BuildOrder -----------------------------
(***************************************************************************)
(* What the compilation pipeline promises, with no stack, no units and no  *)
(* search: files are taken through stages, a stage of a file is completed  *)
(* at most once and only after the stages it depends on, and a file that   *)
(* needs others passes its linking stage only when they have all been      *)
(* built.  The build ends well only with its goal reached.                 *)
(***************************************************************************)
CONSTANTS File,      \* the source files
          Stage,     \* the stages a file can go through
          Before,    \* Before[s]: the stages that must be complete before s
          Linking,   \* the stage that needs the files a file uses ...
          Built,     \* ... to have completed this one
          Failure    \* the reasons a build can stop for

VARIABLES uses,      \* uses[f]: the files f needs, as far as is known
          done,      \* done[f]: the completed stages of f
          goal,      \* << file, stage >> the build was asked for, if any
          outcome    \* "running", "ok" or why the build stopped

vars == <<uses, done, goal, outcome>>

NoGoal == << >>

Init ==
  /\ uses \in [File -> SUBSET File]
  /\ done = [f \in File |-> {}]
  /\ goal = NoGoal
  /\ outcome = "running"

(* What a file needs becomes known, or changes, before its first stage.    *)
Learn ==
  /\ uses' \in [File -> SUBSET File]
  /\ \A f \in File : done[f] # {} => uses'[f] = uses[f]

Discover ==
  /\ outcome = "running"
  /\ Learn
  /\ UNCHANGED <<done, goal, outcome>>

Ask(f, s) ==
  /\ outcome = "running"
  /\ goal = NoGoal
  /\ goal' = <<f, s>>
  /\ Learn
  /\ UNCHANGED <<done, outcome>>

Complete(f, s) ==
  /\ outcome = "running"
  /\ goal # NoGoal
  /\ s \notin done[f]
  /\ Before[s] \subseteq done[f]
  /\ s = Linking => \A g \in uses[f] : Built \in done[g]
  /\ done' = [done EXCEPT ![f] = @ \cup {s}]
  /\ UNCHANGED <<uses, goal, outcome>>

Succeed ==
  /\ outcome = "running"
  /\ goal # NoGoal
  /\ goal[2] \in done[goal[1]]
  /\ outcome' = "ok"
  /\ UNCHANGED <<uses, done, goal>>

Fail(why) ==
  /\ outcome = "running"
  /\ outcome' = why
  /\ UNCHANGED <<uses, done, goal>>

Next ==
  \/ Discover
  \/ \E f \in File, s \in Stage : Ask(f, s) \/ Complete(f, s)
  \/ Succeed
  \/ \E why \in Failure : Fail(why)

Spec == Init /\ [][Next]_vars
=============================================================================
