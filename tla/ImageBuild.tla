----------------------------- MODULE ImageBuild -----------------------------
(***************************************************************************)
(* How the images are made (docker/build.sh, the Dockerfiles and the patch *)
(* scripts): a chain of stages, each FROM an earlier one, whose RUN lines  *)
(* patch the files of vLLM and FlashInfer in place, and the DFlash2        *)
(* overlay on top, whose scripts may also be run in a container by hand.   *)
(*                                                                         *)
(* A patch reads one file, makes its edits in memory and writes the file   *)
(* once.  An edit replaces an anchor, which must be in the file exactly    *)
(* once, by a text that may contain the anchor again.  A file is its       *)
(* edits, each with the number of times it was made; the anchors in        *)
(* `missing' have drifted away upstream.                                   *)
(*                                                                         *)
(* A layer whose RUN line fails, or that is interrupted, is discarded with *)
(* what it wrote; in a container a script leaves what it wrote.            *)
(***************************************************************************)
EXTENDS Integers, Sequences, FiniteSets

CONSTANTS
  Stages,    \* what build.sh builds, in its order: tag, base, patches
  Overlay,   \* the overlay: tag, base, patches
  Upstream,  \* the vLLM image that the first stage is FROM
  Drifts,    \* bound: the sets of anchors that may be missing upstream
  MaxRev,    \* bound: the revisions of sources and upstream
  Nothing    \* no image, no build, no container

\* A patch: the script it belongs to, its edits, and what it looks for to know
\* that it was applied: each edit's own marker, one for the file, or nothing.
\* A check or an installation is a patch without edits.
Patches(stage) == {stage.patches[i] : i \in 1 .. Len(stage.patches)}
AllStages == {Stages[i] : i \in 1 .. Len(Stages)} \cup {Overlay}
AllPatches == UNION {Patches(stage) : stage \in AllStages}
Edits(patch) == {patch.edits[i].name : i \in 1 .. Len(patch.edits)}
Edit == UNION {Edits(patch) : patch \in AllPatches}
Tag == {stage.tag : stage \in AllStages}
StageOf(tag) == CHOOSE stage \in AllStages : stage.tag = tag
Scripts == {patch.script : patch \in {p \in Patches(Overlay) : Edits(p) # {}}}

\* The edits whose new text contains the anchor.
Keeping == {e \in Edit : \E patch \in AllPatches : \E i \in 1 .. Len(patch.edits) :
              patch.edits[i].name = e /\ patch.edits[i].keeps}

\* What a tree, an image, a build and a container are.
Tree == [made : [Edit -> Nat], missing : SUBSET Edit]
Image == [tree : Tree, rev : 1 .. MaxRev]
Build == [stage : 0 .. Len(Stages), at : Nat \ {0}, tree : Tree]
Container == [tree : Tree, script : Scripts \cup {Nothing}, at : Nat]

\* Each stage has a tag of its own and a base that is built before it.
ASSUME StageAssumption ==
  /\ Stages \in Seq(AllStages) /\ Len(Stages) >= 1
  /\ Upstream \notin Tag
  /\ \A i, j \in 1 .. Len(Stages) : Stages[i].tag = Stages[j].tag => i = j
  /\ \A i \in 1 .. Len(Stages) :
       Stages[i].base = Upstream \/ \E j \in 1 .. i - 1 : Stages[i].base = Stages[j].tag
  /\ Overlay.tag \notin {Stages[i].tag : i \in 1 .. Len(Stages)}
  /\ Overlay.base \in {Stages[i].tag : i \in 1 .. Len(Stages)}

\* An edit is one patch's.  A script that may be run by hand twice looks for its
\* markers, or has an edit whose anchor is gone once it is made.
ASSUME PatchAssumption ==
  /\ \A stage \in AllStages : stage.patches \in Seq(Patches(stage))
  /\ \A stage \in AllStages : \A i \in 1 .. Len(stage.patches) :
       stage.patches[i].marker \in {"edit", "file", "none"}
  /\ \A s, t \in AllStages :
       \A i \in 1 .. Len(s.patches), j \in 1 .. Len(t.patches) :
         Edits(s.patches[i]) \cap Edits(t.patches[j]) # {} => s = t /\ i = j
  /\ \A patch \in Patches(Overlay) :
       patch.marker = "none" /\ Edits(patch) # {} => \E e \in Edits(patch) : e \notin Keeping

ASSUME BoundAssumption == Drifts \subseteq SUBSET Edit /\ MaxRev \in Nat \ {0}
ASSUME NothingAssumption ==
  Nothing \notin Image \cup Build \cup Container \cup Scripts

VARIABLES
  rev,       \* the revision of the sources
  upstream,  \* the anchors that are missing from the upstream image
  images,    \* the image of each tag: its tree and the revision it is of
  job,       \* the stage being built: its layer, the next patch
  outcome,   \* how the last build.sh ended: "ok", "failed", or "none"
  live,      \* a container: its tree, the running script, the next patch
  vouched    \* the scripts that returned 0 in it

imageVars == <<rev, upstream, images, job, outcome, live, vouched>>

ImageInit ==
  /\ rev = 1 /\ upstream \in Drifts
  /\ images = [t \in Tag |-> Nothing]
  /\ job = Nothing /\ outcome = "none"
  /\ live = Nothing /\ vouched = {}

-----------------------------------------------------------------------------
(* A patch.                                                                *)

\* s.count(anchor)
Anchors(tree, e) ==
  IF e \in tree.missing THEN 0 ELSE IF tree.made[e] = 0 \/ e \in Keeping THEN 1 ELSE 0

\* Mutant: the markers are not looked for.
PendingAlways(tree, patch) == Edits(patch)

\* The edits that a patch finds still to make.
Pending(tree, patch) ==
  CASE patch.marker = "edit" -> {e \in Edits(patch) : tree.made[e] = 0}
    [] patch.marker = "file" ->
         IF \E e \in Edits(patch) : tree.made[e] > 0 THEN {} ELSE Edits(patch)
    [] patch.marker = "none" -> Edits(patch)

Applies(tree, patch) == \A e \in Pending(tree, patch) : Anchors(tree, e) = 1

Made(tree, edits) ==
  [tree EXCEPT !.made = [e \in Edit |-> IF e \in edits THEN @[e] + 1 ELSE @[e]]]

Applied(tree, patch) == Made(tree, Pending(tree, patch))

\* Mutant: each edit is written as it is made.
AfterRaiseWritten(tree, patch) ==
  Made(tree, {e \in Pending(tree, patch) : Anchors(tree, e) = 1})

\* A patch that raises has not written its file.  A script that writes one file
\* before it looks for the anchors of the next is a patch for each.
AfterRaise(tree, patch) == tree

-----------------------------------------------------------------------------
(* build.sh and docker build.                                              *)

Fresh == [made |-> [e \in Edit |-> 0], missing |-> upstream]

\* FROM: the image must be there.
HasBase(stage) == stage.base = Upstream \/ images[stage.base] # Nothing
BaseTree(stage) == IF stage.base = Upstream THEN Fresh ELSE images[stage.base].tree

\* A build of stage i of build.sh, or of the overlay (i = 0); Nothing where its
\* base is missing.
StageAt(i) == IF i = 0 THEN Overlay ELSE Stages[i]
Building(i) ==
  IF HasBase(StageAt(i)) THEN [stage |-> i, at |-> 1, tree |-> BaseTree(StageAt(i))]
                         ELSE Nothing

\* build.sh is started, or the overlay's docker build.  A container has a copy of
\* its image's tree: it is enough to let it run between the builds.
StartBuild(i) ==
  /\ job = Nothing /\ live = Nothing /\ i \in {0, 1}
  /\ Building(i) # Nothing
  /\ job' = Building(i)
  /\ outcome' = IF i = 1 THEN "none" ELSE outcome
  /\ UNCHANGED <<rev, upstream, images, live, vouched>>

Patching == job # Nothing /\ job.at <= Len(StageAt(job.stage).patches)

\* The next command of the RUN lines succeeds.
BuildPatch ==
  /\ Patching
  /\ LET patch == StageAt(job.stage).patches[job.at]
     IN /\ Applies(job.tree, patch)
        /\ job' = [job EXCEPT !.at = @ + 1, !.tree = Applied(@, patch)]
  /\ UNCHANGED <<rev, upstream, images, outcome, live, vouched>>

\* Mutant: the commands of a RUN line go on after one that failed.
LayerAfterFailureKept == [job EXCEPT !.at = @ + 1]

\* The layer of a failed RUN line.
LayerAfterFailure == Nothing

\* Mutant: build.sh goes on to the next stage.
NextAfterFailureOn(i) == IF i = 0 \/ i = Len(Stages) THEN Nothing ELSE Building(i + 1)

\* What is built after stage i has failed: build.sh exits.
NextAfterFailure(i) == Nothing

\* Whether the build.sh that had a stage fail comes to its end nevertheless.
EndedAfter(i) ==
  IF i = 0 THEN outcome
  ELSE IF NextAfterFailure(i) # Nothing THEN "none" ELSE "failed"

\* A command fails: a patch that does not apply, or anything else: no network
\* for pip, a full disk, a kill.
FailBuild ==
  /\ Patching
  /\ IF LayerAfterFailure # Nothing THEN job' = LayerAfterFailure /\ outcome' = outcome
     ELSE job' = NextAfterFailure(job.stage) /\ outcome' = EndedAfter(job.stage)
  /\ UNCHANGED <<rev, upstream, images, live, vouched>>

\* docker build tags the image, build.sh goes to the next stage.
CommitBuild ==
  /\ job # Nothing /\ ~Patching
  /\ LET last == job.stage \in {0, Len(Stages)}
         image == [tree |-> job.tree, rev |-> rev]
         after == [images EXCEPT ![StageAt(job.stage).tag] = image]
     IN /\ images' = after
        /\ job' = IF last THEN Nothing
                  ELSE LET next == Stages[job.stage + 1]
                       IN [stage |-> job.stage + 1, at |-> 1,
                           tree |-> IF next.base = Upstream THEN Fresh
                                    ELSE after[next.base].tree]
        /\ outcome' = IF last /\ job.stage # 0 THEN "ok" ELSE outcome
  /\ UNCHANGED <<rev, upstream, live, vouched>>

\* Sources or upstream change, with no build under way.
Revise ==
  /\ job = Nothing /\ live = Nothing /\ rev < MaxRev
  /\ rev' = rev + 1 /\ upstream' \in Drifts
  /\ outcome' = "none"
  /\ UNCHANGED <<images, job, live, vouched>>

-----------------------------------------------------------------------------
(* The overlay's scripts by hand, in a container.                          *)

StartContainer(t) ==
  /\ live = Nothing /\ job = Nothing /\ t \in {Overlay.base, Overlay.tag} /\ images[t] # Nothing
  /\ live' = [tree |-> images[t].tree, script |-> Nothing, at |-> 0]
  /\ vouched' = {}
  /\ UNCHANGED <<rev, upstream, images, job, outcome>>

StartScript(script) ==
  /\ live # Nothing /\ live.script = Nothing
  /\ live' = [live EXCEPT !.script = script, !.at = 1]
  /\ UNCHANGED <<rev, upstream, images, job, outcome, vouched>>

\* The patches of a script that it has not come to when it is at position i.
Rest(script, i) ==
  {j \in i .. Len(Overlay.patches) : Overlay.patches[j].script = script}

Idle(tree) == [live EXCEPT !.tree = tree, !.script = Nothing, !.at = 0]

\* The script's next patch, or its end.
LivePatch ==
  /\ live # Nothing /\ live.script # Nothing
  /\ LET rest == Rest(live.script, live.at)
     IN \/ /\ rest = {}
           /\ live' = Idle(live.tree) /\ vouched' = vouched \cup {live.script}
        \/ \E i \in rest :
             /\ \A j \in rest : i <= j
             /\ vouched' = vouched
             /\ LET patch == Overlay.patches[i]
                IN live' = IF Applies(live.tree, patch)
                             THEN [live EXCEPT !.at = i + 1, !.tree = Applied(@, patch)]
                             ELSE Idle(AfterRaise(live.tree, patch))
  /\ UNCHANGED <<rev, upstream, images, job, outcome>>

\* The script is interrupted between two writes.
Interrupt ==
  /\ live # Nothing /\ live.script # Nothing
  /\ live' = Idle(live.tree)
  /\ UNCHANGED <<rev, upstream, images, job, outcome, vouched>>

RemoveContainer ==
  /\ live # Nothing /\ live' = Nothing /\ vouched' = {}
  /\ UNCHANGED <<rev, upstream, images, job, outcome>>

ImageNext ==
  \/ \E i \in {0, 1} : StartBuild(i)
  \/ BuildPatch \/ FailBuild \/ CommitBuild \/ Revise
  \/ \E t \in Tag : StartContainer(t)
  \/ \E script \in Scripts : StartScript(script)
  \/ LivePatch \/ Interrupt \/ RemoveContainer

ImageSpec == ImageInit /\ [][ImageNext]_imageVars

-----------------------------------------------------------------------------
(* Properties.                                                             *)

ImageTypeOK ==
  /\ rev \in 1 .. MaxRev /\ upstream \in Drifts
  /\ images \in [Tag -> Image \cup {Nothing}]
  /\ job \in Build \cup {Nothing}
  /\ outcome \in {"none", "ok", "failed"}
  /\ live \in Container \cup {Nothing}
  /\ vouched \subseteq Scripts

EditsOf(stage) == UNION {Edits(patch) : patch \in Patches(stage)}

\* The stages below a tag and its own: the least set that has the base of each.
Closed(tags) ==
  \A t \in tags : StageOf(t).base # Upstream => StageOf(t).base \in tags
Below(tag) ==
  {t \in Tag : \A tags \in SUBSET Tag : tag \in tags /\ Closed(tags) => t \in tags}

\* The edits of the stages an image is made of.
Ancestry == [tag \in Tag |-> UNION {EditsOf(StageOf(t)) : t \in Below(tag)}]

\* Every image has each edit of its own stage and of those below it exactly
\* once and no other edit, whatever failed or was built again before.
ImagesWhole ==
  \A t \in Tag : images[t] # Nothing =>
    \A e \in Edit : images[t].tree.made[e] = (IF e \in Ancestry[t] THEN 1 ELSE 0)

\* A build.sh that came to its end left every stage in its current revision: no
\* stage is the one an earlier run tagged.
FinishedIsFresh ==
  outcome = "ok" => \A i \in 1 .. Len(Stages) :
    images[Stages[i].tag] # Nothing /\ images[Stages[i].tag].rev = rev

\* In a container no edit is ever made twice, and a script that returned 0 has
\* made all of its edits there, in this run or in those that raised or were
\* interrupted before.
ScriptsVouch ==
  live # Nothing =>
    /\ \A e \in Edit : live.tree.made[e] <= 1
    /\ \A patch \in Patches(Overlay) : patch.script \in vouched =>
         \A e \in Edits(patch) : live.tree.made[e] = 1
=============================================================================
