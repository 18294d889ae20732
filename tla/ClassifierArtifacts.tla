------------------------ MODULE ClassifierArtifacts ------------------------
(***************************************************************************)
(* Classifier artifacts: backend/spam_detection/classifier.py over the      *)
(* object storage of artifact_storage.py and the classifier rows of         *)
(* store.py.  Importing, training and exporting store an artifact under its *)
(* version and then point the classifier at it; promoting copies the        *)
(* artifact of a classifier, with a checksum file, to where a registry      *)
(* fetches it; materializing copies that pair to a local file.              *)
(*                                                                         *)
(* Neither the object store nor the file system shares a transaction with   *)
(* the database: a request is a chain of steps that may end after any of    *)
(* them.  It holds a session advisory lock from its first step to its last. *)
(* Which classifier is active is ClassifierActivation's.                    *)
(***************************************************************************)
EXTENDS Naturals

CONSTANTS
    Request,     \* console and command-line requests that may be in flight
    Classifier,  \* ids of spam_classifier
    Version,     \* artifact versions
    Threshold,   \* ingress thresholds
    Upload,      \* artifact files an operator brings from elsewhere
    MaxExamples, \* bound: how often the training examples of a classifier change
    Kinds,       \* the operations of this instance; "copy" is an export that has
                 \* an output path
    None         \* NULL

\* An artifact is what it was trained from: the version of the base artifact and
\* the state of the training examples.  form: the bytes the tool writes for it, or
\* those of a file written by something else.  A checksum is the artifact it sums.
Artifact == [version: Version, base: Version \cup {None}, examples: 0 .. MaxExamples,
             threshold: Threshold, form: {"canonical", "file"}]

ASSUME ArtifactAssumption ==
    /\ None \notin Request \cup Classifier \cup Version \cup Artifact
    /\ MaxExamples \in Nat
    /\ Upload \subseteq Artifact
    /\ Kinds \subseteq {"import", "train", "export", "copy", "promote", "materialize"}

VARIABLES
    row,       \* spam_classifier: the artifact and the base artifact of each
    examples,  \* the live training examples of each, as how often they changed
    threshold, \* effective_ingress_threshold of each
    object,    \* object storage: the artifact under each version
    promoted,  \* object storage: the promoted artifact and its checksum file
    output,    \* local files: the materialized pair and the exported pair
    req        \* the requests

tables == <<row, examples, threshold>>
vars == <<row, examples, threshold, object, promoted, output, req>>

Stored == Artifact \cup {None}

Row == [exists: BOOLEAN, version: Version \cup {None}, sha: Stored,
        base: Version \cup {None}, baseSha: Stored]

NoRow == [exists |-> FALSE, version |-> None, sha |-> None, base |-> None, baseSha |-> None]

Pair   == [artifact: Stored, checksum: Stored]
NoPair == [artifact |-> None, checksum |-> None]
File   == {"materialized", "exported"}

\* given is the version the operator asked for, artifact what the request has
\* read or built, sha the checksum of what storage holds of it.
Req == [pc: {"idle", "lock", "lookup", "read", "version", "head", "put", "row",
             "promote", "checksum", "fetch", "verify", "local", "localsum"},
        kind: Kinds \cup {"none"}, target: Classifier \cup {None},
        given: Version \cup {None}, artifact: Stored, sha: Stored]

NewReq(pc, kind, target, given, artifact) ==
    [pc |-> pc, kind |-> kind, target |-> target,
     given |-> given, artifact |-> artifact, sha |-> None]

NoReq == NewReq("idle", "none", None, None, None)

TypeOK ==
    /\ row \in [Classifier -> Row]
    /\ examples \in [Classifier -> 0 .. MaxExamples]
    /\ threshold \in [Classifier -> Threshold]
    /\ object \in [Version -> Stored]
    /\ promoted \in Pair
    /\ output \in [File -> Pair]
    /\ req \in [Request -> Req]

Init ==
    /\ row = [c \in Classifier |-> NoRow]
    /\ examples = [c \in Classifier |-> 0]
    /\ threshold \in [Classifier -> Threshold]
    /\ object = [v \in Version |-> None]
    /\ promoted = NoPair
    /\ output = [f \in File |-> NoPair]
    /\ req = [o \in Request |-> NoReq]

Names(c, v) == row[c].exists /\ v \in {row[c].version, row[c].base}
Same(a, b)  == [a EXCEPT !.form = "canonical"] = [b EXCEPT !.form = "canonical"]

At(o, kinds, pc)   == req[o].kind \in kinds /\ req[o].pc = pc
Advance(o, next)   == req' = [req EXCEPT ![o] = next]
Goto(o, pc)        == Advance(o, [req[o] EXCEPT !.pc = pc])
Finish(o)          == Advance(o, NoReq)

(***************************************************************************)
(* Requests and their locks                                                *)
(***************************************************************************)
Trains  == {"train", "export", "copy"}
Exports == {"export", "copy"}

\* Mutant of LockName: exporting does not exclude training.
LockPerOperation(o) ==
    CASE req[o].kind = "import"    -> <<"import", req[o].artifact.version>>
      [] req[o].kind \in Trains -> <<req[o].kind, req[o].target>>
      [] OTHER                     -> <<"promotion", None>>

\* Mutant of LockName: promotions of different classifiers do not exclude each
\* other, nor the materialization of the pair.
LockPromotionPerClassifier(o) ==
    CASE req[o].kind = "import"    -> <<"import", req[o].artifact.version>>
      [] req[o].kind \in Trains -> <<"train", req[o].target>>
      [] OTHER                     -> <<"promotion", req[o].target>>

\* The name given to state_advisory_lock.
LockName(o) ==
    CASE req[o].kind = "import"    -> <<"import", req[o].artifact.version>>
      [] req[o].kind \in Trains -> <<"train", req[o].target>>
      [] OTHER                     -> <<"promotion", None>>

Locking == {o \in Request : req[o].pc \notin {"idle", "lock"}}

BeginImport(o, a) ==
    /\ "import" \in Kinds /\ req[o].pc = "idle"
    /\ Advance(o, NewReq("lock", "import", None, None, a))
    /\ UNCHANGED <<tables, object, promoted, output>>

Begin(o, kind, c, v) ==
    /\ kind \in Kinds \ {"import"} /\ req[o].pc = "idle"
    /\ kind = "materialize" <=> c = None
    /\ v # None => kind \in Trains
    /\ Advance(o, NewReq("lock", kind, c, v, None))
    /\ UNCHANGED <<tables, object, promoted, output>>

\* What the operation does first under its lock.
First == [import |-> "lookup", train |-> "read", export |-> "read", copy |-> "read",
          promote |-> "read", materialize |-> "fetch"]

TakeLock(o) ==
    /\ req[o].pc = "lock"
    /\ \A q \in Locking : LockName(q) # LockName(o)
    /\ Goto(o, First[req[o].kind])
    /\ UNCHANGED <<tables, object, promoted, output>>

\* Every error return, lost connection and crash; the lock goes with its session.
Abort(o) ==
    /\ req[o].pc # "idle"
    /\ Finish(o)
    /\ UNCHANGED <<tables, object, promoted, output>>

(***************************************************************************)
(* What an operation reads before it stores                                *)
(***************************************************************************)
OwnVersion(o) == req[o].artifact.version

\* The checksum an import is compared with.
ImportedSha(c) == IF row[c].baseSha # None THEN row[c].baseSha ELSE row[c].sha

\* _import_classifier_artifact: a version some classifier names is not imported
\* again; the same file is found to be there, another one is refused.
Lookup(o) ==
    /\ At(o, {"import"}, "lookup")
    /\ \/ /\ \A c \in Classifier : ~Names(c, OwnVersion(o))
          /\ Goto(o, "head")
       \/ /\ \E c \in Classifier : Names(c, OwnVersion(o)) /\ ImportedSha(c) = req[o].artifact
          /\ Finish(o)
    /\ UNCHANGED <<tables, object, promoted, output>>

RefuseImport(o) ==
    /\ At(o, {"import"}, "lookup")
    /\ \E c \in Classifier : Names(c, OwnVersion(o)) /\ ImportedSha(c) # req[o].artifact
    /\ Finish(o)
    /\ UNCHANGED <<tables, object, promoted, output>>

\* generated_artifact_version: the time of day, that nothing else is called.
Generated(v) ==
    /\ object[v] = None
    /\ \A c \in Classifier : ~Names(c, v)
    /\ \A o \in Request : /\ req[o].given # v
                          /\ req[o].artifact # None => OwnVersion(o) # v
    /\ \A a \in Upload : a.version # v

UsedByAnother(v, c) == \E q \in Classifier \ {c} : Names(q, v)

\* _train_classifier up to its version; the threshold is read in CheckVersion.
ReadExamples(o, v) ==
    LET c == req[o].target IN
    /\ At(o, {"train"}, "read")
    /\ row[c].exists
    /\ row[c].base # None => object[row[c].base] = row[c].baseSha
    /\ row[c].base # None \/ examples[c] > 0
    /\ IF req[o].given # None THEN v = req[o].given ELSE Generated(v)
    /\ Advance(o, [req[o] EXCEPT !.pc = "version",
           !.artifact = [version |-> v, base |-> row[c].base, examples |-> examples[c],
                         threshold |-> threshold[c], form |-> "canonical"]])
    /\ UNCHANGED <<tables, object, promoted, output>>

\* artifact_version_exists and effective_ingress_threshold.
CheckVersion(o) ==
    /\ At(o, {"train"}, "version")
    /\ ~UsedByAnother(OwnVersion(o), req[o].target)
    /\ Advance(o, [req[o] EXCEPT !.pc = "head",
                                 !.artifact.threshold = threshold[req[o].target]])
    /\ UNCHANGED <<tables, object, promoted, output>>

AfterRead == [export |-> "version", copy |-> "version", promote |-> "promote"]

\* Mutant of ReadArtifact: the base artifact is read instead of the one in use.
ReadBaseArtifact(o) ==
    LET r == row[req[o].target] IN
    /\ At(o, Exports \cup {"promote"}, "read")
    /\ r.base # None /\ object[r.base] = r.baseSha
    /\ Advance(o, [req[o] EXCEPT !.artifact = r.baseSha,
                                 !.pc = AfterRead[req[o].kind]])
    /\ UNCHANGED <<tables, object, promoted, output>>

\* load_artifact_from_classifier; _promote_artifact reads and checks the same.
ReadArtifact(o) ==
    LET r == row[req[o].target] IN
    /\ At(o, Exports \cup {"promote"}, "read")
    /\ r.version # None /\ object[r.version] = r.sha
    /\ Advance(o, [req[o] EXCEPT !.artifact = r.sha,
                                 !.pc = AfterRead[req[o].kind]])
    /\ UNCHANGED <<tables, object, promoted, output>>

\* apply_ingress_policy and artifact_version_exists: an artifact with a new
\* threshold gets a new version.
ApplyPolicy(o, v) ==
    LET c == req[o].target
        a == req[o].artifact IN
    /\ At(o, Exports, "version")
    /\ IF req[o].given # None THEN v = req[o].given
       ELSE IF a.threshold = threshold[c] THEN v = a.version
       ELSE Generated(v)
    /\ ~UsedByAnother(v, c)
    /\ Advance(o, [req[o] EXCEPT !.pc = "head",
           !.artifact = [a EXCEPT !.version = v, !.threshold = threshold[c],
                                  !.form = "canonical"]])
    /\ UNCHANGED <<tables, object, promoted, output>>

(***************************************************************************)
(* Storing an artifact under its version, and naming it                    *)
(***************************************************************************)
\* Mutant of MatchExisting: the checksum returned is that of the new bytes.
MatchByMeaning(o) ==
    /\ object[OwnVersion(o)] # None
    /\ Same(object[OwnVersion(o)], req[o].artifact)
    /\ Advance(o, [req[o] EXCEPT !.pc = "row", !.sha = req[o].artifact])

\* Mutant of MatchExisting: an object that is there is a conflict, whatever it is.
MatchNothing(o) == FALSE

\* _matching_existing: equal up to formatting, and then the bytes that are there
\* count.
MatchExisting(o) ==
    /\ object[OwnVersion(o)] # None
    /\ Same(object[OwnVersion(o)], req[o].artifact)
    /\ Advance(o, [req[o] EXCEPT !.pc = "row", !.sha = object[OwnVersion(o)]])

Head(o) ==
    /\ At(o, Kinds, "head")
    /\ \/ object[OwnVersion(o)] = None /\ Goto(o, "put")
       \/ MatchExisting(o)
    /\ UNCHANGED <<tables, object, promoted, output>>

\* Mutant of Put: without IfNoneMatch.
PutOver(o) ==
    /\ At(o, Kinds, "put")
    /\ object' = [object EXCEPT ![OwnVersion(o)] = req[o].artifact]
    /\ Advance(o, [req[o] EXCEPT !.pc = "row", !.sha = req[o].artifact])
    /\ UNCHANGED <<tables, promoted, output>>

\* put_object with IfNoneMatch; a conflict is looked at again.
Put(o) ==
    /\ At(o, Kinds, "put")
    /\ \/ /\ object[OwnVersion(o)] = None
          /\ object' = [object EXCEPT ![OwnVersion(o)] = req[o].artifact]
          /\ Advance(o, [req[o] EXCEPT !.pc = "row", !.sha = req[o].artifact])
       \/ MatchExisting(o) /\ UNCHANGED object
    /\ UNCHANGED <<tables, promoted, output>>

\* Mutant of InsertRow: the base artifact's columns take their values in the wrong
\* order.
InsertRowSwapped(o, c) ==
    LET v == OwnVersion(o) IN
    /\ At(o, {"import"}, "row")
    /\ ~row[c].exists
    /\ \A q \in Classifier : row[q].version # v /\ row[q].base # v
    /\ row' = [row EXCEPT ![c] = [exists |-> TRUE, version |-> v, sha |-> req[o].sha,
                                  base |-> req[o].sha, baseSha |-> v]]
    /\ threshold' = [threshold EXCEPT ![c] = req[o].artifact.threshold]
    /\ Finish(o)
    /\ UNCHANGED <<examples, object, promoted, output>>

\* create_imported_classifier; artifact_version and base_artifact_version are
\* unique columns, each by itself.
InsertRow(o, c) ==
    LET v == OwnVersion(o) IN
    /\ At(o, {"import"}, "row")
    /\ ~row[c].exists
    /\ \A q \in Classifier : row[q].version # v /\ row[q].base # v
    /\ row' = [row EXCEPT ![c] = [exists |-> TRUE, version |-> v, sha |-> req[o].sha,
                                  base |-> v, baseSha |-> req[o].sha]]
    /\ threshold' = [threshold EXCEPT ![c] = req[o].artifact.threshold]
    /\ Finish(o)
    /\ UNCHANGED <<examples, object, promoted, output>>

\* update_classifier_artifact.
UpdateRow(o) ==
    LET c == req[o].target
        v == OwnVersion(o) IN
    /\ At(o, Trains, "row")
    /\ \A q \in Classifier \ {c} : row[q].version # v
    /\ row' = [row EXCEPT ![c].version = v, ![c].sha = req[o].sha]
    /\ IF req[o].kind = "copy" THEN Goto(o, "local") ELSE Finish(o)
    /\ UNCHANGED <<examples, threshold, object, promoted, output>>

(***************************************************************************)
(* Promotion, and pairs of local files                                     *)
(***************************************************************************)
\* Mutant of PutPromoted: nothing is left to do when the artifact is already
\* the promoted one.
PutPromotedOnce(o) ==
    /\ At(o, {"promote"}, "promote")
    /\ promoted' = [promoted EXCEPT !.artifact = req[o].artifact]
    /\ IF promoted.artifact = req[o].artifact THEN Finish(o) ELSE Goto(o, "checksum")
    /\ UNCHANGED <<tables, object, output>>

PutPromoted(o) ==
    /\ At(o, {"promote"}, "promote")
    /\ promoted' = [promoted EXCEPT !.artifact = req[o].artifact]
    /\ Goto(o, "checksum")
    /\ UNCHANGED <<tables, object, output>>

PutChecksum(o) ==
    /\ At(o, {"promote"}, "checksum")
    /\ promoted' = [promoted EXCEPT !.checksum = req[o].artifact]
    /\ Finish(o)
    /\ UNCHANGED <<tables, object, output>>

\* _materialize_promoted_artifact reads the two objects and compares them.
Fetch(o) ==
    /\ At(o, {"materialize"}, "fetch")
    /\ promoted.artifact # None
    /\ Advance(o, [req[o] EXCEPT !.pc = "verify", !.artifact = promoted.artifact])
    /\ UNCHANGED <<tables, object, promoted, output>>

\* Mutant of Verify: a checksum that is there is good enough.
VerifyPresent(o) ==
    /\ At(o, {"materialize"}, "verify")
    /\ promoted.checksum # None
    /\ Goto(o, "local")
    /\ UNCHANGED <<tables, object, promoted, output>>

Verify(o) ==
    /\ At(o, {"materialize"}, "verify")
    /\ promoted.checksum = req[o].artifact
    /\ Goto(o, "local")
    /\ UNCHANGED <<tables, object, promoted, output>>

LocalFile(o) == IF req[o].kind = "copy" THEN "exported" ELSE "materialized"

\* os.replace of the artifact.  Only a materialization replaces another one; an
\* export keeps a file that means the same.
WriteLocal(o) ==
    LET f == LocalFile(o)
        a == req[o].artifact
        old == output[f].artifact
        kept == IF req[o].kind = "copy" /\ old # None THEN old ELSE a IN
    /\ req[o].pc = "local"
    /\ req[o].kind = "copy" /\ old # None => Same(old, a)
    /\ output' = [output EXCEPT ![f].artifact = kept]
    /\ Advance(o, [req[o] EXCEPT !.pc = "localsum", !.artifact = kept])
    /\ UNCHANGED <<tables, object, promoted>>

WriteLocalSum(o) ==
    /\ req[o].pc = "localsum"
    /\ output' = [output EXCEPT ![LocalFile(o)].checksum = req[o].artifact]
    /\ Finish(o)
    /\ UNCHANGED <<tables, object, promoted>>

(***************************************************************************)
(* What operators do meanwhile                                             *)
(***************************************************************************)
\* create_classifier, without an artifact.
CreateClassifier(c) ==
    /\ "train" \in Kinds /\ ~row[c].exists
    /\ row' = [row EXCEPT ![c].exists = TRUE]
    /\ UNCHANGED <<examples, threshold, object, promoted, output, req>>

\* add_training_example: by hand, a row of a CSV import, or a review decision.
ChangeExamples(c) ==
    /\ row[c].exists /\ examples[c] < MaxExamples
    /\ examples' = [examples EXCEPT ![c] = @ + 1]
    /\ UNCHANGED <<row, threshold, object, promoted, output, req>>

\* update_classifier, update_policy and activation.
SetThreshold(c, t) ==
    /\ threshold' = [threshold EXCEPT ![c] = t]
    /\ UNCHANGED <<row, examples, object, promoted, output, req>>

\* Files at hand: those from elsewhere and those a console offers for download.
AtHand == Upload \cup {row[c].sha : c \in {q \in Classifier : row[q].version # None}}

Step(o) ==
    \/ TakeLock(o)
    \/ Lookup(o) \/ RefuseImport(o) \/ (\E v \in Version : ReadExamples(o, v))
    \/ CheckVersion(o) \/ ReadArtifact(o) \/ (\E v \in Version : ApplyPolicy(o, v))
    \/ Head(o) \/ Put(o) \/ (\E c \in Classifier : InsertRow(o, c)) \/ UpdateRow(o)
    \/ PutPromoted(o) \/ PutChecksum(o) \/ Fetch(o) \/ Verify(o)
    \/ WriteLocal(o) \/ WriteLocalSum(o)

Next ==
    \/ \E o \in Request :
           \/ \E a \in AtHand : BeginImport(o, a)
           \/ \E kind \in Kinds \ {"import"}, c \in Classifier \cup {None},
                 v \in Version \cup {None} : Begin(o, kind, c, v)
           \/ Step(o) \/ Abort(o)
    \/ \E c \in Classifier :
           \/ CreateClassifier(c) \/ ChangeExamples(c)
           \/ \E t \in Threshold : SetThreshold(c, t)

Spec == Init /\ [][Next]_vars
=============================================================================
