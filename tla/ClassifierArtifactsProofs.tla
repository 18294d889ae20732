---------------------- MODULE ClassifierArtifactsProofs ----------------------
(***************************************************************************)
(* Proofs about ClassifierArtifacts, for any number of requests,            *)
(* classifiers, versions and files.                                         *)
(***************************************************************************)
EXTENDS ClassifierArtifactsProps, TLAPS

(***************************************************************************)
(* The well-formed requests                                                *)
(***************************************************************************)
\* What a request of each kind has at each of its steps.
Shape(r) ==
    /\ r.kind = "none" <=> r.pc = "idle"
    /\ r.pc = "lookup" => r.kind = "import"
    /\ r.pc = "read" => r.kind \in Trains \cup {"promote"}
    /\ r.pc = "version" => r.kind \in Trains
    /\ r.pc \in {"head", "put", "row"} => r.kind \in Trains \cup {"import"}
    /\ r.pc \in {"promote", "checksum"} => r.kind = "promote"
    /\ r.pc \in {"fetch", "verify"} => r.kind = "materialize"
    /\ r.pc \in {"local", "localsum"} => r.kind \in {"copy", "materialize"}
    /\ r.kind \in Trains \cup {"promote"} => r.target \in Classifier
    /\ r.kind = "import" => r.artifact # None
    /\ r.pc \in {"version", "head", "put", "row", "promote", "checksum", "verify",
                 "local", "localsum"} => r.artifact # None
    /\ r.pc = "row" => r.sha # None

\* A version and its checksum are set together.
Whole(r) ==
    /\ r.version # None <=> r.sha # None
    /\ r.base # None <=> r.baseSha # None

BaseInv ==
    /\ TypeOK
    /\ \A o \in Request : Shape(req[o])
    /\ \A c \in Classifier : Whole(row[c])

\* A step that changes one request and nothing else.
LEMMA BaseLocal ==
    ASSUME BaseInv, NEW o \in Request, NEW r \in Req, Advance(o, r), Shape(r),
           UNCHANGED <<tables, object, promoted, output>>
    PROVE  BaseInv'
<1>1. req' \in [Request -> Req] /\ req'[o] = r /\ \A q \in Request \ {o} : req'[q] = req[q]
  BY DEF BaseInv, TypeOK, Advance
<1>2. TypeOK'
  BY <1>1 DEF BaseInv, TypeOK, tables
<1>3. \A q \in Request : Shape(req'[q])
  BY <1>1 DEF BaseInv
<1> QED
  BY <1>2, <1>3 DEF BaseInv, Shape, Whole, tables

\* What the invariant says of one request.
LEMMA Reqs ==
    ASSUME BaseInv, NEW o \in Request
    PROVE  req[o] \in Req /\ Shape(req[o])
  BY DEF BaseInv, TypeOK

\* A request that is not there is well formed.
LEMMA NoReqWellFormed == NoReq \in Req /\ Shape(NoReq)
  BY DEF NoReq, NewReq, Req, Shape, Stored, Trains, Exports

\* Ending a request.
LEMMA FinishBase ==
    ASSUME BaseInv, NEW o \in Request, Finish(o), UNCHANGED <<tables, object, promoted, output>>
    PROVE  BaseInv'
  BY NoReqWellFormed, BaseLocal DEF Finish

\* Beginning an import.
LEMMA BeginImportBase ==
    ASSUME BaseInv, NEW o \in Request, NEW a \in Artifact, BeginImport(o, a)
    PROVE  BaseInv'
<1> DEFINE r == NewReq("lock", "import", None, None, a)
<1>1. r \in Req /\ Shape(r)
  BY ArtifactAssumption DEF NewReq, BeginImport, Req, Shape, Stored, Trains, Exports
<1> QED
  BY <1>1, BaseLocal DEF BeginImport

\* Beginning any other operation.
LEMMA BeginBase ==
    ASSUME BaseInv, NEW o \in Request, NEW kind \in Kinds \ {"import"},
           NEW c \in Classifier \cup {None}, NEW v \in Version \cup {None}, Begin(o, kind, c, v)
    PROVE  BaseInv'
<1> DEFINE r == NewReq("lock", kind, c, v, None)
<1>1. r \in Req /\ Shape(r)
  BY ArtifactAssumption DEF NewReq, Begin, Req, Shape, Stored, Trains, Exports
<1> QED
  BY <1>1, BaseLocal DEF Begin

\* Going on to another step.
LEMMA GotoBase ==
    ASSUME BaseInv, NEW o \in Request, NEW pc, Goto(o, pc),
           [req[o] EXCEPT !.pc = pc] \in Req, Shape([req[o] EXCEPT !.pc = pc]),
           UNCHANGED <<tables, object, promoted, output>>
    PROVE  BaseInv'
  BY BaseLocal DEF Goto

\* Getting the lock.
LEMMA TakeLockBase ==
    ASSUME BaseInv, NEW o \in Request, TakeLock(o)
    PROVE  BaseInv'
<1> DEFINE pc == First[req[o].kind]
           r == [req[o] EXCEPT !.pc = pc]
<1>1. req[o] \in Req /\ Shape(req[o]) /\ req[o].pc = "lock"
  BY Reqs DEF TakeLock
<1>2. req[o].kind \in {"import", "train", "export", "copy", "promote", "materialize"}
  BY <1>1, ArtifactAssumption DEF Shape, Req
<1>3. /\ req[o].kind = "import" => pc = "lookup"
      /\ req[o].kind \in Trains \cup {"promote"} => pc = "read"
      /\ req[o].kind = "materialize" => pc = "fetch"
  BY DEF First, Trains
<1>4. r \in Req /\ Shape(r)
  BY <1>1, <1>2, <1>3 DEF Req, Shape, Trains
<1> QED
  BY <1>4, GotoBase DEF TakeLock

\* Comparing an import with what is there.
LEMMA LookupBase ==
    ASSUME BaseInv, NEW o \in Request, Lookup(o)
    PROVE  BaseInv'
<1>1. req[o] \in Req /\ Shape(req[o]) /\ req[o].pc = "lookup"
  BY Reqs DEF Lookup, At
<1>2. [req[o] EXCEPT !.pc = "head"] \in Req /\ Shape([req[o] EXCEPT !.pc = "head"])
  BY <1>1 DEF Req, Shape, Trains
<1> QED
  BY <1>2, GotoBase, FinishBase DEF Lookup

\* What a training builds is an artifact.
LEMMA ReadExamplesBase ==
    ASSUME BaseInv, NEW o \in Request, NEW v \in Version, ReadExamples(o, v)
    PROVE  BaseInv'
<1> DEFINE c == req[o].target
           a == [version |-> v, base |-> row[c].base, examples |-> examples[c],
                 threshold |-> threshold[c], form |-> "canonical"]
           r == [req[o] EXCEPT !.pc = "version", !.artifact = a]
<1>1. /\ req[o] \in Req /\ Shape(req[o]) /\ req[o].pc = "read" /\ req[o].kind = "train"
      /\ c \in Classifier
  BY Reqs DEF ReadExamples, At, Shape, Trains
<1>2. row[c].base \in Version \cup {None} /\ examples[c] \in 0 .. MaxExamples
      /\ threshold[c] \in Threshold
  BY <1>1 DEF BaseInv, TypeOK, Row
<1>3. a \in Artifact
  BY <1>2 DEF Artifact
<1> HIDE DEF a
<1>4. r \in Req /\ Shape(r)
  BY <1>1, <1>3, ArtifactAssumption DEF Req, Shape, Stored, Trains
<1> QED
  BY <1>4, BaseLocal DEF ReadExamples, a

\* Checking the version and reading the threshold.
LEMMA CheckVersionBase ==
    ASSUME BaseInv, NEW o \in Request, CheckVersion(o)
    PROVE  BaseInv'
<1> DEFINE a == [req[o].artifact EXCEPT !.threshold = threshold[req[o].target]]
           r == [req[o] EXCEPT !.pc = "head", !.artifact = a]
<1>1. /\ req[o] \in Req /\ Shape(req[o]) /\ req[o].pc = "version" /\ req[o].kind = "train"
      /\ req[o].target \in Classifier
  BY Reqs DEF CheckVersion, At, Shape, Trains
<1>2. req[o].artifact \in Artifact /\ threshold[req[o].target] \in Threshold
  BY <1>1 DEF BaseInv, TypeOK, Shape, Req, Stored
<1>3. a \in Artifact
  BY <1>2 DEF Artifact
<1>4. r = [req[o] EXCEPT !.pc = "head", !.artifact.threshold = threshold[req[o].target]]
  BY <1>1, <1>2 DEF Req, Stored
<1> HIDE DEF a
<1>5. r \in Req /\ Shape(r)
  BY <1>1, <1>3, ArtifactAssumption DEF Req, Shape, Stored, Trains
<1> QED
  BY <1>4, <1>5, BaseLocal DEF CheckVersion

\* Reading the artifact of a classifier.
LEMMA ReadArtifactBase ==
    ASSUME BaseInv, NEW o \in Request, ReadArtifact(o)
    PROVE  BaseInv'
<1> DEFINE c == req[o].target
           pc == AfterRead[req[o].kind]
           r == [req[o] EXCEPT !.artifact = row[c].sha, !.pc = pc]
<1>1. /\ req[o] \in Req /\ Shape(req[o]) /\ req[o].pc = "read"
      /\ req[o].kind \in {"export", "copy", "promote"} /\ c \in Classifier
  BY Reqs DEF ReadArtifact, At, Shape, Trains, Exports
<1>2. /\ req[o].kind \in {"export", "copy"} => pc = "version"
      /\ req[o].kind = "promote" => pc = "promote"
  BY DEF AfterRead
<1>3. row[c].sha \in Stored
  BY <1>1 DEF BaseInv, TypeOK, Row
<1>4. row[c].sha # None
  BY <1>1 DEF BaseInv, Whole, ReadArtifact
<1>5. r \in Req /\ Shape(r)
  BY <1>1, <1>2, <1>3, <1>4 DEF Req, Shape, Trains
<1> QED
  BY <1>5, BaseLocal DEF ReadArtifact

\* Giving an artifact another threshold and version.
LEMMA ApplyPolicyBase ==
    ASSUME BaseInv, NEW o \in Request, NEW v \in Version, ApplyPolicy(o, v)
    PROVE  BaseInv'
<1> DEFINE c == req[o].target
           a == [req[o].artifact EXCEPT !.version = v, !.threshold = threshold[c],
                                        !.form = "canonical"]
           r == [req[o] EXCEPT !.pc = "head", !.artifact = a]
<1>1. /\ req[o] \in Req /\ Shape(req[o]) /\ req[o].pc = "version"
      /\ req[o].kind \in {"export", "copy"} /\ c \in Classifier
  BY Reqs DEF ApplyPolicy, At, Shape, Trains, Exports
<1>2. req[o].artifact \in Artifact /\ threshold[c] \in Threshold
  BY <1>1 DEF BaseInv, TypeOK, Shape, Req, Stored
<1>3. a \in Artifact
  BY <1>2 DEF Artifact
<1> HIDE DEF a
<1>4. r \in Req /\ Shape(r)
  BY <1>1, <1>3, ArtifactAssumption DEF Req, Shape, Stored, Trains
<1> QED
  BY <1>4, BaseLocal DEF ApplyPolicy, a

\* A request that stores an artifact.
LEMMA Storing ==
    ASSUME BaseInv, NEW o \in Request, req[o].pc \in {"head", "put", "row"}
    PROVE  /\ req[o] \in Req /\ Shape(req[o]) /\ req[o].artifact \in Artifact
           /\ OwnVersion(o) \in Version /\ object[OwnVersion(o)] \in Stored
<1>1. req[o] \in Req /\ Shape(req[o])
  BY Reqs
<1>2. req[o].artifact \in Artifact
  BY <1>1 DEF Shape, Req, Stored
<1> QED
  BY <1>1, <1>2 DEF BaseInv, TypeOK, OwnVersion, Artifact

\* The request goes on to its row with the checksum of what storage holds.
LEMMA ToRow ==
    ASSUME BaseInv, NEW o \in Request, req[o].pc \in {"head", "put"}, NEW sha \in Artifact
    PROVE  LET r == [req[o] EXCEPT !.pc = "row", !.sha = sha] IN r \in Req /\ Shape(r)
<1> DEFINE r == [req[o] EXCEPT !.pc = "row", !.sha = sha]
<1>1. req[o] \in Req /\ Shape(req[o]) /\ sha \in Stored /\ sha # None
  BY Storing, ArtifactAssumption DEF Stored
<1>2. /\ r \in Req /\ r.pc = "row" /\ r.sha = sha /\ r.kind = req[o].kind
      /\ r.target = req[o].target /\ r.artifact = req[o].artifact
  BY <1>1 DEF Req
<1> HIDE DEF r
<1>3. Shape(r)
  BY <1>1, <1>2 DEF Shape
<1> QED
  BY <1>2, <1>3 DEF r

\* Meeting an object that means the same.
LEMMA MatchExistingBase ==
    ASSUME BaseInv, NEW o \in Request, req[o].pc \in {"head", "put"}, MatchExisting(o),
           UNCHANGED <<tables, object, promoted, output>>
    PROVE  BaseInv'
<1>1. object[OwnVersion(o)] \in Artifact
  BY Storing DEF MatchExisting, Stored
<1> QED
  BY <1>1, ToRow, BaseLocal DEF MatchExisting

\* Looking for the object.
LEMMA HeadBase ==
    ASSUME BaseInv, NEW o \in Request, Head(o)
    PROVE  BaseInv'
<1>1. req[o].pc = "head"
  BY DEF Head, At
<1>2. LET r == [req[o] EXCEPT !.pc = "put"] IN r \in Req /\ Shape(r)
  BY <1>1, Storing DEF Req, Shape
<1> QED
  BY <1>1, <1>2, GotoBase, MatchExistingBase DEF Head

\* Storing it.
LEMMA PutBase ==
    ASSUME BaseInv, NEW o \in Request, Put(o)
    PROVE  BaseInv'
<1>1. req[o].pc = "put"
  BY DEF Put, At
<1>2. CASE object' = [object EXCEPT ![OwnVersion(o)] = req[o].artifact]
           /\ Advance(o, [req[o] EXCEPT !.pc = "row", !.sha = req[o].artifact])
           /\ UNCHANGED <<tables, promoted, output>>
  <2> DEFINE r == [req[o] EXCEPT !.pc = "row", !.sha = req[o].artifact]
  <2>1. r \in Req /\ Shape(r) /\ req[o].artifact \in Artifact
    BY <1>1, Storing, ToRow
  <2> HIDE DEF r
  <2>2. req' \in [Request -> Req] /\ req'[o] = r /\ \A q \in Request \ {o} : req'[q] = req[q]
    BY <1>2, <2>1 DEF BaseInv, TypeOK, Advance, r
  <2>3. TypeOK'
    BY <1>2, <2>1, <2>2 DEF BaseInv, TypeOK, tables, Stored
  <2>4. \A q \in Request : Shape(req'[q])
    BY <2>1, <2>2 DEF BaseInv
  <2> QED
    BY <1>2, <2>3, <2>4 DEF BaseInv, Shape, Whole, tables
<1>3. CASE MatchExisting(o) /\ UNCHANGED <<tables, object, promoted, output>>
  BY <1>1, <1>3, MatchExistingBase
<1> QED
  BY <1>2, <1>3 DEF Put

\* A step that ends a request, or sends it on, and changes the tables or files.
LEMMA BaseShared ==
    ASSUME BaseInv, NEW o \in Request, NEW r \in Req, Advance(o, r), Shape(r),
           row' \in [Classifier -> Row], \A c \in Classifier : Whole(row'[c]),
           threshold' \in [Classifier -> Threshold], promoted' \in Pair,
           output' \in [File -> Pair], UNCHANGED <<examples, object>>
    PROVE  BaseInv'
<1>1. req' \in [Request -> Req] /\ req'[o] = r /\ \A q \in Request \ {o} : req'[q] = req[q]
  BY DEF BaseInv, TypeOK, Advance
<1>2. TypeOK'
  BY <1>1 DEF BaseInv, TypeOK
<1>3. \A q \in Request : Shape(req'[q])
  BY <1>1 DEF BaseInv
<1> QED
  BY <1>2, <1>3 DEF BaseInv, Shape, Whole

\* Inserting the row of an imported classifier.
LEMMA InsertRowBase ==
    ASSUME BaseInv, NEW o \in Request, NEW c \in Classifier, InsertRow(o, c)
    PROVE  BaseInv'
<1> DEFINE v == OwnVersion(o)
           new == [exists |-> TRUE, version |-> v, sha |-> req[o].sha,
                   base |-> v, baseSha |-> req[o].sha]
<1>1. /\ req[o].pc = "row" /\ req[o] \in Req /\ Shape(req[o]) /\ v \in Version
      /\ req[o].artifact \in Artifact
  BY Storing DEF InsertRow, At
<1>2. new \in Row /\ Whole(new)
  BY <1>1, ArtifactAssumption DEF Row, Whole, Shape, Req, Stored
<1>3. row' \in [Classifier -> Row] /\ \A q \in Classifier : Whole(row'[q])
  <2>1. row \in [Classifier -> Row] /\ row' = [row EXCEPT ![c] = new]
    BY DEF BaseInv, TypeOK, InsertRow
  <2> HIDE DEF new
  <2> QED
    BY <1>2, <2>1 DEF BaseInv
<1>4. threshold' \in [Classifier -> Threshold]
  BY <1>1 DEF InsertRow, BaseInv, TypeOK, Artifact
<1> QED
  BY <1>3, <1>4, NoReqWellFormed, BaseShared DEF InsertRow, Finish, BaseInv, TypeOK

\* What update_classifier_artifact leaves of the other columns.
LEMMA UpdatedRow ==
    ASSUME BaseInv, NEW o \in Request, UpdateRow(o)
    PROVE  LET c == req[o].target IN
           /\ c \in Classifier /\ row' \in [Classifier -> Row]
           /\ row'[c].version = OwnVersion(o) /\ row'[c].sha = req[o].sha
           /\ row'[c].base = row[c].base /\ row'[c].baseSha = row[c].baseSha
           /\ row'[c].exists = row[c].exists
           /\ \A q \in Classifier \ {c} : row'[q] = row[q]
<1> DEFINE c == req[o].target
<1>1. /\ req[o].pc = "row" /\ req[o] \in Req /\ c \in Classifier /\ OwnVersion(o) \in Version
      /\ row \in [Classifier -> Row] /\ row[c] \in Row
  BY Storing DEF UpdateRow, At, Shape, BaseInv, TypeOK
<1>2. row' = [row EXCEPT ![c] = [row[c] EXCEPT !.version = OwnVersion(o), !.sha = req[o].sha]]
  BY <1>1 DEF UpdateRow, Row
<1> DEFINE new == [row[c] EXCEPT !.version = OwnVersion(o), !.sha = req[o].sha]
<1>3. /\ new \in Row /\ new.version = OwnVersion(o) /\ new.sha = req[o].sha
      /\ new.base = row[c].base /\ new.baseSha = row[c].baseSha /\ new.exists = row[c].exists
  BY <1>1 DEF Row, Req
<1> HIDE DEF new
<1> QED
  BY <1>1, <1>2, <1>3 DEF new

\* Pointing a row at a new artifact.
LEMMA UpdateRowBase ==
    ASSUME BaseInv, NEW o \in Request, UpdateRow(o)
    PROVE  BaseInv'
<1>1. /\ req[o].pc = "row" /\ req[o] \in Req /\ Shape(req[o]) /\ OwnVersion(o) \in Version
      /\ req[o].kind \in Trains
  BY Storing DEF UpdateRow, At
<1>2. \A q \in Classifier : Whole(row'[q])
  BY <1>1, UpdatedRow, ArtifactAssumption DEF Whole, BaseInv, Shape
<1>3. CASE req[o].kind = "copy"
  <2>1. LET r == [req[o] EXCEPT !.pc = "local"] IN r \in Req /\ Shape(r)
    BY <1>1, <1>3 DEF Req, Shape, Trains
  <2>2. /\ Advance(o, [req[o] EXCEPT !.pc = "local"])
        /\ UNCHANGED <<examples, threshold, object, promoted, output>>
    BY <1>3 DEF UpdateRow, Goto
  <2>3. row' \in [Classifier -> Row]
    BY UpdatedRow
  <2> QED
    BY <1>2, <2>1, <2>2, <2>3, BaseShared DEF BaseInv, TypeOK
<1>4. CASE req[o].kind # "copy"
  BY <1>2, <1>4, NoReqWellFormed, UpdatedRow, BaseShared DEF UpdateRow, Finish, BaseInv, TypeOK
<1> QED
  BY <1>3, <1>4

\* A request that promotes, or writes files, has an artifact.
LEMMA Copying ==
    ASSUME BaseInv, NEW o \in Request,
           req[o].pc \in {"promote", "checksum", "verify", "local", "localsum"}
    PROVE  /\ req[o] \in Req /\ Shape(req[o]) /\ req[o].artifact \in Artifact
           /\ promoted \in Pair /\ output \in [File -> Pair] /\ LocalFile(o) \in File
           /\ output[LocalFile(o)] \in Pair
  BY Reqs DEF Shape, Req, Stored, BaseInv, TypeOK, LocalFile, File

\* Writing the promoted artifact.
LEMMA PutPromotedBase ==
    ASSUME BaseInv, NEW o \in Request, PutPromoted(o)
    PROVE  BaseInv'
<1>1. req[o].pc = "promote"
  BY DEF PutPromoted, At
<1>2. LET r == [req[o] EXCEPT !.pc = "checksum"] IN r \in Req /\ Shape(r)
  BY <1>1, Copying DEF Req, Shape
<1>3. promoted' \in Pair
  BY <1>1, Copying DEF PutPromoted, Pair, Stored
<1> QED
  BY <1>2, <1>3, BaseShared DEF PutPromoted, Goto, BaseInv, TypeOK, tables

\* Writing its checksum.
LEMMA PutChecksumBase ==
    ASSUME BaseInv, NEW o \in Request, PutChecksum(o)
    PROVE  BaseInv'
<1>1. req[o].pc = "checksum"
  BY DEF PutChecksum, At
<1>2. promoted' \in Pair
  BY <1>1, Copying DEF PutChecksum, Pair, Stored
<1> QED
  BY <1>2, NoReqWellFormed, BaseShared DEF PutChecksum, Finish, BaseInv, TypeOK, tables

\* Reading the promoted artifact.
LEMMA FetchBase ==
    ASSUME BaseInv, NEW o \in Request, Fetch(o)
    PROVE  BaseInv'
<1> DEFINE r == [req[o] EXCEPT !.pc = "verify", !.artifact = promoted.artifact]
<1>1. req[o] \in Req /\ Shape(req[o]) /\ req[o].pc = "fetch" /\ req[o].kind = "materialize"
  BY Reqs DEF Fetch, At
<1>2. promoted.artifact \in Stored /\ promoted.artifact # None
  BY DEF BaseInv, TypeOK, Pair, Fetch
<1>3. r \in Req /\ Shape(r)
  BY <1>1, <1>2 DEF Req, Shape, Trains, Exports
<1> QED
  BY <1>3, BaseLocal DEF Fetch

\* Comparing the checksum.
LEMMA VerifyBase ==
    ASSUME BaseInv, NEW o \in Request, Verify(o)
    PROVE  BaseInv'
<1>1. req[o].pc = "verify" /\ req[o].kind = "materialize"
  BY DEF Verify, At
<1>2. LET r == [req[o] EXCEPT !.pc = "local"] IN r \in Req /\ Shape(r)
  BY <1>1, Copying DEF Req, Shape, Trains, Exports
<1> QED
  BY <1>2, GotoBase DEF Verify

\* What a local copy is made of, and what stays of the other files.
LEMMA WrittenLocal ==
    ASSUME BaseInv, NEW o \in Request, WriteLocal(o)
    PROVE  \E a \in Artifact :
           /\ Advance(o, [req[o] EXCEPT !.pc = "localsum", !.artifact = a])
           /\ output' = [output EXCEPT ![LocalFile(o)] = [@ EXCEPT !.artifact = a]]
           /\ req[o].kind = "materialize" => a = req[o].artifact
<1> DEFINE old == output[LocalFile(o)].artifact
           a == IF req[o].kind = "copy" /\ old # None THEN old ELSE req[o].artifact
<1>1. req[o].pc = "local" /\ req[o].artifact \in Artifact /\ old \in Stored
  BY Copying DEF WriteLocal, Pair
<1>2. a \in Artifact
  BY <1>1 DEF Stored
<1> QED
  BY <1>2 DEF WriteLocal

\* Writing a local artifact.
LEMMA WriteLocalBase ==
    ASSUME BaseInv, NEW o \in Request, WriteLocal(o)
    PROVE  BaseInv'
<1>1. PICK a \in Artifact :
           /\ Advance(o, [req[o] EXCEPT !.pc = "localsum", !.artifact = a])
           /\ output' = [output EXCEPT ![LocalFile(o)] = [@ EXCEPT !.artifact = a]]
  BY WrittenLocal
<1>2. req[o].pc = "local"
  BY DEF WriteLocal
<1>3. LET r == [req[o] EXCEPT !.pc = "localsum", !.artifact = a] IN r \in Req /\ Shape(r)
  BY <1>2, Copying, ArtifactAssumption DEF Req, Shape, Stored
<1>4. output' \in [File -> Pair]
  BY <1>1, <1>2, Copying DEF Pair, Stored
<1> QED
  BY <1>1, <1>3, <1>4, BaseShared DEF WriteLocal, BaseInv, TypeOK, tables

\* Writing its checksum.
LEMMA WriteLocalSumBase ==
    ASSUME BaseInv, NEW o \in Request, WriteLocalSum(o)
    PROVE  BaseInv'
<1>1. req[o].pc = "localsum"
  BY DEF WriteLocalSum
<1>2. output' \in [File -> Pair]
  BY <1>1, Copying DEF WriteLocalSum, Pair, Stored
<1> QED
  BY <1>2, NoReqWellFormed, BaseShared DEF WriteLocalSum, Finish, BaseInv, TypeOK, tables

\* Creating a classifier.
LEMMA CreateClassifierBase ==
    ASSUME BaseInv, NEW c \in Classifier, CreateClassifier(c)
    PROVE  BaseInv'
<1>1. /\ row \in [Classifier -> Row] /\ row[c] \in Row
      /\ row' = [row EXCEPT ![c] = [row[c] EXCEPT !.exists = TRUE]]
  BY DEF BaseInv, TypeOK, CreateClassifier
<1>2. /\ row' \in [Classifier -> Row]
      /\ \A q \in Classifier : /\ row'[q].version = row[q].version /\ row'[q].sha = row[q].sha
                               /\ row'[q].base = row[q].base /\ row'[q].baseSha = row[q].baseSha
  BY <1>1 DEF Row
<1> QED
  BY <1>2 DEF CreateClassifier, BaseInv, TypeOK, Shape, Whole

\* Changing examples or a threshold.
LEMMA OperatorBase ==
    ASSUME BaseInv, NEW c \in Classifier,
           ChangeExamples(c) \/ \E t \in Threshold : SetThreshold(c, t)
    PROVE  BaseInv'
<1>1. CASE ChangeExamples(c)
  <2>1. examples' \in [Classifier -> 0 .. MaxExamples]
    BY <1>1, ArtifactAssumption DEF BaseInv, TypeOK, ChangeExamples
  <2> QED
    BY <1>1, <2>1 DEF ChangeExamples, BaseInv, TypeOK, Shape, Whole
<1>2. CASE \E t \in Threshold : SetThreshold(c, t)
  BY <1>2 DEF SetThreshold, BaseInv, TypeOK, Shape, Whole
<1> QED
  BY <1>1, <1>2

\* Files at hand are artifacts.
LEMMA AtHandArtifacts == BaseInv => AtHand \subseteq Artifact
  BY ArtifactAssumption DEF BaseInv, TypeOK, AtHand, Whole, Row, Stored

\* Nothing is stored and nobody asks for anything.
LEMMA InitBase == Init => BaseInv
<1> SUFFICES ASSUME Init PROVE BaseInv
  OBVIOUS
<1>1. NoRow \in Row /\ Whole(NoRow) /\ NoPair \in Pair
  BY DEF NoRow, Row, Whole, NoPair, Pair, Stored
<1> QED
  BY <1>1, NoReqWellFormed, ArtifactAssumption DEF Init, BaseInv, TypeOK, Stored

\* Every step keeps shapes and types.
LEMMA StepBase == BaseInv /\ [Next]_vars => BaseInv'
<1> SUFFICES ASSUME BaseInv, [Next]_vars PROVE BaseInv'
  OBVIOUS
<1>1. CASE UNCHANGED vars
  BY <1>1 DEF vars, BaseInv, TypeOK, Shape, Whole
<1>2. ASSUME NEW o \in Request, NEW a \in AtHand, BeginImport(o, a)
      PROVE  BaseInv'
  BY <1>2, AtHandArtifacts, BeginImportBase
<1>3. ASSUME NEW o \in Request, Step(o) \/ Abort(o)
      PROVE  BaseInv'
  BY <1>3, TakeLockBase, LookupBase, ReadExamplesBase, CheckVersionBase, ReadArtifactBase,
     ApplyPolicyBase, HeadBase, PutBase, InsertRowBase, UpdateRowBase, PutPromotedBase,
     PutChecksumBase, FetchBase, VerifyBase, WriteLocalBase, WriteLocalSumBase, FinishBase
     DEF Step, RefuseImport, Abort
<1>4. ASSUME NEW c \in Classifier, CreateClassifier(c) \/ ChangeExamples(c)
                                  \/ \E t \in Threshold : SetThreshold(c, t)
      PROVE  BaseInv'
  BY <1>4, CreateClassifierBase, OperatorBase
<1> QED
  BY <1>1, <1>2, <1>3, <1>4, BeginBase DEF Next

\* Shapes and types hold always.
LEMMA BaseInductive == Spec => []BaseInv
  BY InitBase, StepBase, PTL DEF Spec

\* Tables, objects, files and requests stay well formed.
THEOREM ArtifactsTyped == Spec => []TypeOK
<1>1. BaseInv => TypeOK
  BY DEF BaseInv
<1> QED
  BY <1>1, BaseInductive, PTL

(***************************************************************************)
(* Object storage against the rows                                         *)
(***************************************************************************)
\* A request that is to name an artifact has seen it in storage.
Placed(r) ==
    r.pc = "row" => /\ object[r.artifact.version] = r.sha
                    /\ Same(r.sha, r.artifact)

StoreInv ==
    /\ BaseInv
    /\ RowsNameTheirObject
    /\ \A v \in Version : object[v] # None => object[v].version = v
    /\ \A o \in Request : Placed(req[o])

\* A step that leaves rows and objects alone and brings no request to its row.
LEMMA StoreLocal ==
    ASSUME StoreInv, BaseInv', NEW o \in Request, NEW r \in Req, Advance(o, r), r.pc # "row",
           UNCHANGED <<row, object>>
    PROVE  StoreInv'
<1>1. req'[o] = r /\ \A q \in Request \ {o} : req'[q] = req[q]
  BY DEF StoreInv, BaseInv, TypeOK, Advance
<1>2. \A q \in Request : Placed(req'[q])
  BY <1>1 DEF StoreInv, Placed
<1>3. (\A q \in Request : Placed(req[q]))'
  BY <1>2 DEF Placed, Same
<1> QED
  BY <1>3 DEF StoreInv, RowsNameTheirObject

\* A request that ends brings no checksum to a row.
LEMMA FinishStore ==
    ASSUME StoreInv, BaseInv', NEW o \in Request, Finish(o), UNCHANGED <<row, object>>
    PROVE  StoreInv'
  BY NoReqWellFormed, StoreLocal DEF Finish, NoReq, NewReq

\* Nor does one that goes on to an earlier step.
LEMMA GotoStore ==
    ASSUME StoreInv, BaseInv', NEW o \in Request, NEW pc, Goto(o, pc), pc # "row",
           UNCHANGED <<row, object>>
    PROVE  StoreInv'
<1> DEFINE r == [req[o] EXCEPT !.pc = pc]
<1>1. req[o] \in Req
  BY DEF StoreInv, BaseInv, TypeOK
<1>2. req'[o] = r /\ r.pc = pc /\ \A q \in Request \ {o} : req'[q] = req[q]
  BY <1>1 DEF StoreInv, BaseInv, TypeOK, Goto, Advance, Req
<1>3. r \in Req
  BY <1>2 DEF BaseInv, TypeOK
<1> QED
  BY <1>2, <1>3, StoreLocal DEF Goto

\* An artifact that is there, and means the same, is the one under its version.
LEMMA MatchExistingStore ==
    ASSUME StoreInv, BaseInv', NEW o \in Request, req[o].pc \in {"head", "put"},
           MatchExisting(o), UNCHANGED <<row, object>>
    PROVE  StoreInv'
<1> DEFINE r == [req[o] EXCEPT !.pc = "row", !.sha = object[OwnVersion(o)]]
<1>1. BaseInv /\ req[o] \in Req
  BY DEF StoreInv, BaseInv, TypeOK
<1>2. /\ r.pc = "row" /\ r.artifact = req[o].artifact /\ r.sha = object[OwnVersion(o)]
      /\ req'[o] = r /\ \A q \in Request \ {o} : req'[q] = req[q]
  BY <1>1 DEF StoreInv, BaseInv, TypeOK, MatchExisting, Advance, Req
<1>3. Placed(req'[o])
  BY <1>2 DEF Placed, MatchExisting, OwnVersion
<1>4. \A q \in Request : Placed(req'[q])
  BY <1>2, <1>3 DEF StoreInv
<1>5. (\A q \in Request : Placed(req[q]))'
  BY <1>4 DEF Placed, Same
<1> QED
  BY <1>5 DEF StoreInv, RowsNameTheirObject

\* The checksum a request carries to its row is that of the bytes in storage.
LEMMA PutStore ==
    ASSUME StoreInv, BaseInv', NEW o \in Request, Put(o)
    PROVE  StoreInv'
<1>1. req[o].pc = "put" /\ BaseInv
  BY DEF Put, At, StoreInv
<1>2. CASE MatchExisting(o) /\ UNCHANGED <<row, object>>
  BY <1>1, <1>2, MatchExistingStore
<1>3. CASE /\ object[OwnVersion(o)] = None
           /\ object' = [object EXCEPT ![OwnVersion(o)] = req[o].artifact]
           /\ Advance(o, [req[o] EXCEPT !.pc = "row", !.sha = req[o].artifact])
           /\ UNCHANGED row
  <2> DEFINE r == [req[o] EXCEPT !.pc = "row", !.sha = req[o].artifact]
  <2>1. req[o] \in Req /\ req[o].artifact \in Artifact /\ OwnVersion(o) \in Version
    BY <1>1, Storing
  <2>2. /\ r.pc = "row" /\ r.artifact = req[o].artifact /\ r.sha = req[o].artifact
        /\ req'[o] = r /\ \A q \in Request \ {o} : req'[q] = req[q]
    BY <1>1, <1>3, <2>1 DEF BaseInv, TypeOK, Advance, Req
  <2>3. /\ object'[OwnVersion(o)] = req[o].artifact
        /\ \A v \in Version \ {OwnVersion(o)} : object'[v] = object[v]
    BY <1>1, <1>3, <2>1 DEF BaseInv, TypeOK
  <2>4. \A v \in Version : object'[v] # None => object'[v].version = v
    BY <2>3 DEF StoreInv, OwnVersion
  <2>5. RowsNameTheirObject'
    BY <1>1, <1>3, <2>3 DEF StoreInv, RowsNameTheirObject, BaseInv, Whole, TypeOK, Row
  <2>6. ASSUME NEW q \in Request \ {o}, req'[q].pc = "row"
        PROVE  object'[req'[q].artifact.version] = req'[q].sha /\ Same(req'[q].sha, req'[q].artifact)
    <3>1. req'[q] = req[q] /\ OwnVersion(q) \in Version /\ Placed(req[q]) /\ Shape(req[q])
      BY <1>1, <2>2, <2>6, Storing DEF StoreInv
    <3>2. object[OwnVersion(q)] # None
      BY <2>6, <3>1 DEF Placed, Shape, OwnVersion
    <3> QED
      BY <1>3, <2>3, <2>6, <3>1, <3>2 DEF Placed, OwnVersion
  <2>7. object'[req'[o].artifact.version] = req'[o].sha /\ Same(req'[o].sha, req'[o].artifact)
    BY <2>2, <2>3 DEF OwnVersion, Same
  <2>8. (\A q \in Request : Placed(req[q]))'
    BY <2>6, <2>7 DEF Placed, Same
  <2> QED
    BY <1>3, <2>4, <2>5, <2>8 DEF StoreInv
<1> QED
  BY <1>2, <1>3 DEF Put, tables

\* An imported row names what was stored.
LEMMA InsertRowStore ==
    ASSUME StoreInv, BaseInv', NEW o \in Request, NEW c \in Classifier, InsertRow(o, c)
    PROVE  StoreInv'
<1>1. /\ BaseInv /\ req[o].pc = "row" /\ Placed(req[o])
      /\ row \in [Classifier -> Row] /\ req \in [Request -> Req]
  BY DEF InsertRow, At, StoreInv, BaseInv, TypeOK
<1>2. /\ row'[c] = [exists |-> TRUE, version |-> OwnVersion(o), sha |-> req[o].sha,
                     base |-> OwnVersion(o), baseSha |-> req[o].sha]
      /\ \A q \in Classifier \ {c} : row'[q] = row[q]
  BY <1>1 DEF InsertRow
<1>3. object[OwnVersion(o)] = req[o].sha /\ req[o].sha # None
  BY <1>1, Storing DEF Placed, OwnVersion, Shape
<1>4. RowsNameTheirObject'
  BY <1>2, <1>3 DEF StoreInv, RowsNameTheirObject, InsertRow
<1>5. req'[o] = NoReq /\ \A q \in Request \ {o} : req'[q] = req[q]
  BY <1>1 DEF InsertRow, Finish, Advance
<1>6. (\A q \in Request : Placed(req[q]))'
  BY <1>5 DEF StoreInv, Placed, Same, InsertRow, NoReq, NewReq
<1> QED
  BY <1>4, <1>6 DEF StoreInv, InsertRow

\* So does a trained or exported one.
LEMMA UpdateRowStore ==
    ASSUME StoreInv, BaseInv', NEW o \in Request, UpdateRow(o)
    PROVE  StoreInv'
<1> DEFINE c == req[o].target
<1>1. /\ BaseInv /\ req[o].pc = "row" /\ Placed(req[o]) /\ req \in [Request -> Req]
  BY DEF UpdateRow, At, StoreInv, BaseInv, TypeOK
<1>2. object[OwnVersion(o)] = req[o].sha /\ req[o].sha # None
  BY <1>1, Storing DEF Placed, OwnVersion, Shape
<1>3. UNCHANGED object
  BY DEF UpdateRow
<1>4. RowsNameTheirObject'
  BY <1>1, <1>2, <1>3, UpdatedRow DEF StoreInv, RowsNameTheirObject
<1>5. req'[o].pc # "row" /\ \A q \in Request \ {o} : req'[q] = req[q]
  BY <1>1 DEF UpdateRow, Finish, Goto, Advance, NoReq, NewReq, Req
<1>6. (\A q \in Request : Placed(req[q]))'
  BY <1>3, <1>5 DEF StoreInv, Placed, Same
<1> QED
  BY <1>3, <1>4, <1>6 DEF StoreInv

\* The other steps: rows and objects stay, or a classifier without artifacts is new.
LEMMA OtherStore ==
    ASSUME StoreInv, BaseInv', req' = req, UNCHANGED object,
           \A c \in Classifier : /\ row'[c].version = row[c].version
                                 /\ row'[c].sha = row[c].sha
                                 /\ row'[c].base = row[c].base
                                 /\ row'[c].baseSha = row[c].baseSha
    PROVE  StoreInv'
  BY DEF StoreInv, RowsNameTheirObject, Placed, Same

\* Each step of a request keeps rows and storage in agreement.
LEMMA RequestStore ==
    ASSUME StoreInv, BaseInv', NEW o \in Request, Step(o)
    PROVE  StoreInv'
<1>1. req[o] \in Req /\ Shape(req[o]) /\ BaseInv /\ req \in [Request -> Req]
      /\ req' \in [Request -> Req]
  BY Reqs DEF StoreInv, BaseInv, TypeOK
<1>2. ASSUME req'[o].pc # "row", NEW r, Advance(o, r), UNCHANGED <<row, object>>
      PROVE  StoreInv'
  <2>1. req'[o] = r
    BY <1>1, <1>2 DEF Advance
  <2> QED
    BY <1>1, <1>2, <2>1, StoreLocal
<1>3. CASE TakeLock(o)
  <2>1. req'[o].pc = First[req[o].kind] /\ req[o].kind \in DOMAIN First
    BY <1>1, <1>3, ArtifactAssumption DEF TakeLock, Goto, Advance, Req, Shape, First
  <2>2. req'[o].pc # "row"
    BY <2>1 DEF First
  <2> QED
    BY <1>2, <1>3, <2>2 DEF TakeLock, Goto, tables
<1>4. CASE Lookup(o) \/ RefuseImport(o)
  BY <1>4, FinishStore, GotoStore DEF Lookup, RefuseImport, tables
<1>5. CASE \E v \in Version : ReadExamples(o, v)
  <2>1. req'[o].pc = "version"
    BY <1>1, <1>5 DEF ReadExamples, Advance, Req
  <2> QED
    BY <1>2, <1>5, <2>1 DEF ReadExamples, tables
<1>6. CASE CheckVersion(o)
  <2>1. req'[o].pc = "head"
    BY <1>1, <1>6 DEF CheckVersion, Advance, Req
  <2> QED
    BY <1>2, <1>6, <2>1 DEF CheckVersion, tables
<1>7. CASE ReadArtifact(o)
  <2>1. req'[o].pc = AfterRead[req[o].kind]
    BY <1>1, <1>7 DEF ReadArtifact, Advance, Req
  <2>2. req'[o].pc # "row"
    BY <1>7, <2>1 DEF ReadArtifact, At, Exports, AfterRead
  <2> QED
    BY <1>2, <1>7, <2>2 DEF ReadArtifact, tables
<1>8. CASE \E v \in Version : ApplyPolicy(o, v)
  <2>1. req'[o].pc = "head"
    BY <1>1, <1>8 DEF ApplyPolicy, Advance, Req
  <2> QED
    BY <1>2, <1>8, <2>1 DEF ApplyPolicy, tables
<1>9. CASE Head(o)
  BY <1>9, GotoStore, MatchExistingStore DEF Head, At, tables
<1>10. CASE Put(o) \/ (\E c \in Classifier : InsertRow(o, c)) \/ UpdateRow(o)
  BY <1>10, PutStore, InsertRowStore, UpdateRowStore
<1>11. CASE PutPromoted(o) \/ Verify(o)
  BY <1>11, GotoStore DEF PutPromoted, Verify, tables
<1>12. CASE PutChecksum(o) \/ WriteLocalSum(o)
  BY <1>12, FinishStore DEF PutChecksum, WriteLocalSum, tables
<1>13. CASE Fetch(o)
  <2>1. req'[o].pc = "verify"
    BY <1>1, <1>13 DEF Fetch, Advance, Req
  <2> QED
    BY <1>2, <1>13, <2>1 DEF Fetch, tables
<1>14. CASE WriteLocal(o)
  <2>1. PICK a \in Artifact : Advance(o, [req[o] EXCEPT !.pc = "localsum", !.artifact = a])
    BY <1>1, <1>14, WrittenLocal
  <2>2. req'[o].pc = "localsum"
    BY <1>1, <2>1 DEF Advance, Req
  <2> QED
    BY <1>2, <1>14, <2>1, <2>2 DEF WriteLocal, tables
<1> QED
  BY <1>3, <1>4, <1>5, <1>6, <1>7, <1>8, <1>9, <1>10, <1>11, <1>12, <1>13, <1>14 DEF Step

\* And so does every step.
LEMMA StepStore == StoreInv /\ [Next]_vars => StoreInv'
<1> SUFFICES ASSUME StoreInv, [Next]_vars PROVE StoreInv'
  OBVIOUS
<1>1. BaseInv /\ BaseInv'
  BY StepBase DEF StoreInv
<1>2. CASE UNCHANGED vars
  BY <1>1, <1>2, OtherStore DEF vars
<1>3. ASSUME NEW o \in Request, NEW a \in AtHand, BeginImport(o, a)
      PROVE  StoreInv'
  <2> DEFINE r == NewReq("lock", "import", None, None, a)
  <2>1. r \in Req /\ r.pc = "lock"
    BY <1>1, <1>3, AtHandArtifacts DEF BeginImport, NewReq, Req, Stored
  <2> QED
    BY <1>1, <1>3, <2>1, StoreLocal DEF BeginImport, tables
<1>4. ASSUME NEW o \in Request, NEW kind \in Kinds \ {"import"},
             NEW c \in Classifier \cup {None}, NEW v \in Version \cup {None}, Begin(o, kind, c, v)
      PROVE  StoreInv'
  <2> DEFINE r == NewReq("lock", kind, c, v, None)
  <2>1. r \in Req /\ r.pc = "lock"
    BY DEF NewReq, Req, Stored
  <2> QED
    BY <1>1, <1>4, <2>1, StoreLocal DEF Begin, tables
<1>5. ASSUME NEW o \in Request, Step(o) \/ Abort(o)
      PROVE  StoreInv'
  BY <1>1, <1>5, RequestStore, FinishStore DEF Abort, tables
<1>6. ASSUME NEW c \in Classifier, CreateClassifier(c)
      PROVE  StoreInv'
  <2>1. /\ row \in [Classifier -> Row] /\ row[c] \in Row
        /\ row' = [row EXCEPT ![c] = [row[c] EXCEPT !.exists = TRUE]]
    BY <1>1, <1>6 DEF BaseInv, TypeOK, CreateClassifier
  <2>2. \A q \in Classifier : /\ row'[q].version = row[q].version /\ row'[q].sha = row[q].sha
                              /\ row'[q].base = row[q].base /\ row'[q].baseSha = row[q].baseSha
    BY <2>1 DEF Row
  <2> QED
    BY <1>1, <1>6, <2>2, OtherStore DEF CreateClassifier
<1>7. ASSUME NEW c \in Classifier, ChangeExamples(c) \/ \E t \in Threshold : SetThreshold(c, t)
      PROVE  StoreInv'
  BY <1>1, <1>7, OtherStore DEF ChangeExamples, SetThreshold
<1> QED
  BY <1>2, <1>3, <1>4, <1>5, <1>6, <1>7 DEF Next

\* Nothing is stored and nothing named.
LEMMA InitStore == Init => StoreInv
  BY InitBase DEF Init, StoreInv, RowsNameTheirObject, Placed, NoRow, NoReq, NewReq

\* Rows and storage agree always.
LEMMA StoreInductive == Spec => []StoreInv
  BY InitStore, StepStore, PTL DEF Spec

\* Whatever races and crashes, the artifact a classifier names is in storage with
\* the bytes of its checksum.
THEOREM RowsAreStored == Spec => []RowsNameTheirObject
<1>1. StoreInv => RowsNameTheirObject
  BY DEF StoreInv
<1> QED
  BY <1>1, StoreInductive, PTL

(***************************************************************************)
(* The promoted pair                                                       *)
(***************************************************************************)
Promotes == {"promote", "materialize"}

\* What a promotion or materialization knows of the promoted pair p, and of the
\* artifact m of the materialized one.
Knows(r, p, m) ==
    /\ r.pc \in {"checksum", "verify"} => p.artifact = r.artifact
    /\ r.kind = "materialize" /\ r.pc \in {"local", "localsum"} =>
           p.artifact = r.artifact /\ p.checksum = r.artifact
    /\ r.kind = "materialize" /\ r.pc = "localsum" => m = r.artifact

\* One lock serves them all.
OnePromoter ==
    \A o, q \in Locking : req[o].kind \in Promotes /\ req[q].kind \in Promotes => o = q

PromInv ==
    /\ BaseInv
    /\ OnePromoter
    /\ \A o \in Request : Knows(req[o], promoted, output["materialized"].artifact)

\* A request that goes on under its lock, or ends, and leaves the pair alone unless
\* it is the one that promotes.
LEMMA PromStep ==
    ASSUME PromInv, BaseInv', NEW o \in Request, NEW r, Advance(o, r),
           \/ r = NoReq
           \/ o \in Locking /\ r.kind = req[o].kind,
           Knows(r, promoted', output'["materialized"].artifact),
           \/ promoted' = promoted
              /\ output'["materialized"].artifact = output["materialized"].artifact
           \/ o \in Locking /\ req[o].kind \in Promotes
    PROVE  PromInv'
<1>1. /\ req'[o] = r /\ \A q \in Request \ {o} : req'[q] = req[q]
      /\ \A q \in Request : Shape(req[q])
  BY DEF PromInv, BaseInv, TypeOK, Advance
<1>2. Locking' \subseteq Locking /\ \A q \in Locking' : req'[q].kind = req[q].kind
  BY <1>1 DEF Locking, NoReq, NewReq
<1>3. OnePromoter'
  BY <1>2 DEF PromInv, OnePromoter
<1>4. ASSUME NEW q \in Request \ {o}
      PROVE  Knows(req'[q], promoted', output'["materialized"].artifact)
  <2>1. CASE promoted' = promoted
             /\ output'["materialized"].artifact = output["materialized"].artifact
    BY <1>1, <2>1 DEF PromInv
  <2>2. CASE o \in Locking /\ req[o].kind \in Promotes
    <3>1. q \notin Locking \/ req[q].kind \notin Promotes
      BY <2>2 DEF PromInv, OnePromoter
    <3> QED
      BY <1>1, <3>1 DEF Knows, Locking, Shape, Promotes
  <2> QED
    BY <2>1, <2>2
<1>5. \A q \in Request : Knows(req'[q], promoted', output'["materialized"].artifact)
  BY <1>1, <1>4
<1> QED
  BY <1>3, <1>5 DEF PromInv

\* A step of an operation that has nothing to do with the pair.
LEMMA PromQuiet ==
    ASSUME PromInv, BaseInv', NEW o \in Request, NEW r, Advance(o, r),
           \/ r = NoReq
           \/ /\ o \in Locking /\ r.kind = req[o].kind
              /\ r.pc \notin {"checksum", "verify", "local", "localsum"}
           \/ o \in Locking /\ r.kind = req[o].kind /\ r.kind # "materialize"
              /\ r.pc \in {"local", "localsum"},
           promoted' = promoted,
           output'["materialized"].artifact = output["materialized"].artifact
    PROVE  PromInv'
<1>1. Knows(r, promoted', output'["materialized"].artifact)
  BY DEF Knows, NoReq, NewReq
<1> QED
  BY <1>1, PromStep

\* Only one request at a time promotes or materializes.
LEMMA TakeLockProm ==
    ASSUME PromInv, BaseInv', NEW o \in Request, TakeLock(o)
    PROVE  PromInv'
<1> DEFINE r == [req[o] EXCEPT !.pc = First[req[o].kind]]
<1>1. /\ req[o] \in Req /\ Shape(req[o]) /\ req[o].pc = "lock" /\ BaseInv
      /\ req' = [req EXCEPT ![o] = r]
  BY Reqs DEF PromInv, TakeLock, Goto, Advance
<1>2. /\ req'[o].kind = req[o].kind /\ \A q \in Request \ {o} : req'[q] = req[q]
      /\ req'[o].pc = First[req[o].kind] /\ req[o].kind \in DOMAIN First
  BY <1>1, ArtifactAssumption DEF BaseInv, TypeOK, Req, Shape, First
<1>3. Locking' \subseteq Locking \cup {o}
  BY <1>2 DEF Locking
<1>4. ASSUME NEW q \in Locking, req[o].kind \in Promotes
      PROVE  req[q].kind \notin Promotes
  BY <1>4 DEF TakeLock, LockName, Promotes, Trains, Exports
<1>5. o \notin Locking
  BY <1>1 DEF Locking
<1>6. OnePromoter'
  BY <1>2, <1>3, <1>4, <1>5 DEF PromInv, OnePromoter, Locking
<1>7. req'[o].pc \in {"lookup", "read", "fetch"}
  BY <1>2 DEF First
<1>8. \A q \in Request : Knows(req'[q], promoted', output'["materialized"].artifact)
  BY <1>2, <1>7 DEF PromInv, Knows, TakeLock
<1> QED
  BY <1>6, <1>8 DEF PromInv

\* The promoter knows what it has promoted.
LEMMA PromoteProm ==
    ASSUME PromInv, BaseInv', NEW o \in Request,
           PutPromoted(o) \/ PutChecksum(o) \/ Fetch(o) \/ Verify(o)
    PROVE  PromInv'
<1>1. /\ req[o] \in Req /\ Shape(req[o]) /\ promoted \in Pair
      /\ Knows(req[o], promoted, output["materialized"].artifact)
  BY Reqs DEF PromInv, BaseInv, TypeOK
<1>2. o \in Locking /\ req[o].kind \in Promotes
  BY DEF PutPromoted, PutChecksum, Fetch, Verify, At, Locking, Promotes
<1>3. CASE PutPromoted(o)
  <2> DEFINE r == [req[o] EXCEPT !.pc = "checksum"]
  <2>1. r.kind = "promote" /\ r.pc = "checksum" /\ r.artifact = req[o].artifact /\ Advance(o, r)
        /\ r.kind = req[o].kind
    BY <1>1, <1>3 DEF PutPromoted, At, Goto, Req
  <2>2. promoted'.artifact = req[o].artifact
    BY <1>1, <1>3 DEF PutPromoted, Pair
  <2> QED
    BY <1>2, <2>1, <2>2, PromStep DEF Knows
<1>4. CASE PutChecksum(o)
  <2>1. Knows(NoReq, promoted', output'["materialized"].artifact)
    BY DEF Knows, NoReq, NewReq
  <2> QED
    BY <1>2, <1>4, <2>1, PromStep DEF PutChecksum, Finish
<1>5. CASE Fetch(o)
  <2> DEFINE r == [req[o] EXCEPT !.pc = "verify", !.artifact = promoted.artifact]
  <2>1. r.pc = "verify" /\ r.artifact = promoted.artifact /\ r.kind = req[o].kind
    BY <1>1 DEF Req
  <2>2. Knows(r, promoted', output'["materialized"].artifact)
    BY <1>5, <2>1 DEF Knows, Fetch
  <2> QED
    BY <1>2, <1>5, <2>1, <2>2, PromStep DEF Fetch
<1>6. CASE Verify(o)
  <2> DEFINE r == [req[o] EXCEPT !.pc = "local"]
  <2>1. r.pc = "local" /\ r.artifact = req[o].artifact /\ Advance(o, r) /\ r.kind = req[o].kind
    BY <1>1, <1>6 DEF Verify, Goto, Req
  <2>2. Knows(r, promoted', output'["materialized"].artifact)
    BY <1>1, <1>6, <2>1 DEF Knows, Verify, At
  <2> QED
    BY <1>2, <2>1, <2>2, PromStep
<1> QED
  BY <1>3, <1>4, <1>5, <1>6

\* The materialization knows the pair it has read.
LEMMA LocalProm ==
    ASSUME PromInv, BaseInv', NEW o \in Request, WriteLocal(o) \/ WriteLocalSum(o)
    PROVE  PromInv'
<1>1. /\ req[o] \in Req /\ Shape(req[o]) /\ output \in [File -> Pair] /\ BaseInv
      /\ Knows(req[o], promoted, output["materialized"].artifact)
      /\ o \in Locking /\ req[o].kind \in {"copy", "materialize"} /\ promoted' = promoted
  BY Reqs DEF PromInv, BaseInv, TypeOK, Locking, WriteLocal, WriteLocalSum, Shape
<1>2. CASE WriteLocalSum(o)
  <2>1. output'["materialized"].artifact = output["materialized"].artifact
    BY <1>1, <1>2 DEF WriteLocalSum, LocalFile, File, Pair
  <2> QED
    BY <1>1, <1>2, <2>1, PromQuiet DEF WriteLocalSum, Finish
<1>3. CASE WriteLocal(o)
  <2>1. PICK a \in Artifact :
           /\ Advance(o, [req[o] EXCEPT !.pc = "localsum", !.artifact = a])
           /\ output' = [output EXCEPT ![LocalFile(o)] = [@ EXCEPT !.artifact = a]]
           /\ req[o].kind = "materialize" => a = req[o].artifact
    BY <1>1, <1>3, WrittenLocal
  <2> DEFINE r == [req[o] EXCEPT !.pc = "localsum", !.artifact = a]
  <2>2. r.pc = "localsum" /\ r.artifact = a /\ r.kind = req[o].kind
    BY <1>1 DEF Req
  <2>3. CASE req[o].kind = "copy"
    <3>1. output'["materialized"].artifact = output["materialized"].artifact
      BY <1>1, <2>1, <2>3 DEF LocalFile, File, Pair
    <3> HIDE DEF r
    <3> QED
      BY <1>1, <2>1, <2>2, <2>3, <3>1, PromQuiet DEF r
  <2>4. CASE req[o].kind = "materialize"
    <3>1. output'["materialized"].artifact = a
      BY <1>1, <2>1, <2>4 DEF LocalFile, File, Pair
    <3>2. Knows(r, promoted', output'["materialized"].artifact)
      BY <1>1, <1>3, <2>1, <2>2, <2>4, <3>1 DEF Knows, WriteLocal
    <3> HIDE DEF r
    <3> QED
      BY <1>1, <2>1, <2>2, <2>4, <3>2, PromStep DEF r, Promotes
  <2> QED
    BY <1>1, <2>3, <2>4
<1> QED
  BY <1>2, <1>3

\* Going on without touching the pair.
LEMMA GotoProm ==
    ASSUME PromInv, BaseInv', NEW o \in Locking, NEW pc \in {"head", "put"}, Goto(o, pc),
           UNCHANGED <<promoted, output>>
    PROVE  PromInv'
<1> DEFINE r == [req[o] EXCEPT !.pc = pc]
<1>1. o \in Request /\ req[o] \in Req
  BY Reqs DEF Locking, PromInv
<1>2. r.kind = req[o].kind /\ r.pc \in {"head", "put"} /\ Advance(o, r)
  BY <1>1 DEF Goto, Req
<1> HIDE DEF r
<1> QED
  BY <1>1, <1>2, PromQuiet

\* Ending without touching it.
LEMMA FinishProm ==
    ASSUME PromInv, BaseInv', NEW o \in Request, Finish(o), UNCHANGED <<promoted, output>>
    PROVE  PromInv'
  BY PromQuiet DEF Finish

\* Meeting an object that means the same.
LEMMA MatchExistingProm ==
    ASSUME PromInv, BaseInv', NEW o \in Locking, MatchExisting(o), UNCHANGED <<promoted, output>>
    PROVE  PromInv'
<1> DEFINE r == [req[o] EXCEPT !.pc = "row", !.sha = object[OwnVersion(o)]]
<1>1. o \in Request /\ req[o] \in Req
  BY Reqs DEF Locking, PromInv
<1>2. r.kind = req[o].kind /\ r.pc = "row" /\ Advance(o, r)
  BY <1>1 DEF MatchExisting, Req
<1> HIDE DEF r
<1> QED
  BY <1>1, <1>2, PromQuiet

\* Reading for any operation but a materialization.
LEMMA ReadProm ==
    ASSUME PromInv, BaseInv', NEW o \in Request,
           \/ \E v \in Version : ReadExamples(o, v) \/ ApplyPolicy(o, v)
           \/ CheckVersion(o)
           \/ ReadArtifact(o)
    PROVE  PromInv'
<1>1. req \in [Request -> Req] /\ req[o] \in Req /\ Shape(req[o])
  BY Reqs DEF PromInv, BaseInv, TypeOK
<1>2. o \in Locking /\ UNCHANGED <<promoted, output>>
  BY DEF Locking, ReadExamples, ApplyPolicy, CheckVersion, ReadArtifact, At
<1>3. ASSUME NEW r, Advance(o, r), r.kind = req[o].kind, r.pc \in {"version", "head", "promote"}
      PROVE  PromInv'
  BY <1>2, <1>3, PromQuiet
<1>4. CASE \E v \in Version : ReadExamples(o, v)
  <2>1. PICK a : Advance(o, [req[o] EXCEPT !.pc = "version", !.artifact = a])
    BY <1>4 DEF ReadExamples
  <2> DEFINE r == [req[o] EXCEPT !.pc = "version", !.artifact = a]
  <2>2. r.kind = req[o].kind /\ r.pc = "version" /\ Advance(o, r)
    BY <1>1, <2>1 DEF Req
  <2> HIDE DEF r
  <2> QED
    BY <1>3, <2>2
<1>5. CASE \E v \in Version : ApplyPolicy(o, v)
  <2>1. PICK a : Advance(o, [req[o] EXCEPT !.pc = "head", !.artifact = a])
    BY <1>5 DEF ApplyPolicy
  <2> DEFINE r == [req[o] EXCEPT !.pc = "head", !.artifact = a]
  <2>2. r.kind = req[o].kind /\ r.pc = "head" /\ Advance(o, r)
    BY <1>1, <2>1 DEF Req
  <2> HIDE DEF r
  <2> QED
    BY <1>3, <2>2
<1>6. CASE CheckVersion(o)
  <2> DEFINE r == [req[o] EXCEPT !.pc = "head",
                                 !.artifact.threshold = threshold[req[o].target]]
  <2>1. r.kind = req[o].kind /\ r.pc = "head" /\ Advance(o, r)
    BY <1>1, <1>6 DEF CheckVersion, Req
  <2> HIDE DEF r
  <2> QED
    BY <1>3, <2>1
<1>7. CASE ReadArtifact(o)
  <2> DEFINE r == [req[o] EXCEPT !.artifact = row[req[o].target].sha,
                                 !.pc = AfterRead[req[o].kind]]
  <2>1. r.kind = req[o].kind /\ r.pc = AfterRead[req[o].kind] /\ Advance(o, r)
    BY <1>1, <1>7 DEF ReadArtifact, Req
  <2>2. r.pc \in {"version", "promote"}
    BY <1>7, <2>1 DEF ReadArtifact, At, Exports, AfterRead
  <2> HIDE DEF r
  <2> QED
    BY <1>3, <2>1, <2>2
<1> QED
  BY <1>4, <1>5, <1>6, <1>7

\* Storing and naming an artifact has nothing to do with the promoted pair.
LEMMA StoringProm ==
    ASSUME PromInv, BaseInv', NEW o \in Request,
           \/ Head(o) \/ Put(o) \/ UpdateRow(o)
           \/ \E c \in Classifier : InsertRow(o, c)
    PROVE  PromInv'
<1>1. /\ req[o] \in Req /\ Shape(req[o]) /\ o \in Locking /\ UNCHANGED <<promoted, output>>
      /\ req[o].kind \in Trains \/ ~UpdateRow(o)
  BY Reqs DEF PromInv, Locking, Head, Put, InsertRow, UpdateRow, At
<1>2. CASE Head(o)
  BY <1>1, <1>2, GotoProm, MatchExistingProm DEF Head
<1>3. CASE Put(o)
  <2> DEFINE r == [req[o] EXCEPT !.pc = "row", !.sha = req[o].artifact]
  <2>1. r.kind = req[o].kind /\ r.pc = "row"
    BY <1>1 DEF Req
  <2>2. MatchExisting(o) \/ Advance(o, r)
    BY <1>3 DEF Put
  <2> HIDE DEF r
  <2> QED
    BY <1>1, <2>1, <2>2, MatchExistingProm, PromQuiet
<1>4. CASE UpdateRow(o)
  <2> DEFINE r == [req[o] EXCEPT !.pc = "local"]
  <2>1. r.kind = req[o].kind /\ r.pc = "local"
    BY <1>1 DEF Req
  <2>2. Finish(o) \/ Advance(o, r)
    BY <1>4 DEF UpdateRow, Goto
  <2>3. r.kind # "materialize"
    BY <1>1, <1>4, <2>1 DEF Trains
  <2> HIDE DEF r
  <2> QED
    BY <1>1, <2>1, <2>2, <2>3, FinishProm, PromQuiet
<1>5. CASE \E c \in Classifier : InsertRow(o, c)
  BY <1>1, <1>5, FinishProm DEF InsertRow
<1> QED
  BY <1>2, <1>3, <1>4, <1>5

\* Each step of a request keeps what the promoter knows.
LEMMA RequestProm ==
    ASSUME PromInv, BaseInv', NEW o \in Request, Step(o)
    PROVE  PromInv'
<1>1. CASE Lookup(o) \/ RefuseImport(o)
  <2>1. o \in Locking /\ UNCHANGED <<promoted, output>>
    BY <1>1 DEF Lookup, RefuseImport, At, Locking
  <2> QED
    BY <1>1, <2>1, GotoProm, FinishProm DEF Lookup, RefuseImport
<1> QED
  BY <1>1, TakeLockProm, ReadProm, StoringProm, PromoteProm, LocalProm DEF Step

\* What a request that has not begun to wait for its lock may change.
LEMMA BeginProm ==
    ASSUME PromInv, BaseInv', NEW o \in Request, req[o].pc = "idle", NEW r \in Req,
           r.pc = "lock", Advance(o, r), UNCHANGED <<promoted, output>>
    PROVE  PromInv'
<1>1. req'[o] = r /\ \A q \in Request \ {o} : req'[q] = req[q]
  BY DEF PromInv, BaseInv, TypeOK, Advance
<1>2. Locking' = Locking
  BY <1>1 DEF Locking
<1>3. o \notin Locking
  BY DEF Locking
<1> QED
  BY <1>1, <1>2, <1>3 DEF PromInv, OnePromoter, Knows, Locking

\* And so does every step.
LEMMA StepProm == PromInv /\ [Next]_vars => PromInv'
<1> SUFFICES ASSUME PromInv, [Next]_vars PROVE PromInv'
  OBVIOUS
<1>1. BaseInv /\ BaseInv'
  BY StepBase DEF PromInv
<1>2. CASE UNCHANGED <<req, promoted, output>>
  BY <1>1, <1>2 DEF PromInv, OnePromoter, Locking, Knows
<1>3. ASSUME NEW o \in Request, NEW a \in AtHand, BeginImport(o, a)
      PROVE  PromInv'
  <2> DEFINE r == NewReq("lock", "import", None, None, a)
  <2>1. r \in Req /\ r.pc = "lock"
    BY <1>1, <1>3, AtHandArtifacts DEF BeginImport, NewReq, Req, Stored
  <2> QED
    BY <1>1, <1>3, <2>1, BeginProm DEF BeginImport
<1>4. ASSUME NEW o \in Request, NEW kind \in Kinds \ {"import"},
             NEW c \in Classifier \cup {None}, NEW v \in Version \cup {None}, Begin(o, kind, c, v)
      PROVE  PromInv'
  <2> DEFINE r == NewReq("lock", kind, c, v, None)
  <2>1. r \in Req /\ r.pc = "lock"
    BY DEF NewReq, Req, Stored
  <2> QED
    BY <1>1, <1>4, <2>1, BeginProm DEF Begin
<1>5. ASSUME NEW o \in Request, Step(o) \/ Abort(o)
      PROVE  PromInv'
  BY <1>1, <1>5, RequestProm, FinishProm DEF Abort
<1>6. ASSUME NEW c \in Classifier,
             CreateClassifier(c) \/ ChangeExamples(c) \/ \E t \in Threshold : SetThreshold(c, t)
      PROVE  PromInv'
  BY <1>2, <1>6 DEF CreateClassifier, ChangeExamples, SetThreshold
<1> QED
  BY <1>2, <1>3, <1>4, <1>5, <1>6 DEF Next, vars

\* Nothing is promoted.
LEMMA InitProm == Init => PromInv
  BY InitBase DEF Init, PromInv, OnePromoter, Locking, Knows, NoReq, NewReq

\* The promoter knows the pair always.
LEMMA PromInductive == Spec => []PromInv
  BY InitProm, StepProm, PTL DEF Spec

\* What a promotion or a materialization leaves behind when it says it is done.
LEMMA ReportedWhole ==
    ASSUME PromInv, NEW o \in Request
    PROVE  /\ PutChecksum(o) => promoted'.artifact = promoted'.checksum
           /\ WriteLocalSum(o) /\ req[o].kind = "materialize" =>
                  /\ output'["materialized"] = promoted
                  /\ promoted.artifact = promoted.checksum
<1>1. /\ promoted \in Pair /\ output \in [File -> Pair]
      /\ Knows(req[o], promoted, output["materialized"].artifact)
  BY DEF PromInv, BaseInv, TypeOK
<1>2. ASSUME PutChecksum(o)
      PROVE  promoted'.artifact = promoted'.checksum
  BY <1>1, <1>2 DEF PutChecksum, At, Knows, Pair
<1>3. ASSUME WriteLocalSum(o), req[o].kind = "materialize"
      PROVE  output'["materialized"] = promoted /\ promoted.artifact = promoted.checksum
  <2>1. output'["materialized"] = [output["materialized"] EXCEPT !.checksum = req[o].artifact]
    BY <1>1, <1>3 DEF WriteLocalSum, LocalFile, File
  <2>2. /\ promoted.artifact = req[o].artifact /\ promoted.checksum = req[o].artifact
        /\ output["materialized"].artifact = req[o].artifact
    BY <1>1, <1>3 DEF Knows, WriteLocalSum
  <2> QED
    BY <1>1, <2>1, <2>2 DEF Pair, File
<1> QED
  BY <1>2, <1>3

\* A promotion or a materialization that says it is done leaves a whole pair: the
\* promotion lock keeps every other one away from its first step to its last.
THEOREM ReportedPairsAreWhole == Spec => WholeWhenReported
<1>1. PromInv => [\A o \in Request :
        /\ PutChecksum(o) => promoted'.artifact = promoted'.checksum
        /\ WriteLocalSum(o) /\ req[o].kind = "materialize" =>
               /\ output'["materialized"] = promoted
               /\ promoted.artifact = promoted.checksum]_vars
  BY ReportedWhole
<1> QED
  BY <1>1, PromInductive, PTL DEF WholeWhenReported

\* No step changes an object that is there.
LEMMA ObjectsStay ==
    ASSUME BaseInv, [Next]_vars, NEW v \in Version, object[v] # None
    PROVE  object'[v] = object[v]
<1>1. CASE UNCHANGED object
  BY <1>1
<1>2. ASSUME NEW o \in Request, Put(o)
      PROVE  object'[v] = object[v]
  BY <1>2 DEF Put, BaseInv, TypeOK
<1>3. CASE Next
  BY <1>1, <1>2, <1>3 DEF Next, Step, BeginImport, Begin, Abort, TakeLock, Lookup, RefuseImport,
     ReadExamples, CheckVersion, ReadArtifact, ApplyPolicy, Head, InsertRow, UpdateRow,
     PutPromoted, PutChecksum, Fetch, Verify, WriteLocal, WriteLocalSum, CreateClassifier,
     ChangeExamples, SetThreshold
<1> QED
  BY <1>1, <1>3 DEF vars

\* An artifact in storage keeps its bytes.
THEOREM ObjectsAreStoredOnce == Spec => StoredOnce
<1>1. BaseInv /\ [Next]_vars => [\A v \in Version : object[v] # None => object'[v] = object[v]]_vars
  BY ObjectsStay
<1> QED
  BY <1>1, BaseInductive, PTL DEF Spec, StoredOnce

(***************************************************************************)
(* Training is kept                                                        *)
(***************************************************************************)
\* A base that an artifact names is in storage.
BaseStored(a) == a.base # None => object[a.base] # None

\* Requests that bring an artifact to the row of their classifier.
Brings(r) == r.kind \in Trains /\ r.pc \in {"version", "head", "put", "row"}

\* The artifact a request brings to row w, whose examples have changed n times,
\* may take the place of the one that is there: a training brings what it made from
\* the base, an export what it read.
MayReplace(r, w, n) ==
    /\ w.exists
    /\ r.kind = "train" => r.artifact.base = w.base
    /\ r.kind \in Exports => /\ w.sha # None
                             /\ r.artifact.base = w.sha.base
                             /\ r.artifact.examples = w.sha.examples
    /\ r.artifact.base = w.base => r.artifact.examples <= n
    /\ TrainedHere(w) => r.artifact.base = w.base /\ w.sha.examples <= r.artifact.examples

\* One lock per classifier serves training and exporting.
OneTrainer ==
    \A o, q \in Locking : /\ req[o].kind \in Trains /\ req[q].kind \in Trains
                          /\ req[o].target = req[q].target
                          => o = q

TrainInv ==
    /\ StoreInv
    /\ OneTrainer
    /\ \A v \in Version : object[v] # None => BaseStored(object[v]) /\ object[v].base # v
    /\ \A c \in Classifier :
           /\ ~row[c].exists => row[c].version = None /\ row[c].base = None
           /\ TrainedHere(row[c]) => row[c].sha.examples <= examples[c]
    /\ \A o \in Request :
           /\ req[o].kind = "import" \/ Brings(req[o]) => BaseStored(req[o].artifact)
           /\ Brings(req[o]) => MayReplace(req[o], row[req[o].target], examples[req[o].target])

\* What the invariant says of one request.
LEMMA TrainReqs ==
    ASSUME TrainInv, NEW o \in Request
    PROVE  /\ req[o] \in Req /\ Shape(req[o]) /\ BaseInv /\ StoreInv
           /\ req[o].kind \in Trains => /\ req[o].target \in Classifier
                                        /\ row[req[o].target] \in Row
                                        /\ examples[req[o].target] \in Nat
  BY ArtifactAssumption DEF TrainInv, StoreInv, BaseInv, TypeOK, Shape

\* A request that goes on under its lock, or ends, and leaves rows, examples and
\* objects alone.
LEMMA TrainLocal ==
    ASSUME TrainInv, StoreInv', NEW o \in Request, NEW r, Advance(o, r),
           r.pc \in {"idle", "lock"} \/ (o \in Locking /\ r.kind = req[o].kind /\ r.target = req[o].target),
           r.kind = "import" \/ Brings(r) => BaseStored(r.artifact),
           Brings(r) => MayReplace(r, row[r.target], examples[r.target]),
           UNCHANGED <<row, examples, object>>
    PROVE  TrainInv'
<1>1. req'[o] = r /\ \A q \in Request \ {o} : req'[q] = req[q]
  BY DEF TrainInv, StoreInv, BaseInv, TypeOK, Advance
<1>2. Locking' \subseteq Locking
      /\ \A q \in Locking' : req'[q].kind = req[q].kind /\ req'[q].target = req[q].target
  BY <1>1 DEF Locking
<1>3. OneTrainer'
  BY <1>2 DEF TrainInv, OneTrainer
<1>4. \A q \in Request :
        /\ req'[q].kind = "import" \/ Brings(req'[q]) => BaseStored(req'[q].artifact)
        /\ Brings(req'[q]) => MayReplace(req'[q], row[req'[q].target], examples[req'[q].target])
  BY <1>1 DEF TrainInv
<1>5. (\A q \in Request :
        /\ req[q].kind = "import" \/ Brings(req[q]) => BaseStored(req[q].artifact)
        /\ Brings(req[q]) => MayReplace(req[q], row[req[q].target], examples[req[q].target]))'
  BY <1>4 DEF Brings, BaseStored, MayReplace, TrainedHere
<1>6. (\A v \in Version : object[v] # None => BaseStored(object[v]) /\ object[v].base # v)'
  BY DEF TrainInv, BaseStored
<1>7. (\A c \in Classifier :
           /\ ~row[c].exists => row[c].version = None /\ row[c].base = None
           /\ TrainedHere(row[c]) => row[c].sha.examples <= examples[c])'
  BY DEF TrainInv, TrainedHere
<1> QED
  BY <1>3, <1>5, <1>6, <1>7 DEF TrainInv

\* A request that ends takes nothing to a row.
LEMMA FinishTrain ==
    ASSUME TrainInv, StoreInv', NEW o \in Request, Finish(o), UNCHANGED <<row, examples, object>>
    PROVE  TrainInv'
<1>1. NoReq.kind # "import" /\ ~Brings(NoReq)
  BY DEF NoReq, NewReq, Brings, Trains, Exports
<1>2. Advance(o, NoReq)
  BY DEF Finish
<1> DEFINE r == NoReq
<1>3. /\ r.pc = "idle" /\ Advance(o, r)
      /\ r.kind = "import" \/ Brings(r) => BaseStored(r.artifact)
      /\ Brings(r) => MayReplace(r, row[r.target], examples[r.target])
  BY <1>1, <1>2 DEF NoReq, NewReq
<1> HIDE DEF r
<1> QED
  BY <1>3, TrainLocal

\* A request that goes on with the artifact it has.
LEMMA KeepTrain ==
    ASSUME TrainInv, StoreInv', NEW o \in Request, NEW r, Advance(o, r), o \in Locking,
           r.kind = req[o].kind, r.target = req[o].target,
           Brings(r) => Brings(req[o]),
           req[o].kind \in Trains \cup {"import"} =>
               /\ r.artifact.base = req[o].artifact.base
               /\ r.artifact.examples = req[o].artifact.examples,
           UNCHANGED <<row, examples, object>>
    PROVE  TrainInv'
<1>1. r.kind = "import" \/ Brings(r) => BaseStored(r.artifact)
  BY DEF TrainInv, BaseStored, Brings
<1>2. Brings(r) => MayReplace(r, row[r.target], examples[r.target])
  BY DEF TrainInv, MayReplace, Brings
<1> QED
  BY <1>1, <1>2, TrainLocal

\* Going on with the artifact in hand.
LEMMA GotoTrain ==
    ASSUME TrainInv, StoreInv', NEW o \in Locking, NEW pc, Goto(o, pc),
           req[o].kind \in Trains => pc = "local" \/ req[o].pc \in {"head", "put"},
           UNCHANGED <<row, examples, object>>
    PROVE  TrainInv'
<1> DEFINE r == [req[o] EXCEPT !.pc = pc]
<1>1. o \in Request /\ req[o] \in Req
  BY TrainReqs DEF Locking
<1>2. /\ r.kind = req[o].kind /\ r.target = req[o].target /\ r.artifact = req[o].artifact
      /\ r.pc = pc /\ Advance(o, r)
  BY <1>1 DEF Goto, Req
<1> HIDE DEF r
<1>3. Brings(r) => Brings(req[o])
  BY <1>2 DEF Brings
<1> QED
  BY <1>1, <1>2, <1>3, KeepTrain

\* Only one request at a time trains or exports a classifier.
LEMMA TakeLockTrain ==
    ASSUME TrainInv, StoreInv', NEW o \in Request, TakeLock(o)
    PROVE  TrainInv'
<1> DEFINE r == [req[o] EXCEPT !.pc = First[req[o].kind]]
<1>1. /\ req[o] \in Req /\ Shape(req[o]) /\ req[o].pc = "lock" /\ BaseInv
      /\ req' = [req EXCEPT ![o] = r]
  BY TrainReqs DEF TakeLock, Goto, Advance
<1>2. /\ req'[o].kind = req[o].kind /\ req'[o].target = req[o].target
      /\ req'[o].artifact = req[o].artifact /\ req'[o].pc = First[req[o].kind]
      /\ \A q \in Request \ {o} : req'[q] = req[q]
      /\ req[o].kind \in DOMAIN First
  BY <1>1, ArtifactAssumption DEF BaseInv, TypeOK, Req, Shape, First
<1>3. Locking' \subseteq Locking \cup {o} /\ o \notin Locking
  BY <1>1, <1>2 DEF Locking
<1>4. ASSUME NEW q \in Locking, req[o].kind \in Trains, req[q].kind \in Trains
      PROVE  req[q].target # req[o].target
  BY <1>4 DEF TakeLock, LockName, Trains, Exports
<1>5. OneTrainer'
  BY <1>2, <1>3, <1>4 DEF TrainInv, OneTrainer, Locking
<1>6. req'[o].pc \in {"lookup", "read", "fetch"}
  BY <1>2 DEF First
<1>7. \A q \in Request :
        /\ req'[q].kind = "import" \/ Brings(req'[q]) => BaseStored(req'[q].artifact)
        /\ Brings(req'[q]) => MayReplace(req'[q], row[req'[q].target], examples[req'[q].target])
  BY <1>2, <1>6 DEF TrainInv, Brings
<1>8. UNCHANGED <<row, examples, object>>
  BY DEF TakeLock, tables
<1>9. (\A q \in Request :
        /\ req[q].kind = "import" \/ Brings(req[q]) => BaseStored(req[q].artifact)
        /\ Brings(req[q]) => MayReplace(req[q], row[req[q].target], examples[req[q].target]))'
  BY <1>7, <1>8 DEF Brings, BaseStored, MayReplace, TrainedHere
<1> QED
  BY <1>5, <1>8, <1>9 DEF TrainInv, BaseStored, TrainedHere

\* What is read under the lock is as new as the row.
LEMMA ReadTrain ==
    ASSUME TrainInv, StoreInv', NEW o \in Request,
           (\E v \in Version : ReadExamples(o, v)) \/ ReadArtifact(o)
    PROVE  TrainInv'
<1> DEFINE c == req[o].target
<1>1. /\ req[o] \in Req /\ Shape(req[o]) /\ BaseInv /\ StoreInv
      /\ o \in Locking /\ UNCHANGED <<row, examples, object>>
  BY TrainReqs DEF ReadExamples, ReadArtifact, At, Locking, tables
<1>2. c \in Classifier /\ row[c] \in Row /\ examples[c] \in Nat /\ Whole(row[c])
  <2>1. c \in Classifier
    BY <1>1, ArtifactAssumption DEF ReadExamples, ReadArtifact, At, Shape, Exports, Trains
  <2> HIDE DEF c
  <2> QED
    BY <1>1, <2>1, ArtifactAssumption DEF BaseInv, TypeOK, StoreInv
<1>3. TrainedHere(row[c]) => row[c].sha.examples <= examples[c]
  BY <1>2 DEF TrainInv
<1>4. CASE \E v \in Version : ReadExamples(o, v)
  <2>1. PICK v \in Version : ReadExamples(o, v)
    BY <1>4
  <2> DEFINE a == [version |-> v, base |-> row[c].base, examples |-> examples[c],
                   threshold |-> threshold[c], form |-> "canonical"]
             r == [req[o] EXCEPT !.pc = "version", !.artifact = a]
  <2>2. r.kind = req[o].kind /\ r.target = c /\ r.artifact = a /\ Advance(o, r)
    BY <1>1, <2>1 DEF ReadExamples, Req
  <2>3. a.base = row[c].base /\ a.examples = examples[c] /\ r.kind = "train"
    BY <2>1, <2>2 DEF ReadExamples, At
  <2>4. BaseStored(a)
    BY <1>2, <2>1, <2>3 DEF BaseStored, ReadExamples, Whole
  <2>5. row[c].exists
    BY <2>1 DEF ReadExamples
  <2> HIDE DEF r, a
  <2>6. MayReplace(r, row[c], examples[c])
    <3>1. r.kind \notin Exports  BY <2>3 DEF Exports
    <3> HIDE DEF c
    <3> QED
      BY <1>2, <1>3, <2>2, <2>3, <2>5, <3>1 DEF MayReplace, TrainedHere
  <2> QED
    BY <1>1, <2>2, <2>4, <2>6, TrainLocal
<1>5. CASE ReadArtifact(o)
  <2> DEFINE r == [req[o] EXCEPT !.artifact = row[c].sha, !.pc = AfterRead[req[o].kind]]
  <2>1. r.kind = req[o].kind /\ r.target = c /\ r.artifact = row[c].sha /\ Advance(o, r)
    BY <1>1, <1>5 DEF ReadArtifact, Req
  <2>2. /\ row[c].version \in Version /\ object[row[c].version] = row[c].sha /\ row[c].sha # None
        /\ row[c].exists
    BY <1>1, <1>2, <1>5 DEF ReadArtifact, Whole, Row, TrainInv
  <2>3. BaseStored(row[c].sha)
    BY <2>2 DEF TrainInv
  <2>4. MayReplace(r, row[c], examples[c])
    <3>1. r.kind # "train"
      BY <1>5, <2>1 DEF ReadArtifact, At, Exports
    <3> HIDE DEF r, c
    <3> QED
      BY <1>2, <1>3, <2>1, <2>2, <3>1 DEF MayReplace, TrainedHere, Row, Stored, Artifact
  <2> HIDE DEF r
  <2>5. r.kind # "import"
    BY <1>5, <2>1 DEF ReadArtifact, At, Exports
  <2> QED
    BY <1>1, <2>1, <2>3, <2>4, <2>5, TrainLocal
<1> QED
  BY <1>4, <1>5

\* It stays so when version and threshold are settled.
LEMMA VersionTrain ==
    ASSUME TrainInv, StoreInv', NEW o \in Request,
           CheckVersion(o) \/ \E v \in Version : ApplyPolicy(o, v)
    PROVE  TrainInv'
<1>1. /\ req[o] \in Req /\ Shape(req[o]) /\ o \in Locking /\ UNCHANGED <<row, examples, object>>
      /\ req[o].pc = "version" /\ req[o].kind \in Trains
  BY TrainReqs DEF CheckVersion, ApplyPolicy, At, Locking, Trains, Exports, tables
<1>2. req[o].artifact \in Artifact
  BY <1>1 DEF Shape, Req, Stored
<1>3. PICK a : /\ Advance(o, [req[o] EXCEPT !.pc = "head", !.artifact = a])
               /\ a.base = req[o].artifact.base /\ a.examples = req[o].artifact.examples
  <2>1. CASE CheckVersion(o)
    <3> DEFINE a == [req[o].artifact EXCEPT !.threshold = threshold[req[o].target]]
    <3>1. a.base = req[o].artifact.base /\ a.examples = req[o].artifact.examples
      BY <1>2 DEF Artifact
    <3>2. [req[o] EXCEPT !.pc = "head", !.artifact.threshold = threshold[req[o].target]]
          = [req[o] EXCEPT !.pc = "head", !.artifact = a]
      BY <1>1 DEF Req
    <3> HIDE DEF a
    <3> QED
      BY <2>1, <3>1, <3>2 DEF CheckVersion
  <2>2. CASE \E v \in Version : ApplyPolicy(o, v)
    <3>1. PICK v \in Version : ApplyPolicy(o, v)
      BY <2>2
    <3> DEFINE a == [req[o].artifact EXCEPT !.version = v, !.threshold = threshold[req[o].target],
                                            !.form = "canonical"]
    <3>2. a.base = req[o].artifact.base /\ a.examples = req[o].artifact.examples
      BY <1>2 DEF Artifact
    <3>3. Advance(o, [req[o] EXCEPT !.pc = "head", !.artifact = a])
      BY <3>1 DEF ApplyPolicy
    <3> HIDE DEF a
    <3> QED
      BY <3>2, <3>3
  <2> QED
    BY <2>1, <2>2
<1> DEFINE r == [req[o] EXCEPT !.pc = "head", !.artifact = a]
<1>4. r.kind = req[o].kind /\ r.target = req[o].target /\ r.artifact = a /\ Advance(o, r)
  BY <1>1, <1>3 DEF Req
<1> HIDE DEF r
<1>5. Brings(req[o])
  BY <1>1 DEF Brings
<1> QED
  BY <1>1, <1>3, <1>4, <1>5, KeepTrain

\* And when an object that means the same is already there.
LEMMA MatchExistingTrain ==
    ASSUME TrainInv, StoreInv', NEW o \in Locking, req[o].pc \in {"head", "put"},
           MatchExisting(o), UNCHANGED <<row, examples, object>>
    PROVE  TrainInv'
<1> DEFINE r == [req[o] EXCEPT !.pc = "row", !.sha = object[OwnVersion(o)]]
<1>1. o \in Request /\ req[o] \in Req
  BY TrainReqs DEF Locking
<1>2. /\ r.kind = req[o].kind /\ r.target = req[o].target /\ r.artifact = req[o].artifact
      /\ Advance(o, r)
  BY <1>1 DEF MatchExisting, Req
<1> HIDE DEF r
<1>3. Brings(r) => Brings(req[o])
  BY <1>2 DEF Brings
<1> QED
  BY <1>1, <1>2, <1>3, KeepTrain

\* And when it is stored.
LEMMA PutTrain ==
    ASSUME TrainInv, StoreInv', NEW o \in Request, Put(o)
    PROVE  TrainInv'
<1>1. /\ req[o] \in Req /\ Shape(req[o]) /\ o \in Locking /\ req[o].pc = "put" /\ BaseInv
      /\ UNCHANGED <<row, examples>>
  BY TrainReqs DEF Put, At, Locking, tables
<1>2. CASE MatchExisting(o) /\ UNCHANGED object
  BY <1>1, <1>2, MatchExistingTrain
<1>3. CASE /\ object[OwnVersion(o)] = None
           /\ object' = [object EXCEPT ![OwnVersion(o)] = req[o].artifact]
           /\ Advance(o, [req[o] EXCEPT !.pc = "row", !.sha = req[o].artifact])
  <2> DEFINE a == req[o].artifact
             r == [req[o] EXCEPT !.pc = "row", !.sha = a]
  <2>1. a \in Artifact /\ OwnVersion(o) \in Version /\ a.version = OwnVersion(o)
    BY <1>1, Storing DEF OwnVersion
  <2>2. /\ r.kind = req[o].kind /\ r.target = req[o].target /\ r.artifact = a /\ r.pc = "row"
        /\ req'[o] = r /\ \A q \in Request \ {o} : req'[q] = req[q]
    BY <1>1, <1>3 DEF BaseInv, TypeOK, Advance, Req
  <2> HIDE DEF r
  <2>3. /\ object'[OwnVersion(o)] = a
        /\ \A v \in Version \ {OwnVersion(o)} : object'[v] = object[v]
        /\ object \in [Version -> Stored]
    BY <1>1, <1>3, <2>1 DEF BaseInv, TypeOK
  <2>4. ASSUME NEW b \in Artifact, BaseStored(b)
        PROVE  b.base # None => object'[b.base] # None
    BY <1>3, <2>1, <2>3, <2>4, ArtifactAssumption DEF BaseStored, Artifact
  <2>5. BaseStored(a)
    BY <1>1 DEF TrainInv, Brings, Shape
  <2>6. a.base # OwnVersion(o)
    BY <1>3, <2>1, <2>5, ArtifactAssumption DEF BaseStored
  <2>7. ASSUME NEW v \in Version, object'[v] # None
        PROVE  (object'[v].base # None => object'[object'[v].base] # None) /\ object'[v].base # v
    <3>1. CASE v = OwnVersion(o)
      BY <2>1, <2>3, <2>4, <2>5, <2>6, <3>1
    <3>2. CASE v # OwnVersion(o)
      BY <2>3, <2>4, <2>7, <3>2 DEF TrainInv, Stored
    <3> QED
      BY <3>1, <3>2
  <2>8. ASSUME NEW q \in Request
        PROVE  /\ req'[q].kind = req[q].kind /\ req'[q].target = req[q].target
               /\ req'[q].artifact = req[q].artifact
               /\ Brings(req'[q]) => Brings(req[q])
               /\ req'[q].pc \in {"idle", "lock"} <=> req[q].pc \in {"idle", "lock"}
    BY <1>1, <2>2 DEF Brings
  <2>9. ASSUME NEW q \in Request, req'[q].kind = "import" \/ Brings(req'[q])
        PROVE  req'[q].artifact.base # None => object'[req'[q].artifact.base] # None
    <3>1. BaseStored(req[q].artifact)
      BY <2>8, <2>9 DEF TrainInv
    <3>2. req[q].artifact \in Artifact
      BY <2>8, <2>9, TrainReqs DEF Shape, Req, Stored, Brings
    <3> QED
      BY <2>4, <2>8, <3>1, <3>2
  <2>10. Locking' = Locking
    BY <2>8 DEF Locking
  <2>11. OneTrainer'
    BY <2>8, <2>10 DEF TrainInv, OneTrainer, Locking
  <2>12. ASSUME NEW q \in Request, Brings(req'[q])
         PROVE  MayReplace(req'[q], row[req'[q].target], examples[req'[q].target])
    BY <2>8, <2>12 DEF TrainInv, MayReplace
  <2>13. (\A q \in Request :
           /\ req[q].kind = "import" \/ Brings(req[q]) => BaseStored(req[q].artifact)
           /\ Brings(req[q]) => MayReplace(req[q], row[req[q].target], examples[req[q].target]))'
    BY <1>1, <2>9, <2>12 DEF Brings, BaseStored, MayReplace, TrainedHere
  <2>14. (\A v \in Version : object[v] # None => BaseStored(object[v]) /\ object[v].base # v)'
    BY <2>7 DEF BaseStored
  <2> QED
    BY <1>1, <2>11, <2>13, <2>14 DEF TrainInv, TrainedHere
<1> QED
  BY <1>2, <1>3 DEF Put

\* A request that has named, or created, the row of classifier c.
LEMMA RowTrain ==
    ASSUME TrainInv, StoreInv', NEW o \in Locking, NEW r, Advance(o, r),
           r.pc = "idle" \/ (r.pc = "local" /\ r.kind = req[o].kind /\ r.target = req[o].target),
           r.kind # "import", NEW c \in Classifier,
           \A q \in Classifier \ {c} : row'[q] = row[q],
           row'[c].exists, TrainedHere(row'[c]) => row'[c].sha.examples <= examples[c],
           \A q \in Request \ {o} : Brings(req[q]) => req[q].target # c,
           UNCHANGED <<examples, object>>
    PROVE  TrainInv'
<1>1. /\ o \in Request /\ req'[o] = r /\ ~Brings(r)
      /\ \A q \in Request \ {o} : req'[q] = req[q]
  BY DEF TrainInv, StoreInv, BaseInv, TypeOK, Advance, Locking, Brings
<1>2. Locking' \subseteq Locking
      /\ \A q \in Locking' : req'[q].kind = req[q].kind /\ req'[q].target = req[q].target
  BY <1>1 DEF Locking
<1>3. OneTrainer'
  BY <1>2 DEF TrainInv, OneTrainer
<1>4. ASSUME NEW q \in Request
      PROVE  /\ req'[q].kind = "import" \/ Brings(req'[q]) => BaseStored(req'[q].artifact)
             /\ Brings(req'[q]) => MayReplace(req'[q], row'[req'[q].target], examples[req'[q].target])
  <2>1. CASE q = o
    BY <1>1, <2>1
  <2>2. CASE q # o
    <3>1. req'[q] = req[q]
      BY <1>1, <2>2
    <3>2. Brings(req[q]) => row'[req[q].target] = row[req[q].target]
      <4>1. Brings(req[q]) => req[q].target \in Classifier \ {c}
        BY <2>2, TrainReqs DEF Brings
      <4> QED
        BY <4>1
    <3> QED
      BY <3>1, <3>2 DEF TrainInv
  <2> QED
    BY <2>1, <2>2
<1>5. (\A q \in Request :
        /\ req[q].kind = "import" \/ Brings(req[q]) => BaseStored(req[q].artifact)
        /\ Brings(req[q]) => MayReplace(req[q], row[req[q].target], examples[req[q].target]))'
  BY <1>4 DEF Brings, BaseStored, MayReplace, TrainedHere
<1>6. (\A v \in Version : object[v] # None => BaseStored(object[v]) /\ object[v].base # v)'
  BY DEF TrainInv, BaseStored
<1>7. ASSUME NEW q \in Classifier
      PROVE  /\ ~row'[q].exists => row'[q].version = None /\ row'[q].base = None
             /\ TrainedHere(row'[q]) => row'[q].sha.examples <= examples[q]
  BY <1>7 DEF TrainInv
<1>8. (\A q \in Classifier :
           /\ ~row[q].exists => row[q].version = None /\ row[q].base = None
           /\ TrainedHere(row[q]) => row[q].sha.examples <= examples[q])'
  BY <1>7 DEF TrainedHere
<1> QED
  BY <1>3, <1>5, <1>6, <1>8 DEF TrainInv

\* What an import creates does not count as trained here.
LEMMA InsertRowTrain ==
    ASSUME TrainInv, StoreInv', NEW o \in Request, NEW c \in Classifier, InsertRow(o, c)
    PROVE  TrainInv' /\ ~TrainedHere(row[c])
<1>1. /\ req[o] \in Req /\ Shape(req[o]) /\ o \in Locking /\ req[o].pc = "row"
      /\ BaseInv /\ Placed(req[o]) /\ UNCHANGED <<examples, object>> /\ ~row[c].exists
  BY TrainReqs DEF InsertRow, At, Locking, TrainInv, StoreInv
<1>2. /\ row'[c] = [exists |-> TRUE, version |-> OwnVersion(o), sha |-> req[o].sha,
                     base |-> OwnVersion(o), baseSha |-> req[o].sha]
      /\ \A q \in Classifier \ {c} : row'[q] = row[q]
  BY <1>1 DEF InsertRow, BaseInv, TypeOK
<1>3. /\ OwnVersion(o) \in Version /\ object[OwnVersion(o)] = req[o].sha /\ req[o].sha # None
  BY <1>1, Storing DEF Placed, OwnVersion, Shape
<1>4. req[o].sha.base # OwnVersion(o)
  BY <1>3 DEF TrainInv
<1>5. ~TrainedHere(row'[c])
  BY <1>2, <1>4 DEF TrainedHere
<1>6. \A q \in Request : Brings(req[q]) => req[q].target # c
  BY <1>1 DEF TrainInv, MayReplace
<1>7. ~TrainedHere(row[c])
  BY <1>1 DEF TrainInv, TrainedHere, StoreInv, BaseInv, Whole
<1> DEFINE r == NoReq
<1>8. Advance(o, r) /\ r.pc = "idle" /\ r.kind # "import"
  BY DEF InsertRow, Finish, NoReq, NewReq
<1> HIDE DEF r
<1> QED
  BY <1>1, <1>2, <1>5, <1>6, <1>7, <1>8, RowTrain

\* What a training or an export names is trained from examples that are no older.
LEMMA UpdateRowTrain ==
    ASSUME TrainInv, StoreInv', NEW o \in Request, UpdateRow(o)
    PROVE  /\ TrainInv' /\ req[o].target \in Classifier
           /\ \A q \in Classifier \ {req[o].target} : row'[q] = row[q]
           /\ TrainedHere(row[req[o].target]) =>
                  /\ TrainedHere(row'[req[o].target])
                  /\ row'[req[o].target].sha.examples >= row[req[o].target].sha.examples
<1> DEFINE c == req[o].target
           w == row[c]
           a == req[o].artifact
           s == req[o].sha
<1>1. /\ req[o] \in Req /\ Shape(req[o]) /\ o \in Locking /\ Brings(req[o])
      /\ BaseInv /\ Placed(req[o]) /\ UNCHANGED <<examples, object>>
      /\ c \in Classifier /\ w \in Row /\ examples[c] \in Nat
  BY TrainReqs DEF UpdateRow, At, Locking, TrainInv, StoreInv, Brings
<1>2. /\ row' = [row EXCEPT ![c].version = OwnVersion(o), ![c].sha = s]
      /\ req[o].pc = "row" /\ req[o].kind \in Trains
  BY DEF UpdateRow, At
<1>3. /\ \A q \in Classifier \ {c} : row'[q] = row[q]
      /\ row'[c].sha = s /\ row'[c].base = w.base /\ row'[c].exists = w.exists
  BY <1>1, <1>2 DEF BaseInv, TypeOK, Row
<1>4. a \in Artifact /\ s \in Artifact /\ Same(s, a)
  BY <1>1, <1>2, ArtifactAssumption DEF Placed, Shape, Req, Stored
<1>5. s.base = a.base /\ s.examples = a.examples
  BY <1>4 DEF Same, Artifact
<1>6. MayReplace(req[o], w, examples[c])
  BY <1>1 DEF TrainInv
<1>7. s # None
  BY <1>4, ArtifactAssumption
<1>8. row'[c].exists /\ (TrainedHere(row'[c]) => row'[c].sha.examples <= examples[c])
  BY <1>3, <1>5, <1>6 DEF MayReplace, TrainedHere
<1>9. TrainedHere(w) => TrainedHere(row'[c]) /\ w.sha.examples <= row'[c].sha.examples
  BY <1>3, <1>5, <1>6, <1>7 DEF MayReplace, TrainedHere
<1>10. TrainedHere(w) => w.sha.examples \in Nat
  BY <1>1 DEF TrainedHere, Row, Stored, Artifact
<1>11. row'[c].sha.examples \in Nat
  BY <1>3, <1>4 DEF Artifact
<1>12. \A q \in Request \ {o} : Brings(req[q]) => req[q].target # c
  BY <1>1, <1>2 DEF TrainInv, OneTrainer, Brings, Locking
<1>13. PICK r : /\ Advance(o, r)
                /\ r.pc = "idle" \/ (r.pc = "local" /\ r.kind = req[o].kind /\ r.target = c)
                /\ r.kind # "import"
  <2>1. CASE req[o].kind = "copy"
    <3> DEFINE r == [req[o] EXCEPT !.pc = "local"]
    <3>1. Advance(o, r) /\ r.pc = "local" /\ r.kind = "copy" /\ r.target = c
      BY <1>1, <2>1 DEF UpdateRow, Goto, Req
    <3> HIDE DEF r, c
    <3> QED
      BY <2>1, <3>1
  <2>2. CASE req[o].kind # "copy"
    <3>1. Advance(o, NoReq) /\ NoReq.pc = "idle" /\ NoReq.kind # "import"
      BY <2>2 DEF UpdateRow, Finish, NoReq, NewReq
    <3> QED
      BY <3>1
  <2> QED
    BY <2>1, <2>2
<1> HIDE DEF c, w, a, s
<1>14. TrainInv'
  BY <1>1, <1>3, <1>8, <1>12, <1>13, RowTrain DEF c
<1>15. TrainedHere(w) => TrainedHere(row'[c]) /\ row'[c].sha.examples >= w.sha.examples
  BY <1>9, <1>10, <1>11
<1> QED
  BY <1>1, <1>3, <1>14, <1>15 DEF c, w

\* The steps of a request but those that name an artifact.
LEMMA LocalTrain ==
    ASSUME TrainInv, StoreInv', NEW o \in Request,
           Lookup(o) \/ RefuseImport(o) \/ Head(o) \/ PutPromoted(o) \/ PutChecksum(o)
               \/ Fetch(o) \/ Verify(o) \/ WriteLocal(o) \/ WriteLocalSum(o)
    PROVE  TrainInv'
<1>1. /\ req[o] \in Req /\ Shape(req[o]) /\ BaseInv
      /\ UNCHANGED <<row, examples, object>>
  BY TrainReqs DEF Lookup, RefuseImport, Head, PutPromoted, PutChecksum, Fetch, Verify,
     WriteLocal, WriteLocalSum, tables
<1>2. o \in Locking
  BY DEF Lookup, RefuseImport, Head, PutPromoted, PutChecksum, Fetch, Verify,
     WriteLocal, WriteLocalSum, At, Locking
<1>3. CASE Lookup(o)
  BY <1>1, <1>2, <1>3, FinishTrain, GotoTrain DEF Lookup, At, Trains, Exports
<1>4. CASE RefuseImport(o) \/ PutChecksum(o) \/ WriteLocalSum(o)
  BY <1>1, <1>4, FinishTrain DEF RefuseImport, PutChecksum, WriteLocalSum
<1>5. CASE Head(o)
  BY <1>1, <1>2, <1>5, GotoTrain, MatchExistingTrain DEF Head, At
<1>6. CASE PutPromoted(o) \/ Verify(o)
  BY <1>1, <1>2, <1>6, GotoTrain DEF PutPromoted, Verify, At, Trains, Exports
<1>7. ASSUME NEW pc \in {"verify", "localsum"}, NEW a \in Stored, req[o].kind # "import",
             Advance(o, [req[o] EXCEPT !.pc = pc, !.artifact = a])
      PROVE  TrainInv'
  <2> DEFINE r == [req[o] EXCEPT !.pc = pc, !.artifact = a]
  <2>1. /\ r.kind = req[o].kind /\ r.target = req[o].target /\ r.pc = pc /\ Advance(o, r)
    BY <1>1, <1>7 DEF Req
  <2> HIDE DEF r
  <2>2. r.kind # "import" /\ ~Brings(r)
    BY <1>7, <2>1 DEF Brings
  <2> QED
    BY <1>1, <1>2, <2>1, <2>2, TrainLocal
<1>8. CASE Fetch(o)
  <2>1. /\ Advance(o, [req[o] EXCEPT !.pc = "verify", !.artifact = promoted.artifact])
        /\ req[o].kind # "import" /\ promoted.artifact \in Stored /\ "verify" \in {"verify", "localsum"}
    BY <1>1, <1>8 DEF Fetch, At, BaseInv, TypeOK, Pair
  <2> QED
    BY <1>7, <2>1
<1>9. CASE WriteLocal(o)
  <2>1. PICK a \in Artifact : Advance(o, [req[o] EXCEPT !.pc = "localsum", !.artifact = a])
    BY <1>1, <1>9, WrittenLocal
  <2>2. req[o].kind # "import" /\ a \in Stored /\ "localsum" \in {"verify", "localsum"}
    BY <1>1, <1>9 DEF WriteLocal, Shape, Stored
  <2> QED
    BY <1>7, <2>1, <2>2
<1> QED
  BY <1>3, <1>4, <1>5, <1>6, <1>8, <1>9

\* Each step of a request keeps what it may replace.
LEMMA RequestTrain ==
    ASSUME TrainInv, StoreInv', NEW o \in Request, Step(o)
    PROVE  TrainInv'
  BY TakeLockTrain, ReadTrain, VersionTrain, PutTrain, InsertRowTrain, UpdateRowTrain, LocalTrain
     DEF Step

\* A file at hand was trained on a base that is in storage, if those from elsewhere
\* were trained on none.
LEMMA AtHandTrain ==
    ASSUME TrainInv, \A u \in Upload : u.base = None, NEW a \in AtHand
    PROVE  BaseStored(a)
<1>1. CASE a \in Upload
  BY <1>1 DEF BaseStored
<1>2. ASSUME NEW c \in Classifier, row[c].version # None, a = row[c].sha
      PROVE  BaseStored(a)
  <2>1. row[c].version \in Version /\ object[row[c].version] = a /\ a # None
    BY <1>2 DEF TrainInv, StoreInv, BaseInv, TypeOK, Row, RowsNameTheirObject
  <2> QED
    BY <2>1 DEF TrainInv
<1> QED
  BY <1>1, <1>2 DEF AtHand

\* A request that begins has read nothing.
LEMMA BeginTrain ==
    ASSUME TrainInv, StoreInv', NEW o \in Request, \A u \in Upload : u.base = None,
           \/ \E a \in AtHand : BeginImport(o, a)
           \/ \E kind \in Kinds \ {"import"}, c \in Classifier \cup {None},
                 v \in Version \cup {None} : Begin(o, kind, c, v)
    PROVE  TrainInv'
<1>1. PICK r : /\ Advance(o, r) /\ r.pc = "lock"
               /\ r.kind = "import" => BaseStored(r.artifact)
  <2>1. CASE \E a \in AtHand : BeginImport(o, a)
    <3>1. PICK a \in AtHand : BeginImport(o, a)
      BY <2>1
    <3> DEFINE r == NewReq("lock", "import", None, None, a)
    <3>2. Advance(o, r) /\ r.pc = "lock" /\ r.artifact = a
      BY <3>1 DEF BeginImport, NewReq
    <3>3. BaseStored(a)
      BY AtHandTrain
    <3> HIDE DEF r
    <3> QED
      BY <3>2, <3>3
  <2>2. ASSUME NEW kind \in Kinds \ {"import"}, NEW c, NEW v, Begin(o, kind, c, v)
        PROVE  \E r : /\ Advance(o, r) /\ r.pc = "lock"
                      /\ r.kind = "import" => BaseStored(r.artifact)
    <3> DEFINE r == NewReq("lock", kind, c, v, None)
    <3>1. Advance(o, r) /\ r.pc = "lock" /\ r.kind # "import"
      BY <2>2 DEF Begin, NewReq
    <3> HIDE DEF r
    <3> QED
      BY <3>1
  <2> QED
    BY <2>1, <2>2
<1>2. ~Brings(r) /\ UNCHANGED <<row, examples, object>>
  BY <1>1 DEF Brings, BeginImport, Begin, tables
<1> QED
  BY <1>1, <1>2, TrainLocal

\* Classifiers without artifacts are created, and examples change.
LEMMA ExamplesTrain ==
    ASSUME TrainInv, StoreInv', NEW c \in Classifier, CreateClassifier(c) \/ ChangeExamples(c)
    PROVE  TrainInv'
<1>1. /\ req' = req /\ object' = object
      /\ \A q \in Classifier : /\ row[q] \in Row /\ examples[q] \in Nat
                               /\ row'[q] \in {row[q], [row[q] EXCEPT !.exists = TRUE]}
                               /\ examples'[q] \in {examples[q], examples[q] + 1}
                               /\ row[q].exists => row'[q] = row[q]
  BY ArtifactAssumption
     DEF CreateClassifier, ChangeExamples, TrainInv, StoreInv, BaseInv, TypeOK
<1>2. \A q \in Classifier : /\ row'[q].version = row[q].version /\ row'[q].sha = row[q].sha
                            /\ row'[q].base = row[q].base
                            /\ row[q].exists => row'[q].exists
                            /\ examples[q] <= examples'[q] /\ examples'[q] \in Nat
  BY <1>1 DEF Row
<1>3. OneTrainer'
  BY <1>1 DEF TrainInv, OneTrainer, Locking
<1>4. (\A v \in Version : object[v] # None => BaseStored(object[v]) /\ object[v].base # v)'
  BY <1>1 DEF TrainInv, BaseStored
<1>5. ASSUME NEW q \in Classifier
      PROVE  /\ ~row'[q].exists => row'[q].version = None /\ row'[q].base = None
             /\ TrainedHere(row'[q]) => row'[q].sha.examples <= examples'[q]
  <2>1. ~row'[q].exists => row'[q].version = None /\ row'[q].base = None
    BY <1>2 DEF TrainInv
  <2>2. ASSUME TrainedHere(row'[q])
        PROVE  row'[q].sha.examples <= examples'[q]
    <3>1. TrainedHere(row[q]) /\ row[q].sha \in Artifact
      BY <1>1, <1>2, <2>2 DEF TrainedHere, Row, Stored
    <3>2. row[q].sha.examples <= examples[q] /\ row[q].sha.examples \in Nat
      BY <3>1 DEF TrainInv, Artifact
    <3> QED
      BY <1>1, <1>2, <3>2
  <2> QED
    BY <2>1, <2>2
<1>6. ASSUME NEW o \in Request, Brings(req[o])
      PROVE  MayReplace(req[o], row'[req[o].target], examples'[req[o].target])
  <2> DEFINE t == req[o].target
  <2>1. /\ t \in Classifier /\ MayReplace(req[o], row[t], examples[t])
        /\ req[o].artifact \in Artifact
    BY <1>6, TrainReqs DEF TrainInv, Brings, Shape, Req, Stored
  <2>2. req[o].artifact.examples \in Nat
    BY <2>1 DEF Artifact
  <2>3. row'[t] = row[t]
    BY <1>1, <2>1 DEF MayReplace
  <2> QED
    BY <1>1, <1>2, <2>1, <2>2, <2>3 DEF MayReplace
<1>7. (\A o \in Request :
        /\ req[o].kind = "import" \/ Brings(req[o]) => BaseStored(req[o].artifact)
        /\ Brings(req[o]) => MayReplace(req[o], row[req[o].target], examples[req[o].target]))'
  BY <1>1, <1>6 DEF TrainInv, Brings, BaseStored, MayReplace, TrainedHere
<1>8. (\A q \in Classifier :
           /\ ~row[q].exists => row[q].version = None /\ row[q].base = None
           /\ TrainedHere(row[q]) => row[q].sha.examples <= examples[q])'
  BY <1>5 DEF TrainedHere
<1> QED
  BY <1>3, <1>4, <1>7, <1>8 DEF TrainInv

\* Steps that change nothing the invariant is about.
LEMMA QuietTrain ==
    ASSUME TrainInv, StoreInv', UNCHANGED <<row, examples, object, req>>
    PROVE  TrainInv'
  BY DEF TrainInv, OneTrainer, Locking, Brings, BaseStored, MayReplace, TrainedHere

\* Every step keeps trainings in their order.
LEMMA StepTrain ==
    ASSUME \A a \in Upload : a.base = None
    PROVE  TrainInv /\ [Next]_vars => TrainInv'
<1> SUFFICES ASSUME TrainInv, [Next]_vars PROVE TrainInv'
  OBVIOUS
<1>1. StoreInv'
  BY StepStore DEF TrainInv
<1>2. CASE UNCHANGED vars
  BY <1>1, <1>2, QuietTrain DEF vars
<1>3. ASSUME NEW o \in Request,
             \/ \E a \in AtHand : BeginImport(o, a)
             \/ \E kind \in Kinds \ {"import"}, c \in Classifier \cup {None},
                   v \in Version \cup {None} : Begin(o, kind, c, v)
             \/ Step(o)
             \/ Abort(o)
      PROVE  TrainInv'
  <2>1. CASE Abort(o)
    BY <1>1, <2>1, FinishTrain DEF Abort, tables
  <2> QED
    BY <1>1, <1>3, <2>1, BeginTrain, RequestTrain
<1>4. ASSUME NEW c \in Classifier,
             CreateClassifier(c) \/ ChangeExamples(c) \/ \E t \in Threshold : SetThreshold(c, t)
      PROVE  TrainInv'
  <2>1. CASE \E t \in Threshold : SetThreshold(c, t)
    BY <1>1, <2>1, QuietTrain DEF SetThreshold
  <2> QED
    BY <1>1, <1>4, <2>1, ExamplesTrain
<1> QED
  BY <1>2, <1>3, <1>4 DEF Next

\* There is no training.
LEMMA InitTrain == Init => TrainInv
  BY InitStore DEF Init, TrainInv, OneTrainer, Locking, Brings, NoReq, NewReq, NoRow, TrainedHere

\* What one step may do to the training of a classifier.
LEMMA TrainingStays ==
    ASSUME TrainInv, StoreInv', [Next]_vars, NEW c \in Classifier, TrainedHere(row[c])
    PROVE  TrainedHere(row'[c]) /\ row'[c].sha.examples >= row[c].sha.examples
<1>1. row[c] \in Row /\ row[c].sha.examples \in Nat /\ row \in [Classifier -> Row]
  BY DEF TrainInv, StoreInv, BaseInv, TypeOK, TrainedHere, Row, Stored, Artifact
<1>2. CASE row'[c] = row[c]
  BY <1>1, <1>2
<1>3. CASE \E o \in Request, q \in Classifier : InsertRow(o, q)
  <2>1. PICK o \in Request, q \in Classifier : InsertRow(o, q)
    BY <1>3
  <2>2. q # c
    BY <2>1, InsertRowTrain
  <2>3. row'[c] = row[c]
    BY <1>1, <2>1, <2>2 DEF InsertRow
  <2> QED
    BY <1>2, <2>3
<1>4. CASE \E o \in Request : UpdateRow(o)
  <2>1. PICK o \in Request : UpdateRow(o)
    BY <1>4
  <2>2. CASE c = req[o].target
    BY <2>1, <2>2, UpdateRowTrain
  <2>3. CASE c # req[o].target
    BY <1>2, <2>1, <2>3, UpdateRowTrain
  <2> QED
    BY <2>2, <2>3
<1>5. ASSUME NEW q \in Classifier, CreateClassifier(q)
      PROVE  row'[c] = row[c]
  <2>1. ~row[q].exists /\ row' = [row EXCEPT ![q].exists = TRUE]
    BY <1>5 DEF CreateClassifier
  <2>2. ~TrainedHere(row[q])
    BY <2>1 DEF TrainInv, TrainedHere, StoreInv, BaseInv, Whole
  <2> QED
    BY <1>1, <2>1, <2>2
<1>6. CASE UNCHANGED row
  BY <1>2, <1>6
<1>7. CASE Next
  BY <1>2, <1>3, <1>4, <1>5, <1>6, <1>7 DEF Next, Step, BeginImport, Begin, Abort, TakeLock,
     Lookup, RefuseImport, ReadExamples, CheckVersion, ReadArtifact, ApplyPolicy, Head, Put,
     PutPromoted, PutChecksum, Fetch, Verify, WriteLocal, WriteLocalSum, ChangeExamples,
     SetThreshold, tables
<1> QED
  BY <1>6, <1>7 DEF vars

\* A classifier never goes back to an artifact of older examples, for any number of
\* requests, if the files from elsewhere were not trained on a base.
THEOREM TrainingIsKept ==
    ASSUME \A a \in Upload : a.base = None
    PROVE  Spec => TrainingKept
<1>1. Init => TrainInv
  BY InitTrain
<1>2. TrainInv /\ [Next]_vars => TrainInv'
  BY StepTrain
<1>3. TrainInv /\ TrainInv' /\ [Next]_vars =>
        [\A c \in Classifier : TrainedHere(row[c]) =>
            /\ TrainedHere(row'[c])
            /\ row'[c].sha.examples >= row[c].sha.examples]_vars
  BY TrainingStays DEF TrainInv
<1> QED
  BY <1>1, <1>2, <1>3, PTL DEF Spec, TrainingKept

(***************************************************************************)
(* What loading a classifier gives                                         *)
(***************************************************************************)
\* Formatting leaves the rest of an artifact alone.
LEMMA MeaningOf ==
    ASSUME NEW a \in Artifact
    PROVE  /\ Meaning(a) \in Content /\ Meaning(a) # None
           /\ Meaning(a).version = a.version /\ Meaning(a).base = a.base
           /\ Meaning(a).examples = a.examples
<1>1. Meaning(a) \in Content
  BY DEF Meaning, Content, Artifact
<1>2. Meaning(a) # None
  BY <1>1, ArtifactAssumption DEF Content
<1> QED
  BY <1>1, <1>2 DEF Meaning, Artifact

\* Loading a classifier gives the artifact its row names, or none where it names none.
LEMMA LoadedRow ==
    ASSUME StoreInv, NEW c \in Classifier
    PROVE  /\ row[c].version = None => Loaded[c] = None
           /\ row[c].version # None =>
                  /\ row[c].sha \in Artifact /\ row[c].version \in Version
                  /\ row[c].sha.version = row[c].version
                  /\ object[row[c].version] = row[c].sha
                  /\ Loaded[c] = Meaning(row[c].sha)
<1>1. row[c] \in Row /\ RowsNameTheirObject
  BY DEF StoreInv, BaseInv, TypeOK
<1>2. row[c].version = None => Loaded[c] = None
  BY DEF Loaded
<1>3. ASSUME row[c].version # None
      PROVE  /\ row[c].sha \in Artifact /\ row[c].version \in Version
             /\ row[c].sha.version = row[c].version
             /\ object[row[c].version] = row[c].sha
             /\ Loaded[c] = Meaning(row[c].sha)
  <2>1. /\ row[c].version \in Version /\ row[c].sha # None
        /\ object[row[c].version] = row[c].sha
    BY <1>1, <1>3 DEF Row, RowsNameTheirObject
  <2>2. row[c].sha \in Artifact /\ row[c].sha.version = row[c].version
    BY <1>1, <2>1 DEF Row, Stored, StoreInv
  <2> QED
    BY <1>3, <2>1, <2>2 DEF Loaded
<1> QED
  BY <1>2, <1>3

\* Rows and objects that a step leaves alone are loaded as before.
LEMMA LoadedStays ==
    ASSUME StoreInv, [Next]_vars, NEW c \in Classifier,
           row'[c].version = row[c].version, row'[c].sha = row[c].sha
    PROVE  Loaded'[c] = Loaded[c]
<1>1. Loaded'[c] = IF row'[c].version # None /\ object'[row'[c].version] = row'[c].sha
                   THEN Meaning(row'[c].sha) ELSE None
  BY DEF Loaded, Meaning
<1>2. CASE row[c].version = None
  BY <1>1, <1>2, LoadedRow
<1>3. CASE row[c].version # None
  <2>1. object[row[c].version] # None /\ row[c].version \in Version
    BY <1>3, LoadedRow, ArtifactAssumption
  <2>2. object'[row[c].version] = object[row[c].version]
    BY <2>1, ObjectsStay DEF StoreInv
  <2> QED
    BY <1>1, <1>3, <2>2, LoadedRow
<1> QED
  BY <1>2, <1>3

\* A row that comes to name a version no other row names shows the content under it at
\* once, and to its own version no row gives another content.
LEMMA NamesContent ==
    ASSUME StoreInv, StoreInv', [Next]_vars, object' = object, NEW c \in Classifier,
           NEW v \in Version, row'[c].version = v,
           \A q \in Classifier \ {c} : row'[q] = row[q] /\ row[q].version # v
    PROVE  /\ row'[c].sha \in Artifact
           /\ Loaded'[c] = Meaning(row'[c].sha) /\ Loaded'[c] \in Content
           /\ row'[c].sha.version = v
           /\ Contents!Becomes(c, Loaded'[c])
<1>1. /\ row'[c].sha \in Artifact /\ row'[c].sha.version = v
      /\ Loaded'[c] = Meaning(row'[c].sha) /\ object[v] = row'[c].sha
  <2>1. v # None
    BY ArtifactAssumption
  <2>2. /\ row'[c].version = None => Loaded'[c] = None
        /\ row'[c].version # None =>
               /\ row'[c].sha \in Artifact /\ row'[c].version \in Version
               /\ row'[c].sha.version = row'[c].version
               /\ object'[row'[c].version] = row'[c].sha
               /\ Loaded'[c] = Meaning(row'[c].sha)
    <3>1. (StoreInv => (/\ row[c].version = None => Loaded[c] = None
                        /\ row[c].version # None =>
                               /\ row[c].sha \in Artifact /\ row[c].version \in Version
                               /\ row[c].sha.version = row[c].version
                               /\ object[row[c].version] = row[c].sha
                               /\ Loaded[c] = Meaning(row[c].sha)))'
      BY LoadedRow, PTL
    <3> QED
      BY <3>1 DEF Meaning
  <2> QED
    BY <2>1, <2>2
<1>2. /\ Loaded'[c] \in Content /\ Loaded'[c].version = v
  BY <1>1, MeaningOf
<1>3. \A q \in Classifier \ {c} : Loaded'[q] = Loaded[q]
  BY LoadedStays
<1>4. Loaded' = [Loaded EXCEPT ![c] = Loaded'[c]]
  <2>1. Loaded = [q \in Classifier |-> Loaded[q]]
    BY DEF Loaded
  <2>2. Loaded' = [q \in Classifier |-> Loaded'[q]]
    BY DEF Loaded
  <2> HIDE DEF Loaded
  <2> QED
    BY <1>3, <2>1, <2>2
<1>5. ASSUME NEW q \in Classifier, Loaded[q] # None, Loaded[q].version = v
      PROVE  Loaded[q] = Loaded'[c]
  <2>1. row[q].version = v /\ Loaded[q] = Meaning(object[v])
    BY <1>5, LoadedRow, MeaningOf
  <2> QED
    BY <1>1, <2>1
<1> QED
  BY <1>1, <1>2, <1>4, <1>5 DEF Contents!Becomes

\* create_imported_classifier shows the whole imported artifact.
LEMMA InsertIsImport ==
    ASSUME TrainInv, StoreInv', [Next]_vars, NEW o \in Request, NEW c \in Classifier,
           InsertRow(o, c)
    PROVE  Contents!Import(c, Loaded'[c]) /\ Loaded'[c] \in Content
<1> DEFINE v == OwnVersion(o)
<1>1. /\ StoreInv /\ BaseInv /\ req[o].pc = "row" /\ ~row[c].exists
      /\ \A q \in Classifier : row[q].version # v /\ row[q].base # v
      /\ object' = object /\ examples' = examples
  BY DEF TrainInv, StoreInv, InsertRow, At
<1>2. v \in Version
  BY <1>1, Storing
<1>3. row' = [row EXCEPT ![c] = [exists |-> TRUE, version |-> v, sha |-> req[o].sha,
                                 base |-> v, baseSha |-> req[o].sha]]
  BY DEF InsertRow
<1>4. /\ row'[c].version = v /\ row'[c].base = v
      /\ \A q \in Classifier \ {c} : row'[q] = row[q]
  BY <1>1, <1>3 DEF BaseInv, TypeOK
<1> HIDE DEF v
<1>5. /\ row'[c].sha \in Artifact /\ row'[c].sha.version = v
      /\ Loaded'[c] = Meaning(row'[c].sha) /\ Loaded'[c] \in Content
      /\ Contents!Becomes(c, Loaded'[c])
  BY <1>1, <1>2, <1>4, NamesContent
<1>6. Loaded'[c].version = v
  BY <1>5, MeaningOf
<1>7. row[c].version = None /\ row[c].base = None
  BY <1>1 DEF TrainInv
<1>8. Loaded[c] = None
  BY <1>1, <1>7, LoadedRow
<1>9. [q \in Classifier |-> row'[q].base]
      = [[q \in Classifier |-> row[q].base] EXCEPT ![c] = Loaded'[c].version]
  BY <1>4, <1>6
<1> QED
  BY <1>1, <1>5, <1>7, <1>8, <1>9 DEF Contents!Import

\* update_classifier_artifact shows the whole artifact that the request trained, or the
\* one that was there under another name and threshold.
LEMMA UpdateIsTrainOrExport ==
    ASSUME TrainInv, StoreInv', [Next]_vars, NEW o \in Request, UpdateRow(o)
    PROVE  LET c == req[o].target IN
           /\ Contents!Train(c, Loaded'[c]) \/ Contents!Export(c, Loaded'[c])
           /\ Loaded'[c] \in Content
<1> DEFINE c == req[o].target
           w == row[c]
           v == OwnVersion(o)
           s == req[o].sha
<1>1. /\ req[o] \in Req /\ Shape(req[o]) /\ Brings(req[o]) /\ StoreInv /\ BaseInv
      /\ Placed(req[o]) /\ object' = object /\ examples' = examples
      /\ c \in Classifier /\ w \in Row /\ req[o].pc = "row" /\ req[o].kind \in Trains
      /\ row' = [row EXCEPT ![c].version = v, ![c].sha = s]
      /\ \A q \in Classifier \ {c} : row[q].version # v
  BY TrainReqs DEF UpdateRow, At, TrainInv, StoreInv, Brings
<1>2. v \in Version
  BY <1>1, Storing
<1>3. /\ \A q \in Classifier \ {c} : row'[q] = row[q]
      /\ row'[c].version = v /\ row'[c].sha = s /\ row'[c].base = w.base
  BY <1>1 DEF BaseInv, TypeOK, Row
<1>4. /\ s.base = req[o].artifact.base /\ s.examples = req[o].artifact.examples
  <2>1. req[o].artifact \in Artifact /\ s \in Artifact /\ Same(s, req[o].artifact)
    BY <1>1, ArtifactAssumption DEF Placed, Shape, Req, Stored
  <2> QED
    BY <2>1 DEF Same, Artifact
<1>5. MayReplace(req[o], w, examples[c])
  BY <1>1 DEF TrainInv
<1>6. [q \in Classifier |-> row'[q].base] = [q \in Classifier |-> row[q].base]
  BY <1>3
<1> HIDE DEF c, w, v, s
<1>7. /\ s \in Artifact /\ Loaded'[c] = Meaning(s) /\ Loaded'[c] \in Content
      /\ Contents!Becomes(c, Loaded'[c])
  <2>1. /\ StoreInv /\ object' = object /\ c \in Classifier /\ row'[c].version = v
        /\ \A q \in Classifier \ {c} : row'[q] = row[q] /\ row[q].version # v
    BY <1>1, <1>3
  <2>2. /\ row'[c].sha \in Artifact
        /\ Loaded'[c] = Meaning(row'[c].sha) /\ Loaded'[c] \in Content
        /\ Contents!Becomes(c, Loaded'[c])
    BY <1>2, <2>1, NamesContent
  <2> QED
    BY <1>3, <2>2
<1>8. /\ Loaded'[c].base = req[o].artifact.base /\ Loaded'[c].examples = req[o].artifact.examples
  BY <1>4, <1>7, MeaningOf
<1>9. /\ Loaded[c] # None => /\ w.sha # None
                             /\ Loaded[c].base = w.sha.base
                             /\ Loaded[c].examples = w.sha.examples
      /\ w.sha # None => Loaded[c] # None
  <2>1. w.version # None <=> w.sha # None
    BY <1>1 DEF BaseInv, Whole, w
  <2>2. CASE w.version = None
    BY <1>1, <2>1, <2>2, LoadedRow DEF w
  <2>3. CASE w.version # None
    BY <1>1, <2>1, <2>3, LoadedRow, MeaningOf DEF w
  <2> QED
    BY <2>2, <2>3
<1>10. CASE req[o].kind = "train"
  <2>1. /\ Loaded'[c].base = w.base /\ Loaded'[c].examples <= examples[c]
    BY <1>5, <1>8, <1>10 DEF MayReplace
  <2>2. Loaded[c] # None /\ Loaded[c].base = w.base => Loaded[c].examples <= Loaded'[c].examples
    BY <1>5, <1>8, <1>9 DEF MayReplace, TrainedHere
  <2>3. Contents!Train(c, Loaded'[c])
    BY <1>1, <1>6, <1>7, <2>1, <2>2 DEF Contents!Train, Contents!TrainedHere, w
  <2> QED
    BY <1>7, <2>3 DEF c
<1>11. CASE req[o].kind # "train"
  <2>1. req[o].kind \in Exports
    BY <1>1, <1>11 DEF Trains, Exports
  <2>2. /\ Loaded[c] # None /\ Loaded'[c].base = Loaded[c].base
        /\ Loaded'[c].examples = Loaded[c].examples
    BY <1>5, <1>8, <1>9, <2>1 DEF MayReplace
  <2>3. Contents!Export(c, Loaded'[c])
    BY <1>1, <1>6, <1>7, <2>2 DEF Contents!Export
  <2> QED
    BY <1>7, <2>3 DEF c
<1> QED
  BY <1>10, <1>11

\* Every step is a step of ClassifierContent, or changes nothing of it.
LEMMA ContentStep ==
    ASSUME TrainInv, StoreInv', [Next]_vars
    PROVE  [Contents!Next]_(Contents!vars)
<1>1. ASSUME \A c \in Classifier : /\ row'[c].version = row[c].version
                                   /\ row'[c].sha = row[c].sha /\ row'[c].base = row[c].base
      PROVE  /\ Loaded' = Loaded
             /\ [c \in Classifier |-> row'[c].base] = [c \in Classifier |-> row[c].base]
  <2>1. \A c \in Classifier : Loaded'[c] = Loaded[c]
    BY <1>1, LoadedStays DEF TrainInv
  <2>2. Loaded = [c \in Classifier |-> Loaded[c]] /\ Loaded' = [c \in Classifier |-> Loaded'[c]]
    BY DEF Loaded
  <2>3. Loaded' = Loaded
    BY <2>1, <2>2
  <2> QED
    BY <1>1, <2>3
<1>2. CASE UNCHANGED <<row, examples>>
  BY <1>1, <1>2 DEF Contents!vars
<1>3. ASSUME NEW o \in Request, NEW c \in Classifier, InsertRow(o, c)
      PROVE  Contents!Next
  BY <1>3, InsertIsImport DEF Contents!Next
<1>4. ASSUME NEW o \in Request, UpdateRow(o)
      PROVE  Contents!Next
  <2>1. req[o].target \in Classifier
    BY <1>4, UpdateRowTrain
  <2> QED
    BY <1>4, <2>1, UpdateIsTrainOrExport DEF Contents!Next
<1>5. ASSUME NEW c \in Classifier, CreateClassifier(c)
      PROVE  UNCHANGED Contents!vars
  <2>1. row \in [Classifier -> Row] /\ row' = [row EXCEPT ![c].exists = TRUE]
    BY <1>5 DEF CreateClassifier, TrainInv, StoreInv, BaseInv, TypeOK
  <2>2. \A q \in Classifier : /\ row'[q].version = row[q].version
                              /\ row'[q].sha = row[q].sha /\ row'[q].base = row[q].base
    BY <2>1 DEF Row
  <2> QED
    BY <1>1, <1>5, <2>2 DEF Contents!vars, CreateClassifier
<1>6. ASSUME NEW c \in Classifier, ChangeExamples(c)
      PROVE  Contents!Next
  BY <1>1, <1>6 DEF Contents!Next, Contents!Learn, ChangeExamples
<1>7. CASE Next
  BY <1>2, <1>3, <1>4, <1>5, <1>6, <1>7 DEF Next, Step, BeginImport, Begin, Abort, TakeLock,
     Lookup, RefuseImport, ReadExamples, CheckVersion, ReadArtifact, ApplyPolicy, Head, Put,
     PutPromoted, PutChecksum, Fetch, Verify, WriteLocal, WriteLocalSum, SetThreshold, tables
<1> QED
  BY <1>2, <1>7 DEF vars

\* Storing an artifact and naming it never show anything but whole imports, trainings
\* and exports to whoever loads a classifier, for any number of requests, each ending
\* after any step, if the files from elsewhere were not trained on a base.
THEOREM ContentImplemented ==
    ASSUME \A a \in Upload : a.base = None
    PROVE  Spec => ContentHolds
<1>1. Init => TrainInv /\ Contents!Init
  BY InitTrain DEF Init, Contents!Init, Loaded, NoRow
<1>2. TrainInv /\ [Next]_vars => TrainInv'
  BY StepTrain
<1>3. TrainInv /\ TrainInv' /\ [Next]_vars => [Contents!Next]_(Contents!vars)
  BY ContentStep DEF TrainInv
<1> QED
  BY <1>1, <1>2, <1>3, PTL DEF Spec, ContentHolds, Contents!Spec
=============================================================================
