---------------------- MODULE ClassifierArtifactsProps ----------------------
(***************************************************************************)
(* What is claimed of classifier artifacts, over ClassifierArtifacts.      *)
(***************************************************************************)
EXTENDS ClassifierArtifacts

\* Whatever races and crashes between object storage and the database, a
\* classifier never names an artifact whose bytes are not those of its checksum,
\* so that loading, promoting and downloading it cannot be refused (_put,
\* create_imported_classifier, update_classifier_artifact).
RowsNameTheirObject ==
    \A c \in Classifier :
        /\ row[c].version # None => /\ row[c].sha # None
                                    /\ object[row[c].version] = row[c].sha
        /\ row[c].base # None => object[row[c].base] = row[c].baseSha

\* An artifact under a version never changes (IfNoneMatch in _put).
StoredOnce == [][\A v \in Version : object[v] # None => object'[v] = object[v]]_vars

TrainedHere(r) == r.sha # None /\ r.sha.base = r.base

\* A classifier never goes back to an artifact trained from older examples, or to
\* the imported one: neither an older training nor an export that has read the
\* artifact before a training overwrites a newer one (train_classifier,
\* export_artifact).
TrainingKept ==
    [][\A c \in Classifier : TrainedHere(row[c]) =>
           /\ TrainedHere(row'[c])
           /\ row'[c].sha.examples >= row[c].sha.examples]_vars

\* What an artifact says, whatever its bytes.
Content == {a \in Artifact : a.form = "canonical"}
Meaning(a) == [a EXCEPT !.form = "canonical"]

\* What load_artifact_from_classifier gives of each: None when it raises.
Loaded ==
    [c \in Classifier |->
        IF row[c].version # None /\ object[row[c].version] = row[c].sha
        THEN Meaning(row[c].sha) ELSE None]

Contents == INSTANCE ClassifierContent WITH
                content <- Loaded,
                origin <- [c \in Classifier |-> row[c].base]

\* Storing an artifact and naming it are two steps, and a request may end between any
\* two, yet whoever loads a classifier sees whole imports, trainings and exports, in
\* an order in which none is undone (_train_classifier, _export_artifact).
ContentHolds == Contents!Spec

\* A promotion that reports success leaves a whole pair, and a materialization
\* that does leaves the pair promoted at that moment: they exclude each other
\* (CLASSIFIER_PROMOTION_LOCK).
WholeWhenReported ==
    [][\A o \in Request :
        /\ PutChecksum(o) => promoted'.artifact = promoted'.checksum
        /\ WriteLocalSum(o) /\ req[o].kind = "materialize" =>
               /\ output'["materialized"] = promoted
               /\ promoted.artifact = promoted.checksum]_vars

Torn == promoted.artifact # promoted.checksum

\* A promotion that stopped between the artifact and its checksum is repaired by
\* promoting again, the same classifier or another (promote).
PromotionRepaired == Torn ~> ~Torn

\* An import that stopped after it stored its artifact is completed by importing
\* the file again: the object it meets is its own (_matching_existing).
ImportCompleted ==
    \A a \in Upload :
        object[a.version] = a ~> \E c \in Classifier : Names(c, a.version)
=============================================================================
