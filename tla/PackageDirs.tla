---------------------------- MODULE PackageDirs ----------------------------
(***************************************************************************)
(* The directories the installer keeps for one package and the operations  *)
(* of ScopedRenamer and ScopedDirectoryCreator on them.                    *)
(*                                                                         *)
(*   app       <installation path>/<id>      what a restart will load      *)
(*   plus      <installation path>/<id>+     being unpacked                *)
(*   minus     <installation path>/<id>-     backup, or being deleted      *)
(*   doc       <document path>/<id>          the documents of the package  *)
(*   docMinus  <document path>/<id>-         being deleted                 *)
(*                                                                         *)
(* What is inside a directory matters only as far as: which installation   *)
(* wrote it, and is it still being unpacked, completely unpacked,          *)
(* completed by its .installation-report.yaml, or a leftover: a recursive  *)
(* removal that failed half-way has deleted some of it.                    *)
(***************************************************************************)
CONSTANTS Version, NoDir

Stage == {"unpacking", "unpacked", "reported", "leftover"}

Content == [ver : Version, stage : Stage]

Dir == Content \cup {NoDir}

PackageDirs == [app : Dir, plus : Dir, doc : BOOLEAN, docMinus : BOOLEAN, minus : Dir]

Whole(v) == [ver |-> v, stage |-> "reported"]

Exists(dir) == dir # NoDir

(* what a failed recursiveOperation(safeRemove) leaves *)
Leftover(dir) == [dir EXCEPT !.stage = "leftover"]

(* ScopedRenamer::rename with NameToNameMinus: an old backup is deleted first *)
NameToNameMinus(d) == [d EXCEPT !.minus = d.app, !.app = NoDir]

(* ScopedRenamer::rename with NamePlusToName: what is in the way is deleted first *)
NamePlusToName(d) == [d EXCEPT !.app = d.plus, !.plus = NoDir]

(* ScopedRenamer::undoRename after a completed NameToNameMinus *)
UndoNameToNameMinus(d) == [d EXCEPT !.app = d.minus, !.minus = NoDir]

(* mutant: the report is not written *)
WithReportMutant(dir) == dir

(* InstallationReport::serialize into the unpack directory *)
WithReport(dir) == IF dir.stage = "unpacked" THEN [dir EXCEPT !.stage = "reported"] ELSE dir

DocToDocMinus(d) == [d EXCEPT !.docMinus = TRUE, !.doc = FALSE]

(* PackageDatabase::findManifestsInDir and parseInstalled: <id>+ and <id>-
   are ignored, <id> counts only with its manifest and its report *)
Loadable(d) == Exists(d.app) /\ d.app.stage = "reported"

(* mutant: backups are left alone *)
CleanedUpMutant(d) ==
    [d EXCEPT !.app = IF Loadable(d) THEN d.app ELSE NoDir,
              !.plus = NoDir, !.doc = d.doc /\ Loadable(d), !.docMinus = FALSE]

(* PackageManager::cleanupBrokenInstallations: whatever is not referenced by
   an installed package is deleted from both paths *)
CleanedUp(d) ==
    [d EXCEPT !.app = IF Loadable(d) THEN d.app ELSE NoDir,
              !.plus = NoDir, !.minus = NoDir,
              !.doc = d.doc /\ Loadable(d), !.docMinus = FALSE]

(* the cleanup came to its end before it had got to every entry: a removal that fails
   throws, and a directory that is partly deleted is still there *)
PartlyCleanedUp(d) ==
    [app : {d.app, CleanedUp(d).app}, plus : {d.plus, NoDir}, minus : {d.minus, NoDir},
     doc : {d.doc, CleanedUp(d).doc}, docMinus : {d.docMinus, FALSE}]
============================================================================
