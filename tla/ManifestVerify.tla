---------------------------- MODULE ManifestVerify ----------------------------
(***************************************************************************)
(* `tfparser verify` (apps/cli/src/main.rs, run_verify) beside the runs of *)
(* ParquetExporter on the same directory: it reads the manifest once, then *)
(* one listed file after another, while exports may start, publish or be   *)
(* cut short in between.                                                   *)
(***************************************************************************)
EXTENDS ParquetExporter

VARIABLES
  vpc,    \* "idle", "reading", or the verdict: "ok", "failed"
  vman,   \* the run whose manifest was read
  vtodo,  \* the listed files still to be read
  vbad,   \* some file read so far did not match (`mismatches` is not empty)
  vsame   \* history: at the read of the manifest all its files were its run's

verifyVars == <<vpc, vman, vtodo, vbad, vsame>>
allVars == <<vars, verifyVars>>

VerifyInit ==
  /\ Init
  /\ vpc = "idle" /\ vman = None /\ vtodo = << >>
  /\ vbad = FALSE /\ vsame = FALSE

\* `read_capped` and `serde_json::from_slice`: no manifest, or one that is not
\* whole, is an error at once.
ReadManifest ==
  LET m == file[ManifestFile] IN
  /\ vpc # "reading"
  /\ IF m = None \/ (m # None /\ len[m][ManifestFile] # Full)
       THEN vpc' = "failed" /\ UNCHANGED <<vman, vtodo, vbad, vsame>>
       ELSE /\ vpc' = "reading"
            /\ vman' = m
            /\ vtodo' = Listed(m)
            /\ vbad' = FALSE
            /\ vsame' = OneRun(m)
  /\ UNCHANGED vars

\* Wrong: only the last file counts (OkMeansOneRun fails).
VerifyFile_LastOnly ==
  /\ vpc = "reading"
  /\ vtodo # << >>
  /\ vtodo' = Tail(vtodo)
  /\ vbad' = ~Matches(vman, Head(vtodo))
  /\ UNCHANGED <<vars, vpc, vman, vsame>>

\* One turn of the loop over `manifest.files`: a mismatch or an unreadable
\* file is noted and the loop goes on.
VerifyFile ==
  /\ vpc = "reading"
  /\ vtodo # << >>
  /\ vtodo' = Tail(vtodo)
  /\ vbad' = (vbad \/ ~Matches(vman, Head(vtodo)))
  /\ UNCHANGED <<vars, vpc, vman, vsame>>

Verdict ==
  /\ vpc = "reading"
  /\ vtodo = << >>
  /\ vpc' = IF vbad THEN "failed" ELSE "ok"
  /\ UNCHANGED <<vars, vman, vtodo, vbad, vsame>>

VerifyNext ==
  \/ Next /\ UNCHANGED verifyVars
  \/ ReadManifest \/ VerifyFile \/ Verdict

VerifySpec == VerifyInit /\ [][VerifyNext]_allVars
                /\ Fairness
                /\ WF_allVars(VerifyFile \/ Verdict)

\* "ok - manifest verified" is true of one moment: although the files are read
\* one by one while another run may be replacing them, all of them were the
\* manifest's own when the manifest was read.
OkMeansOneRun == vpc = "ok" => vsame
=============================================================================
