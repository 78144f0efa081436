----------------------------- MODULE GhTransport -----------------------------
(***************************************************************************)
(* GhClient (github.py): one request is one run of the external `gh`.  A   *)
(* reply is what that run left behind; Raised is the exception the client  *)
(* makes of it, by class, since callers only tell classes apart.  All of   *)
(* them are GitHubErrors.  The size and JSON checks of a reply come after  *)
(* its exit code.                                                          *)
(***************************************************************************)

NoError == "none"

\* What stderr says of a run that exited nonzero.
Diagnostics == SUBSET {"rate limit", "not found", "authentication"}

Replies ==
    [run : {"no cli", "timeout", "oversized", "not json", "wrong shape", "good"}]
    \cup [run : {"failed"}, says : Diagnostics]

\* _raise_api_failure: the first marker in this order decides.
Diagnosis(says) ==
    CASE "rate limit" \in says -> "rate"
      [] "not found" \in says -> "not found"
      [] "authentication" \in says -> "auth"
      [] OTHER -> "transport"

\* _run and _api_json, for a read that is paginated or not.
Raised(reply, paginated) ==
    CASE reply.run = "no cli" -> "auth"
      [] reply.run = "timeout" -> "timeout"
      [] reply.run = "failed" -> Diagnosis(reply.says)
      [] reply.run \in {"oversized", "wrong shape"} -> "schema"
      [] reply.run = "not json" -> IF paginated THEN "partial" ELSE "schema"
      [] OTHER -> NoError

Classes == {"auth", "timeout", "rate", "not found", "transport", "schema",
            "partial", "failed"}

-----------------------------------------------------------------------------
(* dependency_sbom: ask GitHub to generate a report, then fetch it from    *)
(* the URL in the answer, which must be this repository's report.          *)

ReportUrls == {"ours", "absent", "another host", "another repository", "no id"}
Reports == {"document", "pending", "failed", "other"}

UrlAccepted(url) == url = "ours"

\* "available", "pending", or the class of the exception.
SbomReport(generated, url, fetched, report) ==
    CASE Raised(generated, FALSE) # NoError -> Raised(generated, FALSE)
      [] ~UrlAccepted(url) -> "schema"
      [] Raised(fetched, FALSE) # NoError -> Raised(fetched, FALSE)
      [] report = "document" -> "available"
      [] report = "pending" -> "pending"
      [] report = "failed" -> "failed"
      [] OTHER -> "schema"

\* All it can come to.
SbomAnswers ==
    {SbomReport(generated, url, fetched, report) :
        generated \in Replies, url \in ReportUrls,
        fetched \in Replies, report \in Reports}
=============================================================================
