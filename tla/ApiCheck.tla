------------------------------- MODULE ApiCheck -------------------------------
(***************************************************************************)
(* check_apis_on_cluster: which of the wanted APIs may the user not call?  *)
(* Before version 1.20 each of them is called, and the error says so; from *)
(* 1.20 on the capabilities of the user are read page by page, and what    *)
(* none of them grants is reported.  A version that is not 1.x, or that is *)
(* not known, raises.                                                      *)
(***************************************************************************)
EXTENDS Integers

CONSTANTS
  Apis,         \* the names of APIs
  MaxPages      \* bound: pages of capabilities

VARIABLES
  branch,       \* "each", "list" or "neither", by the version
  api_list,     \* the APIs that are wanted
  permitted,    \* those the user may call
  untried,      \* those not called yet
  shown,        \* what the pages have granted so far
  pages,        \* how many there were
  failed_apis,
  unanswered,   \* those whose request failed for another reason
  outcome       \* "none", "returned", "raised"

apisVars == <<branch, api_list, permitted, untried, shown, pages, failed_apis, unanswered, outcome>>

ApisInit ==
  /\ branch \in {"each", "list", "neither"}
  /\ api_list \in SUBSET Apis \ {{}} /\ permitted \in SUBSET Apis
  /\ untried = api_list /\ shown = {} /\ pages = 0
  /\ failed_apis = (IF branch = "list" THEN api_list ELSE {})
  /\ unanswered = {} /\ outcome = "none"

\* API_NOT_FOUND or INSUFFICIENT_PRIVS, or any other answer.
CheckOne(api) ==
  /\ branch = "each" /\ outcome = "none" /\ api \in untried
  /\ untried' = untried \ {api}
  /\ failed_apis' = failed_apis \cup ({api} \ permitted)
  /\ outcome' = IF untried' = {} THEN "returned" ELSE "none"
  /\ UNCHANGED <<branch, api_list, permitted, shown, pages, unanswered>>

\* The request fails, and the API counts as one that may be called.
CheckOneFails(api) ==
  /\ branch = "each" /\ outcome = "none" /\ api \in untried
  /\ untried' = untried \ {api}
  /\ unanswered' = unanswered \cup {api}
  /\ outcome' = IF untried' = {} THEN "returned" ELSE "none"
  /\ UNCHANGED <<branch, api_list, permitted, shown, pages, failed_apis>>

\* The page grants some APIs; after the last one all are granted.
IsCapabilityPage(part, last) ==
  /\ branch = "list" /\ outcome = "none" /\ pages < MaxPages
  /\ part \subseteq permitted
  /\ shown' = shown \cup part /\ pages' = pages + 1
  /\ (last => shown' = permitted) /\ (pages' = MaxPages => last)

\* Mutant: one page is read.
FirstCapabilities(part, last) ==
  /\ IsCapabilityPage(part, last)
  /\ failed_apis' = failed_apis \ part
  /\ outcome' = "returned"
  /\ UNCHANGED <<branch, api_list, permitted, untried, unanswered>>

Capabilities(part, last) ==
  /\ IsCapabilityPage(part, last)
  /\ failed_apis' = failed_apis \ part
  /\ outcome' = IF last THEN "returned" ELSE "none"
  /\ UNCHANGED <<branch, api_list, permitted, untried, unanswered>>

\* The request fails; or the list of names has a blank before a wanted one, which is
\* looked for without it and removed with it.
CapabilitiesFail ==
  /\ branch = "list" /\ outcome = "none"
  /\ outcome' = "raised"
  /\ UNCHANGED <<branch, api_list, permitted, untried, shown, pages, failed_apis, unanswered>>

\* "Unsupported Clustered Data ONTAP version", or "Data ONTAP API version could not be
\* determined"
VersionRaises ==
  /\ branch = "neither" /\ outcome = "none"
  /\ outcome' = "raised"
  /\ UNCHANGED <<branch, api_list, permitted, untried, shown, pages, failed_apis, unanswered>>

ApisNext ==
  \/ \E api \in Apis : CheckOne(api) \/ CheckOneFails(api)
  \/ \E part \in SUBSET Apis, last \in BOOLEAN : Capabilities(part, last)
  \/ CapabilitiesFail
  \/ VersionRaises

ApisSpec == ApisInit /\ [][ApisNext]_apisVars

\* "Returns a list of failed apis": what is returned are the wanted APIs that the user
\* may not call, however the capabilities are spread over pages; where each API is
\* called, one whose request failed otherwise may be missing, and no other.
ReportIsRight ==
  outcome = "returned" =>
    /\ failed_apis \subseteq api_list \ permitted
    /\ (api_list \ permitted) \ failed_apis \subseteq unanswered
===============================================================================
