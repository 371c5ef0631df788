----------------------------- MODULE AgentVerbs -----------------------------
(***************************************************************************)
(* The operations of the TypeScript agent SDK as the requests they make:   *)
(* those of the local daemon (client.ts) and those of Writ Cloud           *)
(* (cloud.ts).  Each is one HTTP request; what tells them apart for the    *)
(* transport is the method, the error statuses that are an answer to the   *)
(* caller (allowStatuses), and whether a key is required before anything   *)
(* is sent.                                                                *)
(***************************************************************************)

Methods == {"GET", "POST", "PATCH", "DELETE"}

\* SAFE_METHODS (retry.ts); HEAD and OPTIONS are used by no operation.
SafeMethods == {"GET"}

Verb(api, method, also, lane, names) ==
  {[api |-> api, verb |-> n, method |-> method, also |-> also, lane |-> lane] : n \in names}

Local(api, method, names) == Verb(api, method, {}, "local", names)

\* Create, read, update and delete, as most of the daemon's resources have them.
Resource(api) == Local(api, "GET", {"list", "get"}) \cup Local(api, "POST", {"create"})
                 \cup Local(api, "PATCH", {"update"}) \cup Local(api, "DELETE", {"delete"})

AgentApi == Local("agent", "GET", {"status", "health"})

\* A 409 tells that the run is over: an answer, not an error.
RunsApi == Local("runs", "GET", {"list", "get", "results", "data", "dataCsv", "events"})
           \cup Verb("runs", "POST", {409}, "local", {"cancel"})

\* With wait, a 504 tells that the run goes on.
WorkflowsApi == Resource("workflows")
                \cup Local("workflows", "POST", {"run"})
                \cup Verb("workflows", "POST", {504}, "local", {"run and wait"})
                \cup Verb("workflows", "POST", {409}, "local", {"cancel"})
                \cup Local("workflows", "GET", {"session"})
                \cup Local("workflows", "DELETE", {"clearSession"})

MonitorsApi == Resource("monitors") \cup Local("monitors", "POST", {"run"})
               \cup Local("monitors", "GET", {"changes", "capacity", "recentChanges"})

SelectorsApi == Resource("selectors")
                \cup Local("selectors", "POST", {"toggle", "test", "setBaseline", "clearBaseline"})

ExtractorsApi == Resource("extractors") \cup Local("extractors", "PATCH", {"toggle"})
                 \cup Local("extractors", "POST", {"test"})

AutomationsApi == Resource("automations") \cup Local("automations", "POST", {"enable", "run"})

PersonasApi == Resource("personas") \cup Local("personas", "GET", {"runs"})
               \cup Local("personas", "POST", {"validateTotp", "test2fa"})

SecretsApi == Local("secrets", "GET", {"list", "get"}) \cup Local("secrets", "POST", {"set"})
              \cup Local("secrets", "DELETE", {"delete"})

VaultApi == Local("vault", "GET", {"status"}) \cup Local("vault", "POST", {"lock", "unlock"})

FilesApi == Local("files", "GET", {"list", "get", "content"})
            \cup Local("files", "POST", {"upload", "fromData"})
            \cup Local("files", "DELETE", {"delete"})

DataApi == Local("data", "GET", {"query", "workflowData", "facets", "export", "dataRuns"})
           \cup Local("data", "DELETE", {"deleteWorkflowData"})

CrawlApi == Local("crawl", "GET", {"list", "get", "saved", "savedGet", "savedData"})
            \cup Local("crawl", "POST", {"start", "cancel", "save", "runSaved"})
            \cup Verb("crawl", "POST", {504}, "local", {"runSaved and wait"})
            \cup Local("crawl", "PATCH", {"savedUpdate"})
            \cup Local("crawl", "DELETE", {"savedDelete"})

DatasetsApi == Local("datasets", "GET", {"list", "get", "records", "export", "search", "searchOne"})

KeysApi == Local("keys", "GET", {"list", "get"}) \cup Local("keys", "POST", {"create"})
           \cup Local("keys", "DELETE", {"delete"})

WsTicket == Local("agent", "POST", {"wsTicket"})

LocalVerbs ==
  UNION {AgentApi, RunsApi, WorkflowsApi, MonitorsApi, SelectorsApi, ExtractorsApi, AutomationsApi,
         PersonasApi, SecretsApi, VaultApi, FilesApi, DataApi, CrawlApi, DatasetsApi, KeysApi,
         WsTicket}

-----------------------------------------------------------------------------
(* Writ Cloud.  A metered operation requires an API key before it sends. *)

Metered(api, method, names) == Verb(api, method, {}, "metered", names)

CloudResource(api) ==
  Metered(api, "GET", {"list", "get"}) \cup Metered(api, "POST", {"create"})
  \cup Metered(api, "PATCH", {"update"}) \cup Metered(api, "DELETE", {"delete"})

CloudMonitors == CloudResource("cloud.monitors") \cup Metered("cloud.monitors", "PATCH", {"toggle"})
                 \cup Metered("cloud.monitors", "POST", {"run"})
                 \cup Metered("cloud.monitors", "GET", {"changes", "recentChanges"})

CloudAutomations == CloudResource("cloud.automations")
                    \cup Metered("cloud.automations", "PATCH", {"toggle"})
                    \cup Metered("cloud.automations", "POST", {"run", "test"})
                    \cup Metered("cloud.automations", "GET", {"executions", "forMonitor"})

CloudPersonas == CloudResource("cloud.personas") \cup Metered("cloud.personas", "GET", {"runs"})
                 \cup Metered("cloud.personas", "POST", {"test2fa", "validateTotp"})

CloudBuilds == Metered("cloud.builds", "POST", {"start"}) \cup Metered("cloud.builds", "GET", {"get"})

CloudCrawls == Metered("cloud", "POST", {"crawl"})
               \cup Metered("cloud", "GET", {"crawlStatus", "crawlFiles", "savedCrawlFiles"})

\* Work on both tiers, or without a key only.
KeylessVerbs == Verb("cloud", "POST", {}, "keyless", {"scrape", "map", "crawlKeyless"})
                \cup Verb("cloud", "GET", {}, "keyless", {"quota"})

CloudVerbs == UNION {CloudMonitors, CloudAutomations, CloudPersonas, CloudBuilds, CloudCrawls,
                     KeylessVerbs}

Verbs == LocalVerbs \cup CloudVerbs

\* What the transport is given of an operation.
Request(v) == [safe |-> v.method \in SafeMethods, also |-> v.also, lane |-> v.lane]
=============================================================================
