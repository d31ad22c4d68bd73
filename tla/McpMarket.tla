------------------------------ MODULE McpMarket ------------------------------
(***************************************************************************)
(* MCP services that an administrator imports from a market into the       *)
(* console, and what the servers are told of them (handlers/mcp.rs,        *)
(* mcp_market.rs, mcp_imported_merge.rs).  A request looks the market up,  *)
(* asks it over HTTP, reads the rows, and writes rows one at a time; its   *)
(* checks and its writes are separate statements, and only the database's  *)
(* own constraint, UNIQUE(type, config_id), holds across them.  The        *)
(* config_id of an imported row is made of the market and of the URL it    *)
(* was imported with, and outlives a change of the URL.                    *)
(*                                                                         *)
(* A URL stands for its normalized form.  There is one market, with row    *)
(* MarketId, and it stays; tag 0 marks what was written by hand.  Names,   *)
(* headers, tokens and tools are left out, and so is the switch that turns *)
(* all shared servers off.                                                 *)
(***************************************************************************)
EXTENDS Integers, Sequences, FiniteSets

CONSTANTS Urls,      \* where MCP servers listen
          Admins,    \* requests that overlap
          MaxImported, \* bound: rows ever imported
          MaxManual  \* bound: changes of the manual configuration

ASSUME MarketAssumption == MaxImported \in Nat /\ MaxManual \in Nat

MarketId == 1

VARIABLES
    imported, \* rows of mcp_imported: [id, url, tag, on]
    manual,   \* the mcp row: [row, urls]
    ids,      \* rows imported
    edits,
    admin,    \* a request: [pc, todo, done, tag, row, url]
    hubList,  \* global.servers as the servers were last told: set of [url, by]
    upset     \* what went wrong before: requests overlapped, or one failed after it wrote

marketVars == <<imported, manual, ids, edits, admin, hubList, upset>>

NoRequest == [pc |-> "away", todo |-> <<>>, done |-> FALSE, tag |-> 0, row |-> 0, url |-> "none"]

MarketInit ==
    /\ imported = {} /\ ids = 0 /\ edits = 0
    /\ manual \in [row : BOOLEAN, urls : {{}}]
    /\ admin = [k \in Admins |-> NoRequest]
    /\ hubList = {} /\ upset = {}

-----------------------------------------------------------------------------
\* The list of servers

\* A variant: what was merged is not noted as known.
MergedRowsTwice(R, urls) == {r \in R : r.on /\ r.url \notin urls}

\* Enabled rows in the order of their ids; one whose URL is known by then is skipped.
MergedRows(R, urls) ==
    {r \in R : r.on /\ r.url \notin urls /\ \A q \in R : q.on /\ q.url = r.url => r.id <= q.id}

MergedServers(R, urls) ==
    {[url |-> u, by |-> 0] : u \in urls} \cup {[url |-> r.url, by |-> r.id] : r \in MergedRows(R, urls)}

\* What a user may choose for an agent: without a row of kind mcp, merged with an empty one.
Offered == MergedServers(imported, manual.urls)

\* notify_system_config_changed at the end of a request.  Without a row of kind mcp the bundle
\* has no such block, and the servers keep the list they have.
Notifies(R, m) == hubList' = IF m.row THEN MergedServers(R, m.urls) ELSE hubList

\* Another request is between what it read and what it writes.
Disturbs(k) ==
    upset' = IF \E j \in Admins \ {k} : admin[j].pc \in {"insert", "create", "update"}
             THEN upset \cup {"overlap"} ELSE upset

Becomes(k, a) == admin' = [admin EXCEPT ![k] = a]

-----------------------------------------------------------------------------
\* The manual configuration: one statement, and the announcement

EditManual(k, urls) ==
    /\ edits < MaxManual /\ edits' = edits + 1
    /\ manual.row /\ manual' = [manual EXCEPT !.urls = urls]
    /\ Notifies(imported, manual')
    /\ admin[k].pc = "away" /\ Disturbs(k)
    /\ UNCHANGED <<imported, ids, admin>>

-----------------------------------------------------------------------------
\* import_service

\* The market is looked up; its connection is used after that.
BeginImport(k) ==
    /\ admin[k].pc = "away"
    /\ Becomes(k, [NoRequest EXCEPT !.pc = "detail", !.tag = MarketId])
    /\ UNCHANGED <<imported, manual, ids, edits, hubList, upset>>

\* The endpoints a service can show after fetch_service_detail: one for each transport and URL.
EndpointKinds == {"sse", "streamablehttp"}
Details == SUBSET (Urls \X EndpointKinds)

\* The endpoints with the URL that was asked for, or, when none was, the only one there is: one
\* URL, as often as it has transports.
SelectedUrls(found, want) ==
    IF want # "none" THEN [n \in 1 .. Cardinality({e \in found : e[1] = want}) |-> want]
    ELSE IF Cardinality(found) = 1 THEN <<(CHOOSE e \in found : TRUE)[1]>> ELSE <<>>

Selections == {SelectedUrls(found, want) : found \in Details, want \in Urls \cup {"none"}}

\* The detail has come; which URLs are known is read once, before the first row is written.
\* Endpoints with a known URL are skipped, and all of them have one URL.  Without an endpoint
\* to import the request ends with an error.
DetailComes(k, selected) ==
    LET known == manual.urls \cup {r.url : r \in imported}
        new == IF \E n \in DOMAIN selected : selected[n] \in known THEN <<>> ELSE selected IN
    /\ admin[k].pc = "detail"
    /\ Becomes(k, IF new = <<>> THEN NoRequest ELSE [admin[k] EXCEPT !.pc = "insert", !.todo = new])
    /\ UNCHANGED <<imported, manual, ids, edits, hubList, upset>>

\* The constraint of the table
TagTaken(tag) == \E r \in imported : r.tag = tag

NewRows(tag) == imported \cup {[id |-> ids + 1, url |-> tag[2], tag |-> tag, on |-> TRUE]}

\* The statement fails: the request is answered with an error, the rows it wrote before are
\* there, and nobody is told of them.
Refused(k, tag) ==
    /\ TagTaken(tag)
    /\ Becomes(k, NoRequest)
    /\ upset' = upset \cup
                 IF admin[k].done THEN {"half"}
                 ELSE IF "overlap" \in upset \/ \E r \in imported : r.tag = tag /\ r.url # tag[2] THEN {}
                 ELSE {"refused"}
    /\ UNCHANGED <<imported, manual, ids, edits, hubList>>

InsertNext(k) ==
    LET tag == <<admin[k].tag, Head(admin[k].todo)>> IN
    /\ admin[k].pc = "insert" /\ admin[k].todo # <<>>
    /\ \/ Refused(k, tag)
       \/ /\ ~ TagTaken(tag) /\ ids < MaxImported /\ ids' = ids + 1
          /\ imported' = NewRows(tag)
          /\ Becomes(k, [admin[k] EXCEPT !.todo = Tail(@), !.done = TRUE])
          /\ Disturbs(k)
          /\ UNCHANGED <<manual, edits, hubList>>

EndImport(k) ==
    /\ admin[k].pc = "insert" /\ admin[k].todo = <<>>
    /\ Becomes(k, NoRequest) /\ Notifies(imported, manual)
    /\ UNCHANGED <<imported, manual, ids, edits, upset>>

-----------------------------------------------------------------------------
\* Imported services written by hand

\* A variant: rows that are off do not count.
UrlIsFreeOfOn(url, id) == \A r \in imported : r.url = url /\ r.on => r.id = id

\* url_hash_exists: no other row has the URL.
UrlIsFree(url, id) == \A r \in imported : r.url = url => r.id = id

\* The body may name a market, whether it is there or not.
ChecksCreate(k, id, url) ==
    /\ admin[k].pc = "away" /\ UrlIsFree(url, 0)
    /\ Becomes(k, [NoRequest EXCEPT !.pc = "create", !.tag = id, !.url = url])
    /\ UNCHANGED <<imported, manual, ids, edits, hubList, upset>>

CreateImported(k) ==
    LET tag == <<admin[k].tag, admin[k].url>> IN
    /\ admin[k].pc = "create"
    /\ \/ Refused(k, tag)
       \/ /\ ~ TagTaken(tag) /\ ids < MaxImported /\ ids' = ids + 1
          /\ imported' = NewRows(tag) /\ Notifies(NewRows(tag), manual)
          /\ Becomes(k, NoRequest) /\ Disturbs(k)
          /\ UNCHANGED <<manual, edits>>

\* The row keeps its config_id.
ChecksUpdate(k, r, url) ==
    /\ admin[k].pc = "away" /\ UrlIsFree(url, r.id)
    /\ Becomes(k, [NoRequest EXCEPT !.pc = "update", !.row = r.id, !.url = url])
    /\ UNCHANGED <<imported, manual, ids, edits, hubList, upset>>

\* A row that is gone by now is not found.
UpdateImported(k, on) ==
    LET R == {IF r.id = admin[k].row THEN [r EXCEPT !.url = admin[k].url, !.on = on] ELSE r : r \in imported}
        there == \E r \in imported : r.id = admin[k].row IN
    /\ admin[k].pc = "update"
    /\ imported' = R /\ Becomes(k, NoRequest)
    /\ IF there THEN Notifies(R, manual) /\ Disturbs(k) ELSE UNCHANGED <<hubList, upset>>
    /\ UNCHANGED <<manual, ids, edits>>

DeleteImported(r) ==
    /\ imported' = imported \ {r} /\ Notifies(imported \ {r}, manual)
    /\ UNCHANGED <<manual, ids, edits, admin, upset>>

MarketNext ==
    \/ \E k \in Admins :
          \/ \E urls \in SUBSET Urls : EditManual(k, urls)
          \/ BeginImport(k)
          \/ \E selected \in Selections : DetailComes(k, selected)
          \/ InsertNext(k) \/ EndImport(k)
          \/ \E id \in {0, MarketId}, url \in Urls : ChecksCreate(k, id, url)
          \/ CreateImported(k)
          \/ \E r \in imported, url \in Urls : ChecksUpdate(k, r, url)
          \/ \E on \in BOOLEAN : UpdateImported(k, on)
    \/ \E r \in imported : DeleteImported(r)

MarketSpec == MarketInit /\ [][MarketNext]_marketVars

-----------------------------------------------------------------------------
\* Properties

MarketTypeOK ==
    /\ \A r \in imported : r.id \in 1 .. ids /\ r.url \in Urls /\ r.on \in BOOLEAN
    /\ manual.urls \subseteq Urls /\ ids \in 0 .. MaxImported /\ edits \in 0 .. MaxManual
    /\ \A k \in Admins : admin[k].pc \in {"away", "detail", "insert", "create", "update"}
    /\ upset \subseteq {"overlap", "half", "refused"}

\* No server is told of twice, whatever rows there are (mcp_imported_merge.rs: "将已启用的
\* mcp_imported 合并进人工 MCP 配置").
ToldOnce == \A s, t \in hubList : s.url = t.url => s = t

\* "已存在相同 URL 的导入服务": two rows have a URL only when two requests overlapped.
UrlOnce == "overlap" \notin upset => \A r, q \in imported : r.url = q.url => r = q

\* An import is refused by the database only when a row kept the tag of a URL it gave up, or
\* when requests overlapped.
RefusedForATag == "refused" \notin upset

\* What a user can choose, the servers were told of: unless an import failed half way, or
\* there is no manual configuration to merge with (system_configs.rs: "聚合系统级配置").
OfferedIsTold ==
    upset = {} /\ manual.row /\ (\A k \in Admins : admin[k].pc = "away") => Offered = hubList

MarketIsOne == ToldOnce /\ UrlOnce /\ RefusedForATag /\ OfferedIsTold

=============================================================================
