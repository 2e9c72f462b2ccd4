-------------------------------- MODULE Share --------------------------------
(***************************************************************************)
(* The scoped sharing export (internal/report/share.go, share_rules.go): a *)
(* profile selects worksheets and columns of the ordinary export, and with *)
(* pseudonymisation every identifying value becomes a keyed token.         *)
(*                                                                         *)
(* A shared cell is [as, of]: as = Unknown for a value written as it is,   *)
(* else <<kind, scope>> of the token that hides it.  HMAC is taken to be   *)
(* injective.  Free text is the set of the words it mentions.              *)
(***************************************************************************)
EXTENDS Workbook

CONSTANT ShortNames     \* the names of fewer than four characters, which are never remembered

Kept(v) == [as |-> Unknown, of |-> v]
Token(kind, scope, v) == [as |-> <<kind, scope>>, of |-> v]

\* shareScope: tokens are bound to the run unless exports are linked.
Scope(run, link) == IF link THEN "estate" ELSE run.id

\* columnRules: the kind of token a column's values become.
ColumnKind(header) ==
    CASE header = "VM" -> "vm" [] header = "Host" -> "host" [] header = "Cluster" -> "cluster"
      [] header = "Datacenter" -> "dc" [] header = "Network" -> "net" [] header = "PortGroup" -> "net"
      [] header = "DVS" -> "sw" [] header = "Context" -> "ctx" [] header \in {"Server", "Endpoint"} -> "ep"
      [] header \in {"Folder", "Path", "ResourcePool", "Backing"} -> "path"
      [] header \in {"VMID", "ObjectID", "DatastoreID", "Address", "Key"} -> "id"
      [] header \in {"VMUUID", "SMBIOS", "UUID"} -> "uuid"
      [] header = "Annotation" -> "text" [] header = "VApp" -> "name" [] header = "Certificate" -> "text"
      [] header = "Error" -> "scrub"
      [] OTHER -> "keep"

\* ruleFor: sheetRules override columnRules where the same header means something else.
RuleFor(sheet, header) ==
    CASE sheet = "vCluster" /\ header = "Name" -> "cluster" [] sheet = "vDatastore" /\ header = "Name" -> "ds"
      [] sheet = "vSnapshot" /\ header = "Name" -> "snap" [] sheet = "vLicense" /\ header = "Name" -> "name"
      [] sheet = "vMultiPath" /\ header = "Disk" -> "id" [] sheet = "vLicense" /\ header = "Key" -> "keep"
      [] OTHER -> ColumnKind(header)

\* The two profiles: full-inventory takes every worksheet and column.
SizingSheets == {"vInfo", "vDisk", "vCluster", "vHost", "vDatastore", "vsfleetCoverage"}
SizingColumns(sheet) ==
    CASE sheet = "vInfo" -> {"VM", "CPUs", "Memory", "InUse", "Datacenter", "Cluster", "Host", "VMID", "Context"}
      [] sheet = "vDisk" -> {"VM", "DiskKey", "CapacityMiB", "Thin", "Path", "VMID", "Context"}
      [] sheet = "vCluster" -> {"Name", "TotalCpu", "NumCpuCores", "TotalMemory", "HAEnabled", "Datacenter", "Context"}
      [] sheet = "vHost" -> {"Host", "Datacenter", "Cluster", "Maintenance", "Speed", "Cores", "MemoryMB", "Context"}
      [] sheet = "vDatastore" -> {"Name", "Datacenter", "CapacityMiB", "FreeMiB", "Accessible", "Context"}
      [] OTHER -> Headers(sheet)
ProfileSheets(profile, wb) == IF profile = "sizing-summary" THEN SizingSheets ELSE DOMAIN wb
ProfileColumns(profile, sheet) == IF profile = "sizing-summary" THEN SizingColumns(sheet) ELSE Headers(sheet)

\* prepareShare and columnIndexes: a worksheet or column the export does not produce is refused, and so is
\* linking without pseudonymising; WriteShared refuses a missing or short key.
ShareRefused(wb, opts) ==
    \/ opts.profile \notin {"sizing-summary", "full-inventory"}
    \/ opts.link /\ ~opts.pseudonymize
    \/ opts.pseudonymize /\ ~opts.key
    \/ \E s \in ProfileSheets(opts.profile, wb) : s \notin DOMAIN wb \/ ~(ProfileColumns(opts.profile, s) \subseteq wb[s].cols)

\* project.
Project(wb, profile) ==
    [s \in ProfileSheets(profile, wb) |->
        [cols |-> ProfileColumns(profile, s),
         rows |-> [i \in DOMAIN wb[s].rows |-> Restrict(wb[s].rows[i], ProfileColumns(profile, s) \cap DOMAIN wb[s].rows[i])]]]

\* A mistake: the datastore in brackets is hidden as one more segment of the path.
PathOpaque(header, scope, v) ==
    IF header \in {"Folder", "ResourcePool"} THEN [i \in DOMAIN v |-> Token("path", scope, v[i])]
    ELSE [ds |-> Token("path", scope, v.ds), dir |-> Token("path", scope, v.dir), leaf |-> Token("path", scope, v.leaf)]
\* path: segment by segment; the datastore in brackets has the token of the Datastore columns.  Folders and
\* pools are paths without one.
PathCell(header, scope, v) ==
    IF header \in {"Folder", "ResourcePool"} THEN [i \in DOMAIN v |-> Token("path", scope, v[i])]
    ELSE [ds |-> Token("ds", scope, v.ds), dir |-> Token("path", scope, v.dir), leaf |-> Token("path", scope, v.leaf)]

\* cell and value, the first pass.
SharedCell(sheet, header, scope, v) ==
    LET kind == RuleFor(sheet, header)
    IN  IF v = Unknown \/ kind \in {"keep", "scrub"} THEN Kept(v)
        ELSE IF kind = "path" THEN PathCell(header, scope, v)
        ELSE Token(kind, scope, v)

\* remember: the first pass collects the names it has hidden, of four characters or more; IDs, UUIDs and
\* annotations are not collected.
Remembered(sheet, header, v) ==
    LET kind == RuleFor(sheet, header)
    IN  IF v = Unknown \/ kind \in {"keep", "scrub", "id", "uuid", "text"} THEN {}
        ELSE IF kind = "path" THEN (IF header \in {"Folder", "ResourcePool"} THEN {} ELSE {<<v.ds, "ds">>})
        ELSE {<<v, kind>>}
RowDictionary(sheet, row) == UNION {Remembered(sheet, h, row[h]) : h \in DOMAIN row}
Dictionary(wb) ==
    {e \in UNION {UNION {RowDictionary(s, r) : r \in ToSet(wb[s].rows)} : s \in DOMAIN wb} : e[1] \notin ShortNames}

\* The second pass replaces every remembered name in free text (under some kind it was remembered with).
Scrubbed(words, dict, scope) ==
    {LET known == {e \in dict : e[1] = w}
     IN  IF known = {} THEN Kept(w) ELSE Token((CHOOSE e \in known : TRUE)[2], scope, w) : w \in words}

SharedRow(sheet, row, dict, scope) ==
    [h \in DOMAIN row |->
        IF RuleFor(sheet, h) = "scrub" THEN Scrubbed(row[h], dict, scope)
        ELSE SharedCell(sheet, h, scope, row[h])]

\* transformSheet twice over every worksheet.
Pseudonymized(wb, scope) ==
    LET dict == Dictionary(wb)
    IN  [s \in DOMAIN wb |-> [cols |-> wb[s].cols,
                              rows |-> [i \in DOMAIN wb[s].rows |-> SharedRow(s, wb[s].rows[i], dict, scope)]]]

\* shareGaps: a run that is not complete, and the context and kind of everything that did not answer; the
\* plan is partial when there is any.
ShareGaps(run) ==
    {<<Unknown, "run", s>> : s \in {run.status} \ {"complete"}}
    \cup {<<c.name, "vm", c.vm>> : c \in {d \in ToSet(run.contexts) : d.vm \notin Answered}}
    \cup UNION {{<<c.name, k, c.coll[k]>> : k \in {q \in DOMAIN c.coll : c.coll[q] \notin Answered \cup {"not recorded"}}} : c \in ToSet(run.contexts)}

\* WriteShared: the worksheets, and the manifest of contexts and gaps.
Shared(run, opts) ==
    LET wb == Project(RvtoolsSheets(run), opts.profile)
        scope == Scope(run, opts.link)
    IN  [sheets |-> IF opts.pseudonymize THEN Pseudonymized(wb, scope) ELSE wb,
         plain |-> wb, gaps |-> ShareGaps(run), partial |-> ShareGaps(run) # {}]
=============================================================================
