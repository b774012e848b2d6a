--------------------------- MODULE DatabaseSchema ---------------------------
(***************************************************************************)
(* The tables of the CA database and their migration when a dump of an     *)
(* older version is read (services/database/schema.rs, from_sql_dump).     *)
(* The migration is in memory: a step that fails leaves the dump as it is. *)
(*                                                                         *)
(* Of a table, "base" stands for the columns it was made with; the others  *)
(* are those that a step adds.  A dump is of any version: of this program, *)
(* or as an older or a newer one wrote it.                                 *)
(***************************************************************************)
EXTENDS Naturals, Sequences, TLC

CONSTANT Row    \* rows of the two tables of certificates

VARIABLES
    dump,   \* CA_Database: version, columns of each table, where each row is
    opened  \* the database in memory, and whether a step failed; or NotOpen

schemaVars == <<dump, opened>>

\* DEFAULT_SCHEMA_VERSION
Version == 21

\* The tables of `new`.
ConfigColumns ==
    {"base", "ou", "ca_public_store", "ca_private_store", "ca_backup_store", "ca_aws_region",
     "crl_batch_enabled", "openvpn_template_import", "web_server_days", "vpn_server_days",
     "vpn_client_days", "device_days"}

CertColumns ==
    {"base", "cert_type", "not_before", "key_type", "key_size", "issuer", "san", "ignored_at",
     "ignored_by", "ignored_reason", "ignored_note", "has_private_key", "has_chain", "deleted_at",
     "published_at"}

ExternalColumns ==
    {"base", "cert_type", "not_before", "key_type", "key_size", "san", "has_private_key", "has_chain"}

LaterTables == {"crl_metadata", "crl_batch", "openvpn_template", "dkim_key", "broker_certs"}

Table == {"config", "certs", "external", "csr", "openvpn_profile", "brokers"} \cup LaterTables

Current ==
    [config |-> ConfigColumns, certs |-> CertColumns, external |-> ExternalColumns,
     csr |-> {"base", "csr_pem"}, openvpn_profile |-> {"base", "serial", "generated"},
     brokers |-> {"base", "issuer_state"}] @@ [t \in LaterTables |-> {"base"}]

-----------------------------------------------------------------------------
(* migrate *)

Add(columns) == [op |-> "add", columns |-> columns]
Drop(columns) == [op |-> "drop", columns |-> columns]
CreateTable(columns) == [op |-> "create", columns |-> columns]
CreateTables(tables) == [t \in tables |-> CreateTable({"base"})]
Untouched == [op |-> "keep", columns |-> {}]

StepsTo7 == <<
    "config" :> Add({"ou"}),
    "config" :> Add({"ca_public_store", "ca_private_store", "ca_backup_store"}),
    "certs" :> Add({"issuer"}),
    "csr" :> CreateTable({"base"}),
    "external" :> CreateTable({"base"}) @@ "certs" :> Drop({"issuer"}),
    "certs" :> Add({"cert_type", "not_before", "key_type", "key_size", "issuer", "san"})
        @@ "external" :> Add({"cert_type", "not_before", "key_type", "key_size", "san"})
        @@ "csr" :> Add({"csr_pem"})
        @@ CreateTables({"crl_metadata", "openvpn_template", "openvpn_profile"}) >>

StepsTo14 == <<
    "certs" :> Add({"ignored_at", "ignored_by", "ignored_reason", "ignored_note"}),
    "certs" :> Add({"has_private_key", "has_chain"}) @@ "external" :> Add({"has_private_key", "has_chain"}),
    CreateTables({"dkim_key"}),
    "openvpn_profile" :> Add({"serial"}),
    "openvpn_profile" :> Add({"generated"}),
    "config" :> Add({"ca_aws_region"}),
    "certs" :> Add({"deleted_at"}) >>

StepsTo20 == <<
    "config" :> Add({"crl_batch_enabled"}) @@ CreateTables({"crl_batch"}),
    "config" :> Add({"openvpn_template_import"}),
    "brokers" :> CreateTable({"base", "issuer_state"}),
    "certs" :> Add({"published_at"}),
    CreateTables({"broker_certs"}),
    "config" :> Add({"web_server_days", "vpn_server_days", "vpn_client_days", "device_days"}) >>

\* Mutant: the column is added without a look.
AddIssuerState(tables) == "brokers" :> Add({"issuer_state"})

\* v20 to v21: unless has_column.
StepTo21(tables) ==
    "brokers" :> IF "issuer_state" \in tables["brokers"] THEN Untouched ELSE Add({"issuer_state"})

StepFrom(v, tables) ==
    LET step == IF v = 20 THEN StepTo21(tables) ELSE (StepsTo7 \o StepsTo14 \o StepsTo20)[v]
    IN  step @@ [t \in Table |-> Untouched]

\* SQLite adds no column twice and none to a table that is not there, and drops only what is.
Fits(columns, do) ==
    CASE do.op = "add"  -> columns # {} /\ columns \cap do.columns = {}
      [] do.op = "drop" -> do.columns \subseteq columns
      [] OTHER          -> TRUE

\* CREATE TABLE IF NOT EXISTS leaves a table as it is.
Altered(columns, do) ==
    CASE do.op = "add"                      -> columns \cup do.columns
      [] do.op = "drop"                     -> columns \ do.columns
      [] do.op = "create" /\ columns = {}   -> do.columns
      [] OTHER                              -> columns

\* v5 to v6: the rows with an issuer move to external_certificate.
MovedRow(place) == IF place = "imported" THEN "external" ELSE place

-----------------------------------------------------------------------------
(* What other versions left *)

\* By a program of version v, whose brokers table has no issuer_state yet.
Older[v \in 1..Version - 1] ==
    IF v = 1 THEN [t \in Table |-> IF t \in {"config", "certs"} THEN {"base"} ELSE {}]
    ELSE LET before == Older[v - 1]
             step == StepFrom(v - 1, before)
         IN  [t \in Table |-> Altered(before[t], step[t]) \ (IF t = "brokers" THEN {"issuer_state"} ELSE {})]

Newer == [Current EXCEPT !["config"] = @ \cup {"later"}]

\* Where a program of version v keeps a certificate: issued here or, from v4, imported.
PlacesOf(v) == {"none", "certs"} \cup (IF v \in {4, 5} THEN {"imported"} ELSE IF v > 5 THEN {"external"} ELSE {})

NotOpen == [version |-> 0]

SchemaInit ==
    /\ \E v \in 1..Version + 1, rows \in [Row -> {"none", "certs", "imported", "external"}] :
        /\ \A r \in Row : rows[r] \in PlacesOf(v)
        /\ dump = [version |-> v, rows |-> rows,
                   tables |-> IF v < Version THEN Older[v] ELSE IF v = Version THEN Current ELSE Newer]
    /\ opened = NotOpen

\* from_sql_dump, as far as the version.
FromSqlDump ==
    /\ opened = NotOpen
    /\ opened' = [version |-> dump.version, tables |-> dump.tables, rows |-> dump.rows, ok |-> TRUE]
    /\ UNCHANGED dump

Migrate ==
    /\ opened # NotOpen /\ opened.ok /\ opened.version < Version
    /\ LET v == opened.version
           step == StepFrom(v, opened.tables)
       IN  opened' = IF \A t \in Table : Fits(opened.tables[t], step[t])
                     THEN [version |-> v + 1, ok |-> TRUE,
                           tables |-> [t \in Table |-> Altered(opened.tables[t], step[t])],
                           rows |-> [r \in Row |-> IF v = 5 THEN MovedRow(opened.rows[r]) ELSE opened.rows[r]]]
                     ELSE [opened EXCEPT !.ok = FALSE]
    /\ UNCHANGED dump

\* store_ca_database, of a database that was read; the client goes.
SaveDump ==
    /\ opened # NotOpen /\ opened.ok /\ opened.version >= Version
    /\ dump' = [version |-> opened.version, tables |-> opened.tables, rows |-> opened.rows]
    /\ opened' = NotOpen

SchemaNext == FromSqlDump \/ Migrate \/ SaveDump

-----------------------------------------------------------------------------
(* Properties *)

(* However old the database, opening it succeeds and leaves the tables of  *)
(* today, and every row where it was or, imported, in its new table; a     *)
(* database a newer program wrote is opened as it is.                      *)
MigrationSound ==
    opened # NotOpen =>
        /\ opened.ok
        /\ opened.version = Version => opened.tables = Current
        /\ opened.version > Version => \A t \in Table : Current[t] \subseteq opened.tables[t]
        /\ \A r \in Row : /\ (opened.rows[r] = "none") = (dump.rows[r] = "none")
                          /\ (opened.rows[r] = "certs") = (dump.rows[r] = "certs")
                          /\ opened.version > 5 => opened.rows[r] # "imported"

=============================================================================
