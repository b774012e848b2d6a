---------------------------- MODULE CsrCommands ----------------------------
(***************************************************************************)
(* Certificate signing requests and external certificates: commands/csr.rs *)
(* of the command line and of the app, and import of a certificate another *)
(* CA signed.  CSR_<cn> holds the private key until the certificate comes, *)
(* EXT_<cn> the certificate with its key.  A row of the csr table is its   *)
(* id, name and status.                                                    *)
(***************************************************************************)
EXTENDS CommandCalls

CsrItem(c) == <<"CSR", c>>
ExtItem(c) == <<"EXT", c>>
Pending(i, c) == <<"csr", i, c, "Pending">>
Complete(i, c) == <<"csr", i, c, "Complete">>
External(c) == <<"ext", c>>

CsrRows(d) == {r \in d : r[1] = "csr"}

\* Ids of the csr table; MaxCsr bounds how many rows there are at once.
MaxCsr == 3
FreshIds == (1..MaxCsr) \ {r[2] : r \in CsrRows(db)}
NextId == CHOOSE i \in FreshIds : \A j \in FreshIds : i <= j

NewCsr(c) == <<Create(CsrItem(c)), Store({}, {Pending(NextId, c)})>>

\* Mutant: nobody looks whether there is one.
CreateAnyway(c) == FreshIds # {} /\ InApp("create_csr", NewCsr(c))

\* create_csr: refused when the item exists.
CreateCsr(c) ==
    /\ vault.items[CsrItem(c)] = 0 /\ FreshIds # {}
    /\ InApp("create_csr", NewCsr(c))

\* generate_csr_from_cert: a new key for an external certificate.
GenerateCsrFromCert(c) ==
    /\ External(c) \in db /\ FreshIds # {}
    /\ vault.items[CsrItem(c)] = 0 /\ vault.items[ExtItem(c)] = 1
    /\ InApp("generate_csr_from_cert", NewCsr(c))

\* opca csr create: no CA is loaded for it, so no row is recorded.
CliCreateCsr(c) ==
    /\ vault.items[CsrItem(c)] = 0
    /\ InCli("csr create", <<Create(CsrItem(c))>>, <<>>)

\* CertificateAuthority::delete_csr.
DeleteCsrCalls(r) ==
    (IF r[4] = "Pending" THEN <<ArchiveIfThere(CsrItem(r[3]))>> ELSE <<>>)
        \o <<Store({r}, {})>>

DeleteCsr(r) == InApp("delete_csr", DeleteCsrCalls(r))

CliDeleteCsr(c) ==
    LET rows == {r \in CsrRows(vault.saved) : r[3] = c}
    IN  \E r \in rows : /\ \A q \in rows : r[2] <= q[2]
                        /\ InCli("csr delete", DeleteCsrCalls(r), <<>>)

\* Mutant: the rows are completed and saved before the certificate is stored.
CompleteFirst(d, c) ==
    <<Archive(CsrItem(c)), Store({r \in CsrRows(d) : r[3] = c},
                                {Complete(r[2], c) : r \in {q \in CsrRows(d) : q[3] = c}}),
      Create(ExtItem(c)), Store({}, {External(c)})>>

(* import_csr_cert: the request's item goes first, then the certificate is *)
(* stored with the key, every row of the name is complete, and the         *)
(* database is saved once                                                  *)
ImportCsrCalls(d, c) ==
    <<Archive(CsrItem(c)), Create(ExtItem(c)),
      Store({r \in CsrRows(d) : r[3] = c},
           {Complete(r[2], c) : r \in {q \in CsrRows(d) : q[3] = c}} \cup {External(c)})>>

(* A chain the app cannot read, a DER certificate given to the command     *)
(* line or a request kept without its text: refused by the code that makes *)
(* the bundle, when the request's item is archived already                 *)
ImportRefused(c) == <<Archive(CsrItem(c)), Refuse>>

ImportCsrCert(c) ==
    /\ vault.items[CsrItem(c)] = 1
    /\ \E calls \in {ImportCsrCalls(db, c), ImportRefused(c)} : InApp("import_csr_cert", calls)

CliImportCsrCert(c) ==
    /\ vault.items[CsrItem(c)] = 1
    /\ \E calls \in {ImportCsrCalls(vault.saved, c), ImportRefused(c)} : InCli("csr import", calls, <<>>)

\* import_certificate_bundle of a certificate another CA signed.
ImportExternalCalls(c) == <<Create(ExtItem(c)), Store({}, {External(c)})>>

ImportCert(c) == InApp("import_cert", ImportExternalCalls(c))
CliImportCert(c) == InCli("cert import", ImportExternalCalls(c), <<>>)

CsrNext ==
    /\ area = "csr"
    /\ \/ \E c \in Name : \/ CreateCsr(c) \/ GenerateCsrFromCert(c) \/ CliCreateCsr(c)
                          \/ CliDeleteCsr(c) \/ ImportCsrCert(c) \/ CliImportCsrCert(c)
                          \/ ImportCert(c) \/ CliImportCert(c)
       \/ \E r \in CsrRows(db) : DeleteCsr(r)

=============================================================================
