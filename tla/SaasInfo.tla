------------------------------ MODULE SaasInfo ------------------------------
(***************************************************************************)
(* parsers.parse_saasinfo_data: what an appliance knows of a SaaS          *)
(* application, printed section by section, is filed line by line.         *)
(*                                                                         *)
(* The appliance prints titles and entries, the parser reads each line as  *)
(* it is printed.  Lines of rules and blank lines are left out: the parser *)
(* drops them before it looks at anything.  The sections may come in any   *)
(* order and more than once.                                               *)
(*                                                                         *)
(* Definitions whose name begins with Bug are faults a change could bring  *)
(* in; nothing uses them but the check that the properties notice.         *)
(***************************************************************************)
EXTENDS Naturals, Sequences

CONSTANTS Regions, Mailboxes, Ips,   \* what the sections list
          MaxLines                   \* titles and entries printed

ASSUME MaxLinesAssumption == MaxLines \in Nat

VARIABLES
  section,   \* the parser's: the section it is in
  region,    \* the region of the last line that had one
  appid, ip, host, geodns,   \* saasdata_dict
  exc,       \* "none", or what the parser raised
  entries,   \* the appliance's: what it has printed in the plain sections,
  mailboxes, \* of each region's mailboxes
  ips,       \* and addresses
  under,     \* the region whose addresses it is printing
  named,     \* the regions it has printed addresses for
  mailed,    \* ... of these, those with a mailbox printed before
  lines      \* how many lines it has printed

parser    == <<section, region, appid, ip, host, geodns, exc>>
appliance == <<entries, mailboxes, ips, under, named, mailed, lines>>
printed   == <<entries, mailboxes, ips>>
saasVars  == <<parser, appliance>>

None     == "none"
Sections == {"appid", "ip", "host", "geodns", "mbx", "region"}

(* The parser tells a region from an address by ipaddress.ip_address().    *)
ASSUME RegionsAssumption == Regions \cap Ips = {} /\ None \notin Regions

-----------------------------------------------------------------------------
(* The parser on a line, by the section it is in.                          *)
ReadTitle(title) ==
  /\ section' = title
  /\ UNCHANGED <<region, appid, ip, host, geodns, exc>>

ReadEntry(line) ==
  /\ \/ section = "appid" /\ appid' = line /\ UNCHANGED <<ip, host>>
     \/ section = "ip"    /\ ip' = Append(ip, line) /\ UNCHANGED <<appid, host>>
     \/ section = "host"  /\ host' = Append(host, line) /\ UNCHANGED <<appid, ip>>
  /\ UNCHANGED <<section, region, geodns, exc>>

BugRegion(mbx) == [mbx |-> <<>>, ip |-> <<>>]

Region(mbx) == [mbx |-> <<mbx>>, ip |-> <<>>]

WithRegion(r, mbx) ==
  [s \in DOMAIN geodns \cup {r} |-> IF s = r THEN Region(mbx) ELSE geodns[s]]

BugReadMailbox(mbx, r) ==
  /\ section = "mbx"
  /\ region' = r
  /\ geodns' = WithRegion(r, mbx)
  /\ UNCHANGED <<section, appid, ip, host, exc>>

ReadMailbox(mbx, r) ==
  /\ section = "mbx"
  /\ region' = r
  /\ geodns' = IF r \in DOMAIN geodns
               THEN [geodns EXCEPT ![r] = [mbx |-> Append(@.mbx, mbx), ip |-> @.ip]]
               ELSE WithRegion(r, mbx)
  /\ UNCHANGED <<section, appid, ip, host, exc>>

BugReadRegional(line) ==
  /\ section = "region"
  /\ \/ line \in Regions /\ region' = line /\ UNCHANGED <<geodns, exc>>
     \/ line \in Ips /\ region \in DOMAIN geodns
        /\ geodns' = [geodns EXCEPT ![region] =
                        [mbx |-> @.mbx, ip |-> Append(@.ip, line)]]
        /\ UNCHANGED <<region, exc>>
     \/ line \in Ips /\ region \notin DOMAIN geodns
        /\ exc' = "KeyError" /\ UNCHANGED <<region, geodns>>
  /\ UNCHANGED <<section, appid, ip, host>>

(* A region is known by its mailboxes; any other line must be an address,  *)
(* which goes to the region seen last (before any region, none is printed).*)
ReadRegional(line) ==
  /\ section = "region"
  /\ \/ line \in DOMAIN geodns /\ region' = line /\ UNCHANGED <<geodns, exc>>
     \/ line \notin DOMAIN geodns \cup Ips
        /\ exc' = "ValueError" /\ UNCHANGED <<region, geodns>>
     \/ line \in Ips
        /\ geodns' = [geodns EXCEPT ![region] =
                        [mbx |-> @.mbx, ip |-> Append(@.ip, line)]]
        /\ UNCHANGED <<region, exc>>
  /\ UNCHANGED <<section, appid, ip, host>>

ReadUnexpected ==
  /\ section \in {None, "geodns"}
  /\ exc' = "KeyError"
  /\ UNCHANGED <<section, region, appid, ip, host, geodns>>

-----------------------------------------------------------------------------
(* The appliance prints a line, and the parser reads it.                   *)
More == exc = "none" /\ lines < MaxLines /\ lines' = lines + 1

PrintTitle(title) ==
  /\ More /\ ReadTitle(title)
  /\ under' = None /\ UNCHANGED <<printed, named, mailed>>

PrintEntry(kind) ==
  /\ More /\ section = kind /\ ReadEntry("entry")
  /\ entries' = [entries EXCEPT ![kind] = Append(@, "entry")]
  /\ UNCHANGED <<mailboxes, ips, under, named, mailed>>

PrintMailbox(mbx, r) ==
  /\ More /\ ReadMailbox(mbx, r)
  /\ mailboxes' = [mailboxes EXCEPT ![r] = Append(@, mbx)]
  /\ UNCHANGED <<entries, ips, under, named, mailed>>

PrintRegion(r) ==
  /\ More /\ ReadRegional(r)
  /\ under' = r /\ named' = named \cup {r}
  /\ mailed' = IF mailboxes[r] # <<>> THEN mailed \cup {r} ELSE mailed
  /\ UNCHANGED printed

PrintIp(a) ==
  /\ More /\ under # None /\ ReadRegional(a)
  /\ ips' = [ips EXCEPT ![under] = Append(@, a)]
  /\ UNCHANGED <<entries, mailboxes, under, named, mailed>>

(* A message in place of the data.                                         *)
PrintMessage ==
  /\ More /\ ReadUnexpected
  /\ UNCHANGED <<printed, under, named, mailed>>

-----------------------------------------------------------------------------
SaasInit ==
  /\ section = None /\ region = None /\ exc = "none"
  /\ appid = None /\ ip = <<>> /\ host = <<>> /\ geodns = <<>>
  /\ entries = [kind \in {"appid", "ip", "host"} |-> <<>>]
  /\ mailboxes = [r \in Regions |-> <<>>] /\ ips = [r \in Regions |-> <<>>]
  /\ under = None /\ named = {} /\ mailed = {} /\ lines = 0

SaasNext ==
  \/ \E title \in Sections : PrintTitle(title)
  \/ \E kind \in {"appid", "ip", "host"} : PrintEntry(kind)
  \/ \E mbx \in Mailboxes, r \in Regions : PrintMailbox(mbx, r)
  \/ \E r \in Regions : PrintRegion(r)
  \/ \E a \in Ips : PrintIp(a)
  \/ PrintMessage

SaasSpec == SaasInit /\ [][SaasNext]_saasVars

-----------------------------------------------------------------------------
FiledUnder(r, kind) == IF r \in DOMAIN geodns THEN geodns[r][kind] ELSE <<>>

(* Every variable keeps its kind of value, and every region filed has a    *)
(* mailbox.                                                                *)
SaasTypeOK ==
  /\ section \in Sections \cup {None} /\ region \in Regions \cup {None}
  /\ appid \in {"entry", None} /\ ip \in Seq({"entry"}) /\ host \in Seq({"entry"})
  /\ DOMAIN geodns \subseteq Regions
  /\ \A r \in DOMAIN geodns : /\ geodns[r].mbx \in Seq(Mailboxes) \ {<<>>}
                              /\ geodns[r].ip \in Seq(Ips)
  /\ exc \in {"none", "ValueError", "KeyError"}

(* Whatever the order of the sections, and although a mailbox line and a   *)
(* region line leave the same variable behind, every mailbox and address   *)
(* is filed under the region it was printed for, once, in the order        *)
(* printed.                                                                *)
FiledAsPrinted ==
  exc = "none" =>
    /\ \A r \in Regions : /\ FiledUnder(r, "mbx") = mailboxes[r]
                          /\ FiledUnder(r, "ip")  = ips[r]
    /\ ip = entries["ip"] /\ host = entries["host"]
    /\ appid = None <=> entries["appid"] = <<>>

(* Output is refused for a region that has addresses and had no mailbox    *)
(* before, as no valid address, and for nothing else an appliance lists.   *)
RefusedForRegion ==
  /\ exc = "ValueError" <=> named # mailed
  /\ exc = "KeyError" => section \in {None, "geodns"}
=============================================================================
