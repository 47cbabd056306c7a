-------------------------------- MODULE Manual -------------------------------
(***************************************************************************)
(* What docs/TOOL.md tells the user that an agent and the flags of logs and*)
(* metrics mean: the tables of its catalog (248-273), row by row, and its  *)
(* rules of resolution (116-122, 150-159).  It is what Catalog and the     *)
(* resolution in Commands are compared with, so it is written from the     *)
(* document and shares with them only how a unit, an endpoint and a log    *)
(* source are written down.                                                *)
(***************************************************************************)
EXTENDS Catalog

\* A row of the two tables; most agents have the journal of their unit only.
Row(alias, unit, endpoints) ==
  [alias |-> Bare(alias), unit |-> Service(unit), endpoints |-> endpoints,
   default |-> Journal(Service(unit)), others |-> {}]
WithFiles(row, default, others) ==
  [row EXCEPT !.default = default, !.others = others \cup {Journal(row.unit)}]

\* TOOL.md does not say where the cadvisor and resource endpoints of the
\* kubelet are: DESIGN.md:301-302.
Manual == {
  Row("kubelet", "kubelet",
      {Proxied("metrics", "/metrics"), Local("healthz", 10248, "/healthz"),
       Proxied("cadvisor", "/metrics/cadvisor"), Proxied("resource", "/metrics/resource")}),
  Row("containerd", "containerd", {}),
  Row("kube-proxy", "kube-proxy",
      {Local("metrics", 10249, "/metrics"), Local("healthz", 10256, "/healthz")}),
  WithFiles(
    Row("ipamd", "ipamd",
        {Local("metrics", 61678, "/metrics"), Local("introspect", 61679, "/v1/enis")}),
    LogFile("ipamd", "ipamd.log"),
    {LogFile("plugin", "plugin.log"), LogFile("egress-v6", "egress-v6-plugin.log")}),
  WithFiles(
    Row("network-policy", "aws-network-policy-agent",
        {Local("metrics", 8900, "/metrics"), Local("healthz", 8901, "/healthz")}),
    LogFile("policy", "network-policy-agent.log"),
    {LogFile("bpf", "ebpf-sdk.log")}),
  Row("node-monitor", "eks-node-monitoring-agent",
      {Local("metrics", 8801, "/metrics"), Local("healthz", 8800, "/healthz")}),
  Row("pod-identity", "eks-pod-identity-agent", {Local("healthz", 2703, "/healthz")}),
  Row("coredns", "coredns",
      {Local("metrics", 9153, "/metrics"), Local("healthz", 8080, "/health"),
       Local("ready", 8181, "/ready")}),
  Row("healthchecker", "eks-healthchecker", {}),
  Row("ebs-csi", "eks-ebs-csi-driver", {}),
  Row("ebs-csi-registrar", "eks-ebs-csi-driver-registrar", {}),
  Row("efa", "efa-k8s-device-plugin", {})}

\* <agent> is an alias or a unit's name (TOOL.md:108).
RowsOf(name) == {w \in Manual : name \in {w.alias, w.unit}}

\* TOOL.md:115: an unknown alias has the journal of <alias>.service, or its own
\* if it says ".service" already.
Unlisted(name) ==
  {Journal(<<name[1], n>>) : n \in {k \in {1, name[2]} : k > 0 /\ k >= name[2]}}

DocumentedLogs(r) ==
  LET rows == RowsOf(r.agent)
  IN  {l \in UNION {{w.default} \cup w.others : w \in rows} :
         \/ l.name = r.source
         \/ r.source = "" /\ \E w \in rows : l = w.default}
      \cup {l \in Unlisted(r.agent) : rows = {} /\ r.source \in {"", "journal"}}

\* --via has two values; it overrides the transport only.
ValidVia(via) == via \in {"", "apiserver", "node"}
Overridden(e, via) == IF via = "" THEN e ELSE [e EXCEPT !.transport = via]

DocumentedEndpoints(r) ==
  {Overridden(e, r.via) :
     e \in {e \in {Local("custom", r.port, r.path)} :
              r.port # 0 /\ r.path # "" /\ ValidVia(r.via)}
           \cup
           {e \in UNION {w.endpoints : w \in RowsOf(r.agent)} :
              /\ r.port = 0 /\ r.path = "" /\ ValidVia(r.via)
              /\ e.name = IF r.endpoint = "" THEN "metrics" ELSE r.endpoint}}

Documented(r) == IF r.cmd = "logs" THEN DocumentedLogs(r) ELSE DocumentedEndpoints(r)

\* Where the code is known to disagree with it: the health endpoint of coredns
\* is "healthz" in TOOL.md:255 and "health" in agents.go:178 and DESIGN.md:334,
\* and metrics.go:88 takes any --via together with --port and --path.
Bypass(r)        == r.port # 0 /\ r.path # ""
CoreDNSHealth(r) == /\ r.agent \in {Bare("coredns"), Service("coredns")}
                    /\ r.endpoint \in {"health", "healthz"} /\ ~Bypass(r)
AnyVia(r)        == Bypass(r) /\ ~ValidVia(r.via)
Disputed(r)      == r.cmd = "metrics" /\ (CoreDNSHealth(r) \/ AnyVia(r))
=============================================================================
