------------------------------- MODULE Catalog ------------------------------
(***************************************************************************)
(* The catalog of on-node agents and the lookups in it.  A unit name is a  *)
(* pair of a base and the number of times ".service" follows it; an alias  *)
(* that the user gives may have either form.                               *)
(***************************************************************************)
EXTENDS Integers, Sequences

Bare(base)      == <<base, 0>>
Service(base)   == <<base, 1>>
Suffixed(name)  == <<name[1], name[2] + 1>>     \* name + ".service"
HasDotService(name) == name[2] > 0

\* Endpoints and log sources.  Port 0 is no port: the API server's proxy goes
\* to the kubelet.
Proxied(n, path)     == [name |-> n, transport |-> "apiserver", port |-> 0, path |-> path]
Local(n, port, path) == [name |-> n, transport |-> "node", port |-> port, path |-> path]
Journal(unit)        == [name |-> "journal", kind |-> "journal", of |-> unit]
LogFile(n, path)     == [name |-> n, kind |-> "file", of |-> path]

Agent(alias, unit, endpoints, logs) ==
  [alias |-> Bare(alias), unit |-> Service(unit), endpoints |-> endpoints,
   logs |-> logs \o <<Journal(Service(unit))>>]

Builtin == <<
  Agent("kubelet", "kubelet",
        <<Proxied("metrics", "/metrics"), Proxied("cadvisor", "/metrics/cadvisor"),
          Proxied("resource", "/metrics/resource"), Local("healthz", 10248, "/healthz")>>, <<>>),
  Agent("containerd", "containerd", <<>>, <<>>),
  Agent("kube-proxy", "kube-proxy",
        <<Local("metrics", 10249, "/metrics"), Local("healthz", 10256, "/healthz")>>, <<>>),
  Agent("ipamd", "ipamd",
        <<Local("metrics", 61678, "/metrics"), Local("introspect", 61679, "/v1/enis")>>,
        <<LogFile("ipamd", "ipamd.log"), LogFile("plugin", "plugin.log"),
          LogFile("egress-v6", "egress-v6-plugin.log")>>),
  Agent("network-policy", "aws-network-policy-agent",
        <<Local("metrics", 8900, "/metrics"), Local("healthz", 8901, "/healthz")>>,
        <<LogFile("policy", "network-policy-agent.log"), LogFile("bpf", "ebpf-sdk.log")>>),
  Agent("node-monitor", "eks-node-monitoring-agent",
        <<Local("metrics", 8801, "/metrics"), Local("healthz", 8800, "/healthz")>>, <<>>),
  Agent("pod-identity", "eks-pod-identity-agent", <<Local("healthz", 2703, "/healthz")>>, <<>>),
  Agent("coredns", "coredns",
        <<Local("metrics", 9153, "/metrics"), Local("health", 8080, "/health"),
          Local("ready", 8181, "/ready")>>, <<>>),
  Agent("healthchecker", "eks-healthchecker", <<>>, <<>>),
  Agent("ebs-csi", "eks-ebs-csi-driver", <<>>, <<>>),
  Agent("ebs-csi-registrar", "eks-ebs-csi-driver-registrar", <<>>, <<>>),
  Agent("efa", "efa-k8s-device-plugin", <<>>, <<>>)>>

\* The first element that the test accepts: what a loop with an early return
\* finds.
Holds(seq, Test(_)) == \E i \in DOMAIN seq : Test(seq[i])
First(seq, Test(_)) ==
  seq[CHOOSE i \in DOMAIN seq : Test(seq[i]) /\ \A j \in 1..(i - 1) : ~Test(seq[j])]

\* An unknown name is passed through as a unit that has its journal only.
PassThrough(alias) ==
  LET unit == IF HasDotService(alias) THEN alias ELSE Suffixed(alias)
  IN  [alias |-> alias, unit |-> unit, endpoints |-> <<>>, logs |-> <<Journal(unit)>>]

LookupAlias(alias) ==                                                \* mutant
  LET Is(a) == a.alias = alias
  IN  IF Holds(Builtin, Is) THEN First(Builtin, Is) ELSE PassThrough(alias)

Lookup(alias) ==
  LET Is(a) == a.alias = alias \/ a.unit = alias
  IN  IF Holds(Builtin, Is) THEN First(Builtin, Is) ELSE PassThrough(alias)

HasNamed(seq, n) == LET Is(x) == x.name = n IN Holds(seq, Is)
Named(seq, n)    == LET Is(x) == x.name = n IN First(seq, Is)

\* Every entry has a source, so the synthetic one for an empty list is never
\* needed.
DefaultLog(a) == IF a.logs # <<>> THEN a.logs[1] ELSE Journal(a.unit)
=============================================================================
