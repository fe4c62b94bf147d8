---------------------------- MODULE NetworkChecks ----------------------------
(***************************************************************************)
(* The checks the network doctor registers, as its families define them:   *)
(* the section, the sections it depends on, whether it is required, and    *)
(* what it can come to.                                                    *)
(***************************************************************************)
EXTENDS Sequences

Def(section, dependencies, required, outcomes) ==
    [section |-> section, dependencies |-> dependencies, required |-> required, outcomes |-> outcomes]

-----------------------------------------------------------------------------
(* What each check can come to: it passes, it fails with a command that    *)
(* repairs it ("fixable") or without one, or it raises an error its method *)
(* does not catch.                                                          *)
SystemCheck ==
    << Def("sockets", {}, TRUE, {"passed", "fixable", "failed"}),
       Def("capture", {}, FALSE, {"passed", "fixable"}) >>

NetworkCheck ==
    << Def("vpn", {}, TRUE, {"passed", "failed"}),
       Def("dns", {}, TRUE, {"passed", "failed", "raised"}),
       Def("mtu", {}, FALSE, {"passed", "failed"}),
       Def("bandwidth", {}, FALSE, {"passed", "failed"}) >>

ProxyCheck ==
    << Def("environment", {}, TRUE, {"passed", "fixable"}),
       Def("cntlm", {"environment"}, TRUE, {"passed", "fixable", "failed", "raised"}),
       Def("ntlm", {"cntlm"}, TRUE, {"passed", "failed"}),
       Def("handshake", {"ntlm"}, TRUE, {"passed", "failed"}) >>

TargetCheck ==
    << Def("dns", {}, TRUE, {"passed", "failed", "raised"}),
       Def("target", {"dns", "vpn"}, TRUE, {"passed", "failed", "raised"}),
       Def("tls", {"target"}, FALSE, {"passed", "failed"}),
       Def("service", {"target"}, FALSE, {"passed"}),
       Def("payload", {"target"}, FALSE, {"passed", "failed"}) >>

\* The list of create_all_checks: name resolution is in it twice.
CreateAllChecks == SystemCheck \o NetworkCheck \o ProxyCheck \o TargetCheck
=============================================================================
