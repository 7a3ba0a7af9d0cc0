----------------------------- MODULE MCHostGuard -----------------------------
(* Instance of HostGuard for TLC. *)
EXTENDS HostGuard

MCNames == {"localhost", "LOCALHOST", "my-box.lan", "MY-BOX.LAN", "other.lan",
            "127.0.0.1", "127.8.8.8", "10.0.0.5", "128.0.0.1"}
MCLower(token) ==
  CASE token = "LOCALHOST" -> "localhost"
    [] token = "MY-BOX.LAN" -> "my-box.lan"
    [] token = "FD00" -> "fd00"
    [] OTHER -> token

\* ::1, ::2, fd00::5, FD00::5
MCV6 == {<<":", ":", "1">>, <<":", ":", "2">>,
         <<"fd00", ":", ":", "5">>, <<"FD00", ":", ":", "5">>}
MCPorts == {"80", "8899"}
MCDigits == MCPorts \cup {"1", "2", "5"}
MCLoopback == {<<"127.0.0.1">>, <<"127.8.8.8">>, <<":", ":", "1">>}
MCAllowed == {<<"my-box.lan">>, <<"10.0.0.5">>, <<"fd00", ":", ":", "5">>}
=============================================================================
