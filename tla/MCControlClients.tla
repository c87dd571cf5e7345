-------------------------- MODULE MCControlClients --------------------------
(* A small instance of ControlClients: an MCP server and a command, two     *)
(* environments, of which announce creates the second, and a session.       *)
EXTENDS ControlClients

CONSTANTS e1, e2, s1, a1, c1, p1, p2

MCParent == [s \in {s1} |-> e1]

MCStored == [s \in {e1, e2, s1} |->
    CASE s = e1 -> [app |-> [port |-> p1, active |-> FALSE], version |-> 1]
      [] s = s1 -> [app |-> [port |-> None, active |-> FALSE], version |-> 1]
      [] OTHER  -> None]

Ask(tool, ws, session, port, local) ==
    [tool |-> tool, ws |-> ws, session |-> session, port |-> port, local |-> local]

MCCalls ==
    { Ask("get", e2, s1, p1, FALSE),
      Ask("register", e1, s1, p1, FALSE), Ask("register", e1, None, p2, FALSE),
      Ask("announce", e2, None, p1, TRUE), Ask("announce", e1, General, p2, TRUE),
      Ask("unregister", e1, None, p1, FALSE),
      Ask("set_route", e1, s1, p1, TRUE), Ask("set_route", e1, None, p1, TRUE),
      Ask("toggle", e1, None, p1, FALSE),
      Ask("set_all", e1, None, p1, TRUE),
      Ask("session_create", e1, None, p1, FALSE),
      Ask("session_close", s1, None, p1, FALSE) }

MCCommandLines ==
    { Ask("cli register", e1, None, p2, FALSE), Ask("cli announce", e2, None, p2, TRUE),
      Ask("cli announce", e1, General, p1, TRUE),
      Ask("cli toggle", e1, None, p1, FALSE), Ask("unregister", e1, General, p1, FALSE),
      Ask("workspace delete", e2, None, p1, FALSE),
      Ask("workspace delete", e1, None, p1, FALSE),
      Ask("workspace delete", e1, s1, p1, FALSE) }

MCHomes == {[c \in {a1, c1} |-> IF c = a1 THEN s ELSE None] : s \in {None, s1}}
=============================================================================
