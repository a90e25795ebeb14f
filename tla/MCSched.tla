------------------------------ MODULE MCSched ------------------------------
(* Instance of Sched: serv_select, the read event and the telnet connection *)
(* event of one window (one descriptor), the write event of a display, and  *)
(* a plain timeout.                                                         *)
EXTENDS Sched

CONSTANTS select, winread, dispwrite, conn, status

MCEvents == {select, winread, dispwrite, conn, status}
MCFd == [e \in Events |-> IF e \in {winread, conn} THEN 1 ELSE 2]
MCPri == [e \in Events |-> IF e = select THEN -10 ELSE IF e = conn THEN 1 ELSE 0]
MCInitType ==
  [e \in Events |-> CASE e = select -> "EV_ALWAYS" [] e \in {dispwrite, conn} -> "EV_WRITE"
                        [] e = status -> "EV_TIMEOUT" [] OTHER -> "EV_READ"]
MCConditional == {winread}
MCSwitchers == {dispwrite}

\* an instance for the deadlines: two timeouts, one of them the write event
\* after EAGAIN, and one event that is always an fd event
TimeEvents == {winread, dispwrite, status}

Never == {}
=============================================================================
