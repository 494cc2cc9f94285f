---------------------------- MODULE MCWsSession ----------------------------
EXTENDS WsSession

F(op, fin, ext, mask, len) ==
  [op |-> op, fin |-> fin, ext |-> ext, mask |-> mask, len |-> len]

\* With BUF_SIZE = 6: short frames, one that just fits, one that is longer
\* than a read (but allowed), one beyond the limit, and the control frames; and
\* with BYTE = 4 two of the shorter extended length, which is 1 byte here: 1 is
\* read as 1, 2 as 14.
MCFrames ==
  { F("text", TRUE, 0, 1, 1), F("text", FALSE, 0, 0, 1),
    F("binary", TRUE, 0, 1, 0), F("binary", TRUE, 2, 1, 1),
    F("text", TRUE, 2, 0, 3),
    F("text", TRUE, 1, 0, 1), F("text", TRUE, 1, 0, 2),
    F("binary", TRUE, 2, 0, 20),
    F("cont", TRUE, 0, 0, 1), F("close", TRUE, 0, 0, 0),
    F("ping", TRUE, 0, 1, 0), F("pong", TRUE, 0, 0, 0),
    F("reserved", TRUE, 0, 0, 0) }
=============================================================================
