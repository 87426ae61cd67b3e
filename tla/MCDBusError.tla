----------------------------- MODULE MCDBusError ----------------------------
EXTENDS DBusError

CONSTANTS n1, n2, t1, t2, f1, f2

MCNames == {n1, n2}
MCTexts == {t1, t2}
MCFormats == {f1, f2}
=============================================================================
