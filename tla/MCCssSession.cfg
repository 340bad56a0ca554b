CONSTANTS
    t1 = t1  t2 = t2  t3 = t3  a = a  b = b
    Threads = {t1, t2, t3}
    Cookies = {a, b}
    Cookie <- MCCookie
    Undeclared = {}
    EndsQuietly = TRUE
    None = None
SPECIFICATION FairSpec
INVARIANTS TypeOK SessionIsExclusive NoLostWakeup KeysStayInOwnSession
PROPERTY BeginReturns
