\* A session to restore, or none, and the logins after it.
SPECIFICATION Spec
CONSTANTS
    t1 = t1
    t2 = t2
    t3 = t3
    ann = ann
    bob = bob
    f1 = f1
    f2 = f2
    Nobody = Nobody
    Tokens = {t1, t2, t3}
    Owner <- MCOwner
    Reports = {f1, f2}
INVARIANTS ShownForTheToken ReportIsOfTheSession NoUrlLeaks ButtonComesBack
 
CHECK_DEADLOCK FALSE
