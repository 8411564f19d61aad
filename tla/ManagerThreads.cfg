SPECIFICATION FairSpec
CONSTANTS Threads = {t1, t2, t3}
          NoThread = NoThread
          Registrars = {t1}
          Schemes = {"sqlite", "sqlite3", "mysql", "other"}
          Plugins = {"mysql", "empty", "broken", "classless"}
          BuiltIn = "builtin"
          NoDriver = "none"
          SchemesOf <- Declared
          Malformed = {"broken"}
          Classless = {"classless"}
INVARIANTS TypeOK NoRace BuiltInServed InfoMatchesClass ClassesLoaded
PROPERTY CallsReturn
