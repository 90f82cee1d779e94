SPECIFICATION Spec
CONSTANTS
  MaxActs = 2
  Pages = {"actions", "clients", "dhcp", "dns", "encryption", "install", "lists", "log", "rewrites",
          "services", "settings", "stats", "status", "tables", "wizard", "toasts", "rules"}
INVARIANTS
  TypeOK
  
  
  
  FormsSound
  
  
  RightForm
  ScreenSound
CHECK_DEADLOCK FALSE
