SPECIFICATION Spec
CONSTANTS
  MaxActs = 1
  Pages = {"actions", "clients", "dhcp", "dns", "encryption", "install", "lists", "log", "rewrites",
          "services", "settings", "stats", "status", "tables", "wizard", "toasts", "rules"}
PROPERTY LoaderEnds
CHECK_DEADLOCK FALSE
