SPECIFICATION SSpec
CONSTANTS
  ping = ping
  memory_set = memory_set
  private = private
  Connectors = {calendar}
  TemplateConnector = calendar
  TemplateVersion = 1
  Versions = {1, 2}
  MaxEdits = 2
  Sids = {browser}
  Scaffolded <- MCScaffolded
  IdentityTools <- MCIdentityTools
  Modules <- PlainModules
  Forms <- MCForms
INVARIANT IdentityToolsNeedNoChanges
